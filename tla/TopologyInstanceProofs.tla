----------------------- MODULE TopologyInstanceProofs -----------------------
(***************************************************************************)
(* Proofs about TopologyInstance: dijkstra and buildroute (RouteTree) for  *)
(* every set of switches, every graph and every assignment of positive     *)
(* weights; identifyOpenflowDomains; and the broadcast tree.               *)
(***************************************************************************)
EXTENDS TopologyInstance, FiniteSetTheorems, SequenceTheorems, WellFoundedInduction, TLAPS

(* dijkstra starts in a state that satisfies the inductive invariant. *)
LEMMA RouteInit == Init => RouteInv
<1> SUFFICES ASSUME Init PROVE RouteInv
    OBVIOUS
<1> USE RouteAssumptions DEF Init
<1>1. TypeOK
    BY DEF TypeOK, Entry
<1>2. CostsDescend
    BY DEF CostsDescend
<1>3. WalkDescends /\ RouteNeverStuck
    BY DEF WalkDescends, RouteNeverStuck
<1> QED BY <1>1, <1>2, <1>3 DEF RouteInv

(* Every step of dijkstra and buildroute preserves the inductive invariant. *)
LEMMA RouteStep == RouteInv /\ [Next]_vars => RouteInv'
<1> SUFFICES ASSUME RouteInv, [Next]_vars PROVE RouteInv'
    OBVIOUS
<1> USE RouteAssumptions
<1>t. TypeOK /\ CostsDescend /\ WalkDescends /\ RouteNeverStuck
    BY DEF RouteInv
<1>1. ASSUME NEW e \in nodeq, Poll(e) PROVE RouteInv'
  <2>1. TypeOK'
      BY <1>t, <1>1 DEF TypeOK, Poll, LinksOf, Entry
  <2>2. CostsDescend'
    <3>1. cost[e.node] <= e.dist
        BY <1>t DEF CostsDescend
    <3>2. \A l \in todo' : cost'[l.dst] <= cdist' \/ cost'[l.src] <= cdist'
      <4> SUFFICES ASSUME NEW l \in todo'
                   PROVE  cost'[l.dst] <= cdist' \/ cost'[l.src] <= cdist'
          OBVIOUS
      <4>1. CASE e.node \in seen
          BY <4>1, <1>1 DEF Poll
      <4>2. CASE e.node \notin seen
        <5>1. (l.src = e.node \/ l.dst = e.node) /\ cdist' = e.dist /\ cost' = cost
            BY <4>2, <1>1 DEF Poll, LinksOf
        <5> QED BY <5>1, <3>1
      <4> QED BY <4>1, <4>2
    <3> QED BY <1>t, <1>1, <3>2 DEF TypeOK, CostsDescend, Poll
  <2>3. WalkDescends' /\ RouteNeverStuck'
      BY <1>1 DEF WalkDescends, RouteNeverStuck, Poll
  <2> QED BY <2>1, <2>2, <2>3 DEF RouteInv
<1>2. ASSUME NEW l \in todo, Relax(l) PROVE RouteInv'
  <2>0. l \in links /\ l \in Link /\ l.src \in Switch /\ l.dst \in Switch
        /\ LinkCost[l] \in Nat \ {0}
      BY <1>t DEF TypeOK
  <2>1. TypeOK'
    <3>1. CASE ~Improves(l)
        BY <1>t, <1>2, <3>1 DEF TypeOK, Relax
    <3>2. CASE Improves(l)
      <4> DEFINE nd == cdist + LinkCost[l]
      <4>1. /\ nd \in Nat
            /\ cost' = [cost EXCEPT ![l.src] = nd]
            /\ nexthoplinks' = [nexthoplinks EXCEPT ![l.src] = l]
            /\ nodeq' = nodeq \union {[node |-> l.src, dist |-> nd]}
            /\ todo' = todo \ {l}
            /\ UNCHANGED <<links, seen, cdist, pc, path, srcId>>
          BY <1>t, <1>2, <2>0, <3>2 DEF TypeOK, Relax
      <4> HIDE DEF nd
      <4>2. cost' \in [Switch -> Nat] /\ nexthoplinks' \in [Switch -> links \union {NoLink}]
          BY <1>t, <4>1, <2>0 DEF TypeOK
      <4>3. nodeq' \subseteq Entry
          BY <1>t, <4>1, <2>0 DEF TypeOK, Entry
      <4> QED BY <1>t, <4>1, <4>2, <4>3 DEF TypeOK
    <3> QED BY <3>1, <3>2
  <2>2. CostsDescend'
    <3>1. CASE ~Improves(l)
        BY <1>t, <1>2, <3>1 DEF TypeOK, CostsDescend, Relax
    <3>2. CASE Improves(l)
      <4> DEFINE nd == cdist + LinkCost[l]
      <4>1. /\ nd \in Nat /\ nd < cost[l.src] /\ nd > cdist
            /\ cost' = [cost EXCEPT ![l.src] = nd]
            /\ nexthoplinks' = [nexthoplinks EXCEPT ![l.src] = l]
            /\ nodeq' = nodeq \union {[node |-> l.src, dist |-> nd]}
            /\ todo' = todo \ {l} /\ cdist' = cdist
          BY <1>t, <1>2, <2>0, <3>2 DEF TypeOK, Relax, Improves
      <4> HIDE DEF nd
      <4>2. /\ cost \in [Switch -> Nat] /\ cdist \in Nat
            /\ nexthoplinks \in [Switch -> links \union {NoLink}]
            /\ links \subseteq Link /\ todo \subseteq links /\ nodeq \subseteq Entry
          BY <1>t DEF TypeOK
      <4>3. cost[l.dst] <= cdist
          BY <1>t, <4>1, <4>2, <2>0 DEF CostsDescend
      <4>4. l.src # Root /\ l.dst # l.src
          BY <1>t, <4>1, <4>2, <4>3, <2>0 DEF CostsDescend
      <4>5. \A n \in Switch : cost'[n] <= cost[n] /\ cost'[n] \in Nat
          BY <4>1, <4>2, <2>0
      <4>6. cost[l.src] <= MAX_PATH_WEIGHT
          BY <1>t, <4>2, <4>4, <2>0 DEF CostsDescend
      <4>7. \A n \in Switch : nexthoplinks'[n] # NoLink =>
               /\ nexthoplinks'[n].src = n
               /\ cost'[nexthoplinks'[n].dst] < cost'[n]
               /\ cost'[n] < MAX_PATH_WEIGHT
        <5> SUFFICES ASSUME NEW n \in Switch, nexthoplinks'[n] # NoLink
                     PROVE  /\ nexthoplinks'[n].src = n
                            /\ cost'[nexthoplinks'[n].dst] < cost'[n]
                            /\ cost'[n] < MAX_PATH_WEIGHT
            OBVIOUS
        <5>1. CASE n = l.src
            BY <5>1, <4>1, <4>2, <4>3, <4>4, <4>6, <2>0
        <5>2. CASE n # l.src
          <6>1. nexthoplinks'[n] = nexthoplinks[n] /\ cost'[n] = cost[n]
                /\ nexthoplinks[n].dst \in Switch
              BY <5>2, <4>1, <4>2
          <6> QED BY <6>1, <1>t, <4>2, <4>5 DEF CostsDescend
        <5> QED BY <5>1, <5>2
      <4>8. \A f \in nodeq' : cost'[f.node] <= f.dist
        <5> SUFFICES ASSUME NEW f \in nodeq' PROVE cost'[f.node] <= f.dist
            OBVIOUS
        <5>1. CASE f \in nodeq
            BY <5>1, <1>t, <4>1, <4>2, <4>5 DEF CostsDescend, Entry
        <5>2. CASE f = [node |-> l.src, dist |-> nd]
            BY <5>2, <4>1, <4>2, <2>0
        <5> QED BY <5>1, <5>2, <4>1
      <4>9. \A k \in todo' : cost'[k.dst] <= cdist' \/ cost'[k.src] <= cdist'
        <5> SUFFICES ASSUME NEW k \in todo'
                     PROVE  cost'[k.dst] <= cdist' \/ cost'[k.src] <= cdist'
            OBVIOUS
        <5>1. k \in todo /\ k.src \in Switch /\ k.dst \in Switch
            BY <4>1, <4>2
        <5> QED BY <5>1, <1>t, <4>1, <4>2, <4>5 DEF CostsDescend
      <4>10. \A n \in Switch : nexthoplinks'[n] = NoLink =>
                               n = Root \/ cost'[n] = MAX_PATH_WEIGHT
          BY <1>t, <4>1, <4>2, <2>0 DEF CostsDescend
      <4>11. cost'[Root] = 0 /\ nexthoplinks'[Root] = NoLink
          BY <1>t, <4>1, <4>2, <4>4 DEF CostsDescend
      <4> QED BY <4>7, <4>8, <4>9, <4>10, <4>11 DEF CostsDescend
    <3> QED BY <3>1, <3>2
  <2>3. WalkDescends' /\ RouteNeverStuck'
      BY <1>2 DEF WalkDescends, RouteNeverStuck, Relax
  <2> QED BY <2>1, <2>2, <2>3 DEF RouteInv
<1>3. ASSUME FinishTree PROVE RouteInv'
    BY <1>t, <1>3 DEF RouteInv, FinishTree, treeVars, TypeOK, CostsDescend,
                      WalkDescends, RouteNeverStuck
<1>4. ASSUME NEW s \in Switch, StartRoute(s) PROVE RouteInv'
  <2>1. TypeOK' /\ CostsDescend'
      BY <1>t, <1>4 DEF StartRoute, treeVars, TypeOK, CostsDescend
  <2>2. WalkDescends' /\ RouteNeverStuck'
      BY <1>4 DEF StartRoute, treeVars, WalkDescends, RouteNeverStuck
  <2> QED BY <2>1, <2>2 DEF RouteInv
<1>5. ASSUME WalkHop PROVE RouteInv'
  <2> DEFINE h == nexthoplinks[srcId]
  <2>1. /\ h \in links /\ h.src = srcId /\ h.dst \in Switch
        /\ cost[h.dst] < cost[srcId] /\ cost[srcId] < MAX_PATH_WEIGHT
        /\ cost \in [Switch -> Nat] /\ srcId \in Switch
        /\ path \in Seq(links) /\ links \subseteq Link
      BY <1>t, <1>5 DEF WalkHop, TypeOK, CostsDescend
  <2>2. /\ path' = Append(path, h) /\ srcId' = h.dst /\ pc = "route" /\ pc' = "route"
        /\ UNCHANGED <<links, treeVars>>
      BY <1>5 DEF WalkHop
  <2> HIDE DEF h
  <2>3. TypeOK' /\ CostsDescend'
      BY <1>t, <2>1, <2>2 DEF treeVars, TypeOK, CostsDescend
  <2>4. WalkDescends'
    <3>1. /\ Len(path') = Len(path) + 1
          /\ \A i \in 1..Len(path) : path'[i] = path[i]
          /\ path'[Len(path) + 1] = h
          /\ Len(path) \in Nat
        BY <2>1, <2>2
    <3>2. \A i \in 1..Len(path) : path[i].src \in Switch
        BY <2>1
    <3>3. \A i \in 1..Len(path) : cost[path[i].src] > cost[srcId]
        BY <1>t, <2>2 DEF WalkDescends
    <3>4. \A i \in 1..Len(path') : cost[path'[i].src] > cost[h.dst]
      <4> SUFFICES ASSUME NEW i \in 1..Len(path')
                   PROVE  cost[path'[i].src] > cost[h.dst]
          OBVIOUS
      <4>1. CASE i = Len(path) + 1
          BY <4>1, <3>1, <2>1
      <4>2. CASE i \in 1..Len(path)
        <5>1. cost[path[i].src] \in Nat /\ cost[srcId] \in Nat /\ cost[h.dst] \in Nat
            BY <4>2, <3>2, <2>1
        <5> QED BY <5>1, <4>2, <3>1, <3>3, <2>1
      <4> QED BY <4>1, <4>2, <3>1
    <3>5. \A i, j \in 1..Len(path') : i < j => cost[path'[i].src] > cost[path'[j].src]
      <4> SUFFICES ASSUME NEW i \in 1..Len(path'), NEW j \in 1..Len(path'), i < j
                   PROVE  cost[path'[i].src] > cost[path'[j].src]
          OBVIOUS
      <4>1. CASE j = Len(path) + 1
        <5>1. i \in 1..Len(path)
            BY <4>1, <3>1
        <5>2. path'[i] = path[i] /\ path'[j] = h
            BY <5>1, <4>1, <3>1
        <5> QED BY <5>1, <5>2, <3>3, <2>1
      <4>2. CASE j \in 1..Len(path)
          BY <4>2, <3>1, <1>t, <2>2 DEF WalkDescends
      <4> QED BY <4>1, <4>2, <3>1
    <3> QED BY <3>4, <3>5, <2>2 DEF WalkDescends, treeVars
  <2>5. RouteNeverStuck'
    <3>1. cost[h.dst] # MAX_PATH_WEIGHT
        BY <2>1
    <3> QED BY <3>1, <1>t, <2>1, <2>2 DEF RouteNeverStuck, CostsDescend, treeVars
  <2> QED BY <2>3, <2>4, <2>5 DEF RouteInv
<1>6. ASSUME EndRoute PROVE RouteInv'
    BY <1>t, <1>6 DEF RouteInv, EndRoute, treeVars, TypeOK, CostsDescend,
                      WalkDescends, RouteNeverStuck
<1>7. ASSUME UNCHANGED vars PROVE RouteInv'
    BY <1>t, <1>7 DEF RouteInv, vars, treeVars, TypeOK, CostsDescend,
                      WalkDescends, RouteNeverStuck
<1> QED BY <1>1, <1>2, <1>3, <1>4, <1>5, <1>6, <1>7 DEF Next, NoRequest

(* The inductive invariant implies that a walk never repeats a switch. *)
LEMMA RouteInvLoopFree == RouteInv => RouteLoopFree
<1> SUFFICES ASSUME RouteInv, pc = "route" PROVE RouteLoopFree
    BY DEF RouteLoopFree
<1>1. WalkDescends /\ TypeOK
    BY DEF RouteInv
<1>2. \A i \in 1..Len(path) : path[i].src \in Switch
    BY <1>1, RouteAssumptions DEF TypeOK
<1> QED BY <1>1, <1>2 DEF WalkDescends, RouteLoopFree, TypeOK

(* The variables of dijkstra and buildroute keep their types. *)
THEOREM RouteTypeCorrect == Spec => []TypeOK
<1>1. RouteInv => TypeOK
    BY DEF RouteInv
<1> QED BY <1>1, RouteInit, RouteStep, PTL DEF Spec

(* On every graph, with every positive weight and every order in which the     *)
(* queue breaks ties, buildroute never dereferences a missing next hop.        *)
THEOREM RouteNeverStuckHolds == Spec => []RouteNeverStuck
<1>1. RouteInv => RouteNeverStuck
    BY DEF RouteInv
<1> QED BY <1>1, RouteInit, RouteStep, PTL DEF Spec

(* On every graph, with every positive weight and every order in which the     *)
(* queue breaks ties, the routes buildroute produces are free of loops.        *)
THEOREM RouteLoopFreeHolds == Spec => []RouteLoopFree
<1> QED BY RouteInvLoopFree, RouteInit, RouteStep, PTL DEF Spec
-----------------------------------------------------------------------------
(* No path can weigh as much as the "infinite" distance: W bounds the weights. *)
WeightsFit(W) ==
    /\ W \in Nat /\ \A l \in Link : LinkCost[l] <= W
    /\ IsFiniteSet(Switch) /\ W * Cardinality(Switch) < MAX_PATH_WEIGHT

(* A switch has a route: it is the root, or has a next hop. *)
Routed(n) == n = Root \/ nexthoplinks[n] # NoLink

(* Why the tree is closed.  Every distance is reached over switches seen before, *)
(* so it is finite; a switch with a route has been seen or is still queued; and  *)
(* the links to a switch that was seen are relaxed, or still to be.              *)
TreeInv(W) ==
    /\ \A e \in nodeq : e.dist <= W * Cardinality(seen)
    /\ todo # {} => cdist + W <= W * Cardinality(seen)
    /\ \A n \in Switch : Routed(n) => n \in seen \/ \E e \in nodeq : e.node = n
    /\ \A l \in links : l.dst \in seen => l \in todo \/ Routed(l.src)
    /\ TreeClosed

(* Distances below the bound of the seen switches are below the infinite one. *)
LEMMA SeenFits ==
    ASSUME NEW W, WeightsFit(W), TypeOK
    PROVE  /\ Cardinality(seen) \in Nat /\ IsFiniteSet(seen)
           /\ W * Cardinality(seen) \in Nat
           /\ W * Cardinality(seen) < MAX_PATH_WEIGHT
<1>1. IsFiniteSet(seen) /\ Cardinality(seen) <= Cardinality(Switch)
    BY FS_Subset DEF WeightsFit, TypeOK
<1>2. Cardinality(seen) \in Nat /\ Cardinality(Switch) \in Nat
    BY <1>1, FS_CardinalityType DEF WeightsFit
<1> DEFINE a == Cardinality(seen)
           b == Cardinality(Switch)
<1>3. W \in Nat /\ a \in Nat /\ b \in Nat /\ a <= b
    BY <1>1, <1>2 DEF WeightsFit
<1>4. W * b < MAX_PATH_WEIGHT
    BY DEF WeightsFit
<1> HIDE DEF a, b
<1>5. W * a <= W * b /\ W * a \in Nat /\ W * b \in Nat
    BY <1>3
<1>6. W * a < MAX_PATH_WEIGHT
    BY <1>4, <1>5, RouteAssumptions
<1> QED BY <1>1, <1>2, <1>5, <1>6 DEF a

(* dijkstra starts in a state that satisfies the invariant of the tree. *)
LEMMA TreeInit == ASSUME NEW W, WeightsFit(W) PROVE Init => TreeInv(W)
<1> SUFFICES ASSUME Init PROVE TreeInv(W)
    OBVIOUS
<1>1. W * Cardinality(seen) = 0
    BY FS_EmptySet DEF Init, WeightsFit
<1> QED BY <1>1, RouteAssumptions DEF Init, TreeInv, Routed, TreeClosed

(* Every step of dijkstra and buildroute preserves the invariant of the tree. *)
LEMMA TreeInvStep ==
    ASSUME NEW W, WeightsFit(W)
    PROVE  RouteInv /\ TreeInv(W) /\ [Next]_vars => TreeInv(W)'
<1> SUFFICES ASSUME RouteInv, TreeInv(W), [Next]_vars PROVE TreeInv(W)'
    OBVIOUS
<1> DEFINE N == Cardinality(seen)
<1>t. TypeOK /\ CostsDescend
    BY DEF RouteInv
<1>s. /\ N \in Nat /\ IsFiniteSet(seen) /\ W * N \in Nat /\ W * N < MAX_PATH_WEIGHT
      /\ W \in Nat /\ \A l \in Link : LinkCost[l] <= W
    BY <1>t, SeenFits DEF WeightsFit
<1>e. links \subseteq Link /\ \A l \in links : l.src \in Switch /\ l.dst \in Switch
    BY <1>t, RouteAssumptions DEF TypeOK
<1>1. ASSUME NEW e \in nodeq, Poll(e) PROVE TreeInv(W)'
  <2>1. CASE e.node \in seen
    <3>1. /\ todo = {} /\ nodeq' = nodeq \ {e}
          /\ UNCHANGED <<seen, cdist, todo, links, nexthoplinks, pc>>
        BY <2>1, <1>1 DEF Poll
    <3> QED BY <2>1, <3>1 DEF TreeInv, Routed, TreeClosed
  <2>2. CASE e.node \notin seen
    <3>1. /\ todo = {} /\ nodeq' = nodeq \ {e} /\ seen' = seen \union {e.node}
          /\ cdist' = e.dist /\ todo' = LinksOf(e.node)
          /\ pc = "dijkstra" /\ UNCHANGED <<links, nexthoplinks, pc>>
        BY <2>2, <1>1 DEF Poll
    <3>2. Cardinality(seen') = N + 1
        BY <2>2, <3>1, <1>s, FS_AddElement
    <3> HIDE DEF N
    <3>3. W * (N + 1) = W * N + W
        BY <1>s
    <3>4. \A f \in nodeq : f.dist \in Nat /\ f.dist <= W * N
        BY <1>t DEF TypeOK, Entry, TreeInv, N
    <3>5. \A f \in nodeq' : f.dist <= W * Cardinality(seen')
        BY <3>1, <3>2, <3>3, <3>4, <1>s
    <3>6. cdist' + W <= W * Cardinality(seen')
        BY <3>1, <3>2, <3>3, <3>4, <1>s
    <3>7. \A n \in Switch : Routed(n)' => n \in seen' \/ \E f \in nodeq' : f.node = n
        BY <3>1 DEF TreeInv, Routed
    <3>8. \A l \in links' : l.dst \in seen' => l \in todo' \/ Routed(l.src)'
        BY <3>1 DEF TreeInv, Routed, LinksOf
    <3>9. TreeClosed'
        BY <3>1 DEF TreeClosed
    <3> QED BY <3>5, <3>6, <3>7, <3>8, <3>9 DEF TreeInv
  <2> QED BY <2>1, <2>2
<1>2. ASSUME NEW l \in todo, Relax(l) PROVE TreeInv(W)'
  <2>0. /\ l \in links /\ l \in Link /\ l.src \in Switch /\ l.dst \in Switch
        /\ LinkCost[l] \in Nat /\ LinkCost[l] <= W /\ cdist \in Nat
        /\ cost \in [Switch -> Nat] /\ nexthoplinks \in [Switch -> links \union {NoLink}]
      BY <1>t, <1>s, <1>e, RouteAssumptions DEF TypeOK
  <2>1. /\ todo' = todo \ {l} /\ pc = "dijkstra"
        /\ UNCHANGED <<links, seen, cdist, pc>>
      BY <1>2 DEF Relax
  <2>2. cdist + LinkCost[l] <= W * N /\ cdist + W <= W * N
    <3>1. cdist + W <= W * N
        BY DEF TreeInv
    <3> HIDE DEF N
    <3> QED BY <3>1, <2>0, <1>s
  <2>3. CASE ~Improves(l)
    <3>1. UNCHANGED <<cost, nexthoplinks, nodeq>>
        BY <2>3, <1>2 DEF Relax
    <3>2. cost[l.src] < MAX_PATH_WEIGHT
      <4>1. cost[l.src] <= cdist + LinkCost[l]
          BY <2>3, <2>0 DEF Improves
      <4> HIDE DEF N
      <4> QED BY <4>1, <2>0, <2>2, <1>s, RouteAssumptions
    <3>3. Routed(l.src)
        BY <3>2, <1>t, <2>0, RouteAssumptions DEF CostsDescend, Routed
    <3> QED BY <3>1, <3>3, <2>1 DEF TreeInv, Routed, TreeClosed
  <2>4. CASE Improves(l)
    <3> DEFINE nd == cdist + LinkCost[l]
               new == [node |-> l.src, dist |-> nd]
    <3>1. /\ nexthoplinks' = [nexthoplinks EXCEPT ![l.src] = l]
          /\ nodeq' = nodeq \union {new}
        BY <2>4, <1>2 DEF Relax
    <3>2. \A n \in Switch : nexthoplinks'[n] = IF n = l.src THEN l ELSE nexthoplinks[n]
        BY <3>1, <2>0
    <3>3. l # NoLink
        BY <2>0, RouteAssumptions
    <3>4. \A f \in nodeq' : f.dist <= W * Cardinality(seen')
        BY <3>1, <2>1, <2>2 DEF TreeInv
    <3>5. \A n \in Switch : Routed(n)' => n \in seen' \/ \E f \in nodeq' : f.node = n
      <4> SUFFICES ASSUME NEW n \in Switch, Routed(n)'
                   PROVE  n \in seen' \/ \E f \in nodeq' : f.node = n
          OBVIOUS
      <4>1. CASE n = l.src
        <5>1. new \in nodeq' /\ new.node = n
            BY <4>1, <3>1
        <5> QED BY <5>1
      <4>2. CASE n # l.src
        <5>1. Routed(n)
            BY <4>2, <3>2 DEF Routed
        <5>2. n \in seen \/ \E f \in nodeq : f.node = n
            BY <5>1 DEF TreeInv
        <5> QED BY <5>2, <3>1, <2>1
      <4> QED BY <4>1, <4>2
    <3>6. \A k \in links' : k.dst \in seen' => k \in todo' \/ Routed(k.src)'
      <4> SUFFICES ASSUME NEW k \in links, k.dst \in seen
                   PROVE  k \in todo' \/ Routed(k.src)'
          BY <2>1
      <4>1. k \in todo \/ Routed(k.src)
          BY DEF TreeInv
      <4>2. CASE k.src = l.src
          BY <4>2, <3>2, <3>3, <2>0 DEF Routed
      <4>3. CASE k.src # l.src
          BY <4>1, <4>3, <3>2, <2>1, <1>e DEF Routed
      <4> QED BY <4>2, <4>3
    <3>7. todo' # {} => cdist' + W <= W * Cardinality(seen')
        BY <2>1, <2>2
    <3>8. TreeClosed'
        BY <2>1 DEF TreeClosed
    <3> QED BY <3>4, <3>5, <3>6, <3>7, <3>8 DEF TreeInv
  <2> QED BY <2>3, <2>4
<1>3. ASSUME FinishTree PROVE TreeInv(W)'
  <2>1. todo = {} /\ UNCHANGED <<links, treeVars>>
      BY <1>3 DEF FinishTree
  <2>2. nodeq = {}
    <3> SUFFICES ASSUME NEW e \in nodeq, e.dist >= MAX_PATH_WEIGHT PROVE FALSE
        BY <1>3 DEF FinishTree
    <3>1. e.dist \in Nat /\ e.dist <= W * N
        BY <1>t DEF TypeOK, Entry, TreeInv
    <3> HIDE DEF N
    <3> QED BY <3>1, <1>s, RouteAssumptions
  <2>3. \A l \in links : Routed(l.dst) => Routed(l.src)
      BY <2>1, <2>2, <1>e DEF TreeInv
  <2>4. TreeClosed'
      BY <2>1, <2>3 DEF TreeClosed, Routed, treeVars
  <2> QED BY <2>1, <2>4 DEF TreeInv, Routed, treeVars
<1>4. ASSUME (\E s \in Switch : StartRoute(s)) \/ WalkHop \/ EndRoute \/ UNCHANGED vars
      PROVE  TreeInv(W)'
  <2>1. UNCHANGED <<links, treeVars>> /\ (pc # "dijkstra" \/ UNCHANGED pc)
      BY <1>4 DEF StartRoute, WalkHop, EndRoute, vars
  <2>2. TreeClosed'
      BY <2>1 DEF TreeInv, TreeClosed, treeVars
  <2> QED BY <2>1, <2>2 DEF TreeInv, Routed, treeVars
<1> QED BY <1>1, <1>2, <1>3, <1>4 DEF Next, NoRequest

(* On every graph, with positive weights too small for any path to reach the   *)
(* infinite distance, the finished tree of dijkstra leaves no switch without a *)
(* route that has a link to a switch with one, although the queue is polled    *)
(* farthest first and a switch that was seen is never expanded again.          *)
THEOREM TreeClosedHolds ==
    ASSUME NEW CONSTANT W, WeightsFit(W)
    PROVE  Spec => []TreeClosed
<1>1. TreeInv(W) => TreeClosed
    BY DEF TreeInv
<1>2. Init => TreeInv(W)
    BY TreeInit
<1>3. RouteInv /\ TreeInv(W) /\ [Next]_vars => TreeInv(W)'
    BY TreeInvStep
<1> QED BY <1>1, <1>2, <1>3, RouteInit, RouteStep, PTL DEF Spec
-----------------------------------------------------------------------------
(* An activation of dfsTraverse: its switch and the links it has still to *)
(* look at.                                                               *)
Frame == [sw : Switch, todo : SUBSET Link]

(* The types of identifyOpenflowDomains: indexes are positive, parents may be *)
(* 0.                                                                         *)
DomType ==
    /\ graph \in Graphs
    /\ dfsIndex \in [Switch -> Nat \ {0}]
    /\ lowpoint \in [Switch -> Nat \ {0}]
    /\ parentIndex \in [Switch -> Nat]
    /\ visited \subseteq Switch /\ currSet \subseteq Switch
    /\ currIndex \in Nat \ {0}
    /\ stack \in Seq(Frame)
    /\ switchClusterMap \in [Switch -> SUBSET Switch]

(* The activations of dfsTraverse are of different switches, in no cluster yet. *)
Frames ==
    /\ \A i \in 1..Len(stack) :
          /\ stack[i].todo \subseteq OD!OutLinks(stack[i].sw)
          /\ stack[i].sw \in visited /\ stack[i].sw \notin currSet
          /\ switchClusterMap[stack[i].sw] = {}
    /\ \A i, j \in 1..Len(stack) : stack[i].sw = stack[j].sw => i = j
    /\ stack # <<>> => parentIndex[stack[1].sw] = 0

(* A visited switch is in one place only: on the stack, in currSet or in a *)
(* cluster.                                                                *)
Clusters ==
    /\ \A s \in currSet : s \in visited /\ switchClusterMap[s] = {}
    /\ \A s \in Switch : switchClusterMap[s] # {} => s \in visited
    /\ OD!ClustersDisjoint /\ OD!VisitedIsPlaced

(* The inductive strengthening of ClustersPartition. *)
DomInv == DomType /\ Frames /\ Clusters

(* The innermost activation, when there is one. *)
LEMMA TopIs ==
    ASSUME stack \in Seq(Frame), stack # <<>>
    PROVE  /\ Len(stack) \in Nat \ {0} /\ Len(stack) \in 1..Len(stack) /\ 1 \in 1..Len(stack)
           /\ stack[Len(stack)] \in Frame
           /\ OD!curr = stack[Len(stack)].sw /\ OD!Top = stack[Len(stack)]
           /\ OD!curr \in Switch /\ OD!Top.todo \in SUBSET Link
<1>1. Len(stack) \in Nat \ {0}
    OBVIOUS
<1>2. stack[Len(stack)] \in Frame
    BY <1>1
<1> QED BY <1>1, <1>2 DEF OD!curr, OD!Top, Frame

(* Taking a link off the innermost activation leaves the others as they are. *)
LEMMA ConsumeIs ==
    ASSUME stack \in Seq(Frame), stack # <<>>, NEW l
    PROVE  LET c == OD!Consume(l)
               n == Len(stack)
           IN  /\ c \in Seq(Frame) /\ Len(c) = n /\ c # <<>>
               /\ \A i \in 1..n : c[i].sw = stack[i].sw
               /\ \A i \in 1..n : c[i].todo = IF i = n THEN stack[i].todo \ {l} ELSE stack[i].todo
<1> DEFINE n == Len(stack)
           f == [stack[n] EXCEPT !.todo = @ \ {l}]
           c == OD!Consume(l)
<1>1. n \in 1..n /\ stack[n] \in Frame /\ n \in Nat
    BY TopIs
<1>2. f \in Frame /\ f.sw = stack[n].sw /\ f.todo = stack[n].todo \ {l}
    BY <1>1 DEF Frame
<1>3. c = [stack EXCEPT ![n] = f]
    BY DEF OD!Consume
<1> HIDE DEF f, c
<1>4. /\ c \in Seq(Frame) /\ Len(c) = n
      /\ \A i \in 1..n : c[i] = IF i = n THEN f ELSE stack[i]
    BY <1>1, <1>2, <1>3
<1>5. c # <<>>
    BY <1>1, <1>4
<1> QED BY <1>2, <1>4, <1>5 DEF c

(* Links join switches. *)
LEMMA OutLinksAre ==
    ASSUME graph \in Graphs
    PROVE  /\ graph \subseteq Link
           /\ \A l \in graph : l.src \in Switch /\ l.dst \in Switch
           /\ \A s : OD!OutLinks(s) \subseteq graph
BY RouteAssumptions DEF OD!OutLinks

(* identifyOpenflowDomains starts in a state that satisfies its invariant. *)
LEMMA DomInit == OD!Init => DomInv
<1> SUFFICES ASSUME OD!Init PROVE DomInv
    OBVIOUS
<1>1. LONG_MAX \in Nat \ {0}
  <2>1. Cardinality(Switch) \in Nat
      BY InstanceAssumptions, FS_CardinalityType
  <2> QED BY <2>1, InstanceAssumptions
<1>2. DomType
    BY <1>1 DEF OD!Init, DomType
<1>3. Frames /\ Clusters
    BY DEF OD!Init, Frames, Clusters, OD!ClustersDisjoint, OD!VisitedIsPlaced
<1> QED BY <1>2, <1>3 DEF DomInv

(* A link that leads nowhere new, or back, preserves the invariant. *)
LEMMA ConsumeInv ==
    ASSUME DomInv, NEW l, stack # <<>>, stack' = OD!Consume(l),
           lowpoint' \in [Switch -> Nat \ {0}],
           UNCHANGED <<graph, dfsIndex, parentIndex, visited, currIndex, currSet, switchClusterMap>>
    PROVE  DomInv'
<1>1. DomType /\ Frames /\ Clusters
    BY DEF DomInv
<1> DEFINE n == Len(stack)
<1>2. /\ stack' \in Seq(Frame) /\ Len(stack') = n /\ stack' # <<>> /\ n \in Nat \ {0}
      /\ \A i \in 1..n : stack'[i].sw = stack[i].sw /\ stack'[i].todo \subseteq stack[i].todo
  <2>1. stack \in Seq(Frame) /\ n \in Nat \ {0}
      BY <1>1, TopIs DEF DomType
  <2>2. /\ stack' \in Seq(Frame) /\ Len(stack') = n /\ stack' # <<>>
        /\ \A i \in 1..n : stack'[i].sw = stack[i].sw
        /\ \A i \in 1..n : stack'[i].todo = IF i = n THEN stack[i].todo \ {l} ELSE stack[i].todo
      BY <2>1, ConsumeIs
  <2> QED BY <2>1, <2>2
<1>3. DomType'
    BY <1>1, <1>2 DEF DomType
<1>4. Frames'
  <2>1. ASSUME NEW i \in 1..n
        PROVE  /\ stack'[i].todo \subseteq OD!OutLinks(stack'[i].sw)
               /\ stack'[i].sw \in visited /\ stack'[i].sw \notin currSet
               /\ switchClusterMap[stack'[i].sw] = {}
      BY <1>1, <1>2 DEF Frames
  <2>2. \A i, j \in 1..n : stack'[i].sw = stack'[j].sw => i = j
      BY <1>1, <1>2 DEF Frames
  <2>3. parentIndex[stack'[1].sw] = 0
      BY <1>1, <1>2 DEF Frames
  <2> QED BY <1>2, <2>1, <2>2, <2>3 DEF Frames, OD!OutLinks
<1>5. Clusters'
  <2>1. DOMAIN stack' = 1..n /\ DOMAIN stack = 1..n
      BY <1>1, <1>2 DEF DomType
  <2> QED BY <1>1, <1>2, <2>1 DEF Clusters, OD!ClustersDisjoint, OD!VisitedIsPlaced
<1> QED BY <1>3, <1>4, <1>5 DEF DomInv

(* Append adds one frame on top of the others. *)
LEMMA PushIs ==
    ASSUME NEW frames \in Seq(Frame), NEW f \in Frame
    PROVE  LET c == Append(frames, f)
               n == Len(frames)
           IN  /\ c \in Seq(Frame) /\ Len(c) = n + 1 /\ c # <<>> /\ n \in Nat
               /\ c[n + 1] = f /\ \A i \in 1..n : c[i] = frames[i]
               /\ 1..(n + 1) = 1..n \union {n + 1}
OBVIOUS

(* The entry of dfsTraverse for a switch not visited yet preserves the *)
(* invariant; frames is the stack its caller leaves behind.            *)
LEMMA EnterInv ==
    ASSUME DomInv, NEW s \in Switch, s \notin visited,
           NEW parent \in Nat, NEW index \in Nat \ {0}, NEW frames \in Seq(Frame),
           Len(frames) = Len(stack), frames = <<>> => parent = 0,
           \A i \in 1..Len(stack) :
               frames[i].sw = stack[i].sw /\ frames[i].todo \subseteq stack[i].todo,
           OD!Enter(s, parent, index, frames),
           UNCHANGED <<graph, lowpoint, currSet, switchClusterMap>>
    PROVE  DomInv'
<1>1. DomType /\ Frames /\ Clusters
    BY DEF DomInv
<1> DEFINE n == Len(stack)
           f == [sw |-> s, todo |-> OD!OutLinks(s)]
<1>2. f \in Frame /\ f.sw = s /\ f.todo = OD!OutLinks(s)
    BY <1>1, OutLinksAre DEF Frame, DomType
<1>3. /\ visited' = visited \union {s}
      /\ dfsIndex' = [dfsIndex EXCEPT ![s] = index]
      /\ parentIndex' = [parentIndex EXCEPT ![s] = parent]
      /\ currIndex' = index + 1
      /\ stack' = Append(frames, f)
    BY DEF OD!Enter
<1> HIDE DEF f
<1>4. /\ stack' \in Seq(Frame) /\ Len(stack') = n + 1 /\ stack' # <<>> /\ n \in Nat
      /\ stack'[n + 1] = f /\ \A i \in 1..n : stack'[i] = frames[i]
      /\ 1..(n + 1) = 1..n \union {n + 1}
    BY <1>2, <1>3, PushIs
<1>5. DomType'
    BY <1>1, <1>3, <1>4 DEF DomType
<1>6. switchClusterMap[s] = {} /\ s \notin currSet
    BY <1>1 DEF Clusters
<1>7. \A i \in 1..n : stack'[i].sw = stack[i].sw /\ stack[i].sw # s
    BY <1>1, <1>4 DEF Frames
<1>8. Frames'
  <2>1. ASSUME NEW i \in 1..Len(stack')
        PROVE  /\ stack'[i].todo \subseteq OD!OutLinks(stack'[i].sw)
               /\ stack'[i].sw \in visited' /\ stack'[i].sw \notin currSet'
               /\ switchClusterMap'[stack'[i].sw] = {}
    <3>1. CASE i = n + 1
        BY <3>1, <1>2, <1>3, <1>4, <1>6 DEF OD!OutLinks
    <3>2. CASE i \in 1..n
      <4>1. stack'[i].sw = stack[i].sw /\ stack'[i].todo \subseteq stack[i].todo
          BY <3>2, <1>4, <1>7
      <4> QED BY <3>2, <4>1, <1>1, <1>3 DEF Frames
    <3> QED BY <3>1, <3>2, <1>4
  <2>2. ASSUME NEW i \in 1..Len(stack'), NEW j \in 1..Len(stack'), stack'[i].sw = stack'[j].sw
        PROVE  i = j
    <3>1. (i \in 1..n /\ j \in 1..n) \/ (i = n + 1 /\ j = n + 1)
        BY <2>2, <1>2, <1>4, <1>7
    <3> QED BY <3>1, <2>2, <1>1, <1>7 DEF Frames
  <2>3. parentIndex'[stack'[1].sw] = 0
    <3>1. CASE n = 0
      <4>1. frames = <<>> /\ stack'[1].sw = s
          BY <3>1, <1>4, <1>2
      <4> QED BY <4>1, <1>1, <1>3 DEF DomType
    <3>2. CASE n # 0
      <4>1. 1 \in 1..n /\ stack # <<>>
          BY <3>2, <1>1, <1>4 DEF DomType
      <4>2. stack'[1].sw = stack[1].sw /\ stack[1].sw # s
          BY <4>1, <1>7
      <4>3. stack[1].sw \in Switch
        <5>1. stack[1] \in Frame
            BY <4>1, <1>1 DEF DomType
        <5> QED BY <5>1 DEF Frame
      <4> QED BY <4>1, <4>2, <4>3, <1>1, <1>3 DEF DomType, Frames
    <3> QED BY <3>1, <3>2
  <2> QED BY <2>1, <2>2, <2>3 DEF Frames, OD!OutLinks
<1>9. Clusters'
  <2>1. DOMAIN stack' = 1..(n + 1) /\ DOMAIN stack = 1..n
      BY <1>1, <1>4 DEF DomType
  <2>2. \A t \in visited' :
           \/ \E i \in DOMAIN stack' : stack'[i].sw = t
           \/ t \in currSet' \/ switchClusterMap'[t] # {}
    <3> SUFFICES ASSUME NEW t \in visited', t \notin currSet, switchClusterMap[t] = {}
                 PROVE  \E i \in DOMAIN stack' : stack'[i].sw = t
        OBVIOUS
    <3>1. CASE t = s
        BY <3>1, <2>1, <1>4, <1>2
    <3>2. CASE t \in visited
      <4>1. PICK i \in 1..n : stack[i].sw = t
          BY <3>2, <2>1, <1>1 DEF Clusters, OD!VisitedIsPlaced
      <4> QED BY <4>1, <2>1, <1>4, <1>7
    <3> QED BY <3>1, <3>2, <1>3
  <2> QED BY <1>1, <1>3, <1>4, <2>2 DEF Clusters, OD!ClustersDisjoint, OD!VisitedIsPlaced
<1> QED BY <1>5, <1>8, <1>9 DEF DomInv

(* SubSeq takes the innermost frame off the others. *)
LEMMA PopIs ==
    ASSUME stack \in Seq(Frame), stack # <<>>
    PROVE  LET c == SubSeq(stack, 1, Len(stack) - 1)
               n == Len(stack) - 1
           IN  /\ c \in Seq(Frame) /\ Len(c) = n /\ n \in Nat /\ (c = <<>> <=> n = 0)
               /\ \A i \in 1..n : c[i] = stack[i] /\ i \in 1..Len(stack)
               /\ 1..Len(stack) = 1..n \union {Len(stack)}
               /\ Len(stack) \notin 1..n
<1> DEFINE m == Len(stack)
           n == m - 1
           c == SubSeq(stack, 1, n)
<1>1. m \in Nat \ {0} /\ n \in Nat
    OBVIOUS
<1>2. 1..m = 1..n \union {m} /\ m \notin 1..n
    BY <1>1
<1>3. /\ c \in Seq(Frame)
      /\ Len(c) = IF 1 <= n THEN n - 1 + 1 ELSE 0
      /\ \A i \in 1..(n - 1 + 1) : c[i] = stack[1 + i - 1]
  <2>1. \A i \in 1..n : stack[i] \in Frame
      BY <1>1
  <2>2. 1 \in Int /\ n \in Int
      BY <1>1
  <2> HIDE DEF n
  <2> QED BY <2>1, <2>2, SubSeqProperties
<1>4. Len(c) = n /\ \A i \in 1..n : c[i] = stack[i]
  <2> HIDE DEF c, n
  <2> QED BY <1>1, <1>3
<1>5. c = <<>> <=> n = 0
  <2> HIDE DEF c, n
  <2> QED BY <1>1, <1>3, <1>4, EmptySeq
<1> QED BY <1>1, <1>2, <1>3, <1>4, <1>5

(* A root always closes its cluster: no index is as small as its parent's. *)
LEMMA RootCloses ==
    ASSUME DomInv, stack # <<>>, Len(stack) = 1
    PROVE  OD!ClosesCluster(OD!curr)
<1>1. OD!curr = stack[1].sw /\ OD!curr \in Switch
    BY TopIs DEF DomInv, DomType
<1>2. parentIndex[OD!curr] = 0 /\ lowpoint[OD!curr] \in Nat \ {0}
    BY <1>1 DEF DomInv, DomType, Frames
<1> QED BY <1>2 DEF OD!ClosesCluster

(* The tail of dfsTraverse preserves the invariant, whether it closes a      *)
(* cluster (of switches that are in none) or not: the last activation always *)
(* does, so currSet is empty when the next root begins.                      *)
LEMMA ReturnInv == ASSUME DomInv, OD!Return PROVE DomInv'
<1>1. DomType /\ Frames /\ Clusters
    BY DEF DomInv
<1> DEFINE n == Len(stack) - 1
           c == OD!curr
           S == currSet \union {c}
<1>2. /\ stack # <<>> /\ Len(stack) = n + 1 /\ stack' = SubSeq(stack, 1, n)
      /\ UNCHANGED <<graph, dfsIndex, parentIndex, visited, currIndex>>
    BY <1>1 DEF OD!Return, DomType
<1>3. /\ stack' \in Seq(Frame) /\ Len(stack') = n /\ n \in Nat /\ (stack' = <<>> <=> n = 0)
      /\ \A i \in 1..n : stack'[i] = stack[i] /\ i \in 1..Len(stack)
      /\ 1..Len(stack) = 1..n \union {n + 1} /\ n + 1 \notin 1..n
    BY <1>1, <1>2, PopIs DEF DomType
<1>4. c \in Switch /\ c = stack[n + 1].sw /\ n + 1 \in 1..Len(stack)
    BY <1>1, <1>2, TopIs DEF DomType
<1>5. \A i \in 1..n : stack[i].sw # c
    BY <1>1, <1>3, <1>4 DEF Frames
<1>6. \/ /\ switchClusterMap' = OD!MapTo(S) /\ currSet' = {}
      \/ /\ switchClusterMap' = switchClusterMap /\ currSet' = S /\ n # 0
    BY <1>2, <1>3, RootCloses DEF OD!Return, OD!WithCurr
<1>7. lowpoint' \in [Switch -> Nat \ {0}]
  <2>1. CASE Len(stack) = 1
      BY <2>1, <1>1 DEF OD!Return, DomType
  <2>2. CASE Len(stack) # 1
    <3> DEFINE caller == stack[Len(stack) - 1].sw
    <3>1. lowpoint' = [lowpoint EXCEPT ![caller] = IF lowpoint[c] < @ THEN lowpoint[c] ELSE @]
        BY <2>2 DEF OD!Return
    <3>2. lowpoint[c] \in Nat \ {0}
        BY <1>1, <1>4 DEF DomType
    <3> HIDE DEF caller, c
    <3> QED BY <3>1, <3>2, <1>1 DEF DomType
  <2> QED BY <2>1, <2>2
<1>8. S \subseteq Switch /\ S \subseteq visited /\ \A s \in S : switchClusterMap[s] = {}
  <2>1. c \in visited /\ switchClusterMap[c] = {}
      BY <1>1, <1>4 DEF Frames
  <2> HIDE DEF c
  <2> QED BY <2>1, <1>1, <1>4 DEF DomType, Clusters
<1> HIDE DEF n, c, S
<1>9. DomType'
  <2>1. switchClusterMap' \in [Switch -> SUBSET Switch]
    <3>1. switchClusterMap \in [Switch -> SUBSET Switch]
        BY <1>1 DEF DomType
    <3>2. OD!MapTo(S) \in [Switch -> SUBSET Switch]
        BY <3>1, <1>8 DEF OD!MapTo
    <3> QED BY <3>1, <3>2, <1>6
  <2>2. currSet' \subseteq Switch
      BY <1>6, <1>8
  <2> QED BY <2>1, <2>2, <1>1, <1>2, <1>3, <1>7 DEF DomType
<1>10. \A i \in 1..n : stack[i].sw \notin S /\ stack[i].sw \in Switch
    BY <1>1, <1>3, <1>5 DEF Frames, S, DomType, Frame
<1>11. Frames'
  <2>1. ASSUME NEW i \in 1..n PROVE switchClusterMap'[stack[i].sw] = {}
    <3>1. switchClusterMap[stack[i].sw] = {}
        BY <1>1, <1>3 DEF Frames
    <3> QED BY <3>1, <1>6, <1>10 DEF OD!MapTo
  <2>2. \A i \in 1..n : stack[i].sw \notin currSet'
      BY <1>6, <1>10
  <2>3. ASSUME stack' # <<>> PROVE parentIndex'[stack'[1].sw] = 0
      BY <2>3, <1>1, <1>2, <1>3 DEF Frames
  <2> QED BY <1>1, <1>2, <1>3, <2>1, <2>2, <2>3 DEF Frames, OD!OutLinks
<1>12. Clusters'
  <2>1. DOMAIN stack' = 1..n /\ DOMAIN stack = 1..Len(stack)
      BY <1>1, <1>3 DEF DomType
  <2>2. \A s \in Switch :
           \/ switchClusterMap'[s] = switchClusterMap[s]
           \/ s \in S /\ switchClusterMap'[s] = S /\ currSet' = {}
      BY <1>6 DEF OD!MapTo
  <2>3. \A s \in currSet' : s \in visited' /\ switchClusterMap'[s] = {}
      BY <1>2, <1>6, <1>8
  <2>4. \A s \in Switch : switchClusterMap'[s] # {} => s \in visited'
      BY <1>1, <1>2, <1>8, <2>2 DEF Clusters
  <2>5. \A s \in visited' :
           \/ \E i \in DOMAIN stack' : stack'[i].sw = s
           \/ s \in currSet' \/ switchClusterMap'[s] # {}
    <3> SUFFICES ASSUME NEW s \in visited, s \notin currSet', switchClusterMap'[s] = {}
                 PROVE  \E i \in 1..n : stack'[i].sw = s
        BY <1>2, <2>1
    <3>1. s \in Switch
        BY <1>1 DEF DomType
    <3>2. s \notin S /\ switchClusterMap[s] = {}
        BY <3>1, <1>6, <1>8 DEF OD!MapTo
    <3>3. PICK i \in 1..Len(stack) : stack[i].sw = s
        BY <3>2, <2>1, <1>1 DEF Clusters, OD!VisitedIsPlaced, S
    <3>4. i \in 1..n
        BY <3>2, <3>3, <1>3, <1>4 DEF S
    <3> QED BY <3>3, <3>4, <1>3
  <2>6. ASSUME NEW s \in Switch, switchClusterMap'[s] # {}
        PROVE  /\ s \in switchClusterMap'[s]
               /\ \A t \in switchClusterMap'[s] : switchClusterMap'[t] = switchClusterMap'[s]
    <3>1. CASE switchClusterMap' = OD!MapTo(S)
      <4>1. CASE s \in S
          BY <3>1, <4>1, <1>8 DEF OD!MapTo
      <4>2. CASE s \notin S
        <5>1. switchClusterMap'[s] = switchClusterMap[s]
            BY <3>1, <4>2 DEF OD!MapTo
        <5>2. /\ s \in switchClusterMap[s] /\ switchClusterMap[s] \subseteq Switch
              /\ \A t \in switchClusterMap[s] : switchClusterMap[t] = switchClusterMap[s]
            BY <5>1, <2>6, <1>1 DEF Clusters, OD!ClustersDisjoint, DomType
        <5>3. \A t \in switchClusterMap[s] : t \notin S
            BY <5>1, <5>2, <2>6, <1>8
        <5> QED BY <5>1, <5>2, <5>3, <3>1 DEF OD!MapTo
      <4> QED BY <4>1, <4>2
    <3>2. CASE switchClusterMap' = switchClusterMap
        BY <3>2, <2>6, <1>1 DEF Clusters, OD!ClustersDisjoint
    <3> QED BY <3>1, <3>2, <1>6
  <2>7. stack' = <<>> => currSet' = {}
      BY <1>3, <1>6
  <2> QED BY <2>3, <2>4, <2>5, <2>6, <2>7 DEF Clusters, OD!ClustersDisjoint, OD!VisitedIsPlaced
<1> QED BY <1>9, <1>11, <1>12 DEF DomInv

(* So does a step that leaves the variables alone. *)
LEMMA DomStutter == DomInv /\ UNCHANGED OD!vars => DomInv'
<1> SUFFICES ASSUME DomInv, UNCHANGED OD!vars PROVE DomInv'
    OBVIOUS
<1>1. UNCHANGED <<graph, dfsIndex, parentIndex, lowpoint, visited, currIndex, stack,
                  currSet, switchClusterMap>>
    BY DEF OD!vars
<1>2. DomType /\ Frames /\ Clusters
    BY DEF DomInv
<1>3. DomType'
    BY <1>1, <1>2 DEF DomType
<1>4. Frames'
    BY <1>1, <1>2 DEF Frames, OD!OutLinks
<1>5. Clusters'
    BY <1>1, <1>2 DEF Clusters, OD!ClustersDisjoint, OD!VisitedIsPlaced
<1> QED BY <1>3, <1>4, <1>5 DEF DomInv

(* Every step of identifyOpenflowDomains preserves the invariant. *)
LEMMA DomStep == DomInv /\ OD!Next => DomInv'
<1> SUFFICES ASSUME DomInv, OD!Next PROVE DomInv'
    OBVIOUS
<1>0. DomType /\ Frames /\ Clusters
    BY DEF DomInv
<1>1. ASSUME NEW s \in Switch, OD!StartTraverse(s) PROVE DomInv'
  <2>1. stack = <<>> /\ stack \in Seq(Frame) /\ Len(stack) = 0
      BY <1>0, <1>1 DEF OD!StartTraverse, DomType
  <2>2. /\ s \notin visited /\ OD!Enter(s, 0, 1, stack)
        /\ UNCHANGED <<graph, lowpoint, currSet, switchClusterMap>>
      BY <1>1 DEF OD!StartTraverse
  <2>3. 0 \in Nat /\ 1 \in Nat \ {0} /\ 1..Len(stack) = {}
      BY <2>1
  <2> QED BY <2>1, <2>2, <2>3, EnterInv
<1>2. ASSUME NEW l \in Link, OD!IgnoreLink(l) PROVE DomInv'
    BY <1>0, <1>2, ConsumeInv DEF OD!IgnoreLink, DomType
<1>3. ASSUME NEW l \in Link, OD!BackLink(l) PROVE DomInv'
  <2>1. dfsIndex[l.dst] \in Nat \ {0}
      BY <1>0, RouteAssumptions DEF DomType
  <2>2. lowpoint' \in [Switch -> Nat \ {0}]
      BY <1>0, <1>3, <2>1 DEF OD!BackLink, DomType
  <2> QED BY <1>0, <1>3, <2>2, ConsumeInv DEF OD!BackLink, DomType
<1>4. ASSUME NEW l \in Link, OD!TreeLink(l) PROVE DomInv'
  <2>1. stack # <<>> /\ l.dst \in Switch /\ stack \in Seq(Frame)
      BY <1>0, <1>4, RouteAssumptions DEF OD!TreeLink, DomType
  <2>2. /\ OD!Consume(l) \in Seq(Frame) /\ Len(OD!Consume(l)) = Len(stack)
        /\ OD!Consume(l) # <<>>
        /\ \A i \in 1..Len(stack) : /\ OD!Consume(l)[i].sw = stack[i].sw
                                     /\ OD!Consume(l)[i].todo \subseteq stack[i].todo
      BY <2>1, ConsumeIs
  <2>3. dfsIndex[OD!curr] \in Nat /\ currIndex \in Nat \ {0}
      BY <1>0, <2>1, TopIs DEF DomType
  <2> QED BY <1>4, <2>1, <2>2, <2>3, EnterInv DEF OD!TreeLink
<1>5. ASSUME OD!Return PROVE DomInv'
    BY <1>5, ReturnInv
<1>6. ASSUME OD!Finished PROVE DomInv'
    BY <1>6, DomStutter DEF OD!Finished
<1> QED BY <1>1, <1>2, <1>3, <1>4, <1>5, <1>6 DEF OD!Next

(* The switches of the traversal under way that are in no cluster yet. *)
Forming == {stack[i].sw : i \in 1..Len(stack)} \union currSet

(* Switches are numbered in the order of their visits, within one root; a *)
(* callee has a larger number than its caller, and knows its caller's.    *)
Numbered ==
    /\ currIndex <= Cardinality(visited) + 1
    /\ \A s \in Switch : IF s \in visited THEN dfsIndex[s] <= Cardinality(visited)
                                          ELSE dfsIndex[s] = LONG_MAX
    /\ \A i \in 1..Len(stack) : dfsIndex[stack[i].sw] < currIndex
    /\ \A i \in 2..Len(stack) :
          /\ parentIndex[stack[i].sw] = dfsIndex[stack[i - 1].sw]
          /\ dfsIndex[stack[i - 1].sw] < dfsIndex[stack[i].sw]

(* A callee has not looked at a link to its caller yet, or has put down that *)
(* it reaches its caller.  With links in both directions there is such a     *)
(* link, so only a root closes a cluster.                                    *)
LinkBack ==
    \A i \in 2..Len(stack) :
        \/ \E l \in stack[i].todo : l.dst = stack[i - 1].sw
        \/ lowpoint[stack[i].sw] <= dfsIndex[stack[i - 1].sw]

(* A link from a switch under way leads to one under way, or its turn has not *)
(* come.                                                                      *)
Explored ==
    \A l \in graph : l.src \in Forming =>
        \/ l.dst \in Forming
        \/ \E i \in 1..Len(stack) : stack[i].sw = l.src /\ l \in stack[i].todo

(* No link leads out of a cluster. *)
ClustersClosed ==
    \A l \in graph : switchClusterMap[l.src] # {} =>
                        switchClusterMap[l.dst] = switchClusterMap[l.src]

(* The switches under way are connected, and so are those of a cluster: a set *)
(* that no link leads out of contains all of them or none.                    *)
Connected ==
    \A F \in SUBSET Switch : OD!Closed(F) =>
        /\ stack # <<>> => \A s \in Forming : s \in F <=> stack[1].sw \in F
        /\ \A s \in Switch : \A t \in switchClusterMap[s] : s \in F <=> t \in F

(* The inductive strengthening of ClustersAreComponents, where all links were *)
(* found in both directions.                                                  *)
CompInv == Numbered /\ LinkBack /\ Explored /\ ClustersClosed /\ Connected

(* identifyOpenflowDomains starts in a state that satisfies it. *)
LEMMA CompInit == OD!Init => CompInv
<1> SUFFICES ASSUME OD!Init PROVE CompInv
    OBVIOUS
<1>1. stack = <<>> /\ Len(stack) = 0 /\ Cardinality(visited) = 0 /\ Forming = {}
    BY FS_EmptySet DEF OD!Init, Forming
<1>2. Numbered
    BY <1>1 DEF OD!Init, Numbered
<1>3. LinkBack /\ Explored /\ ClustersClosed /\ Connected
    BY <1>1, OutLinksAre DEF OD!Init, LinkBack, Explored, ClustersClosed, Connected
<1> QED BY <1>2, <1>3 DEF CompInv

(* The number of switches visited, and LONG_MAX, which is out of its reach. *)
LEMMA VisitedFits ==
    ASSUME DomInv
    PROVE  /\ IsFiniteSet(visited) /\ Cardinality(visited) \in Nat
           /\ Cardinality(visited) < LONG_MAX /\ LONG_MAX \in Nat
           /\ \A s \in Switch \ visited : Cardinality(visited \union {s}) = Cardinality(visited) + 1
<1>1. IsFiniteSet(visited) /\ Cardinality(visited) <= Cardinality(Switch)
    BY FS_Subset, InstanceAssumptions DEF DomInv, DomType
<1>2. Cardinality(visited) \in Nat /\ Cardinality(Switch) \in Nat
    BY <1>1, FS_CardinalityType, InstanceAssumptions
<1>3. \A s \in Switch \ visited : Cardinality(visited \union {s}) = Cardinality(visited) + 1
    BY <1>1, FS_AddElement
<1> QED BY <1>1, <1>2, <1>3, InstanceAssumptions

(* Facts about the switches on the stack. *)
LEMMA OnStackIs ==
    ASSUME DomInv
    PROVE  /\ Len(stack) \in Nat
           /\ \A i \in 1..Len(stack) :
                 /\ stack[i].sw \in Switch /\ stack[i].sw \in visited
                 /\ switchClusterMap[stack[i].sw] = {} /\ stack[i].sw \in Forming
                 /\ \A l \in stack[i].todo : l \in graph /\ l.src = stack[i].sw /\ l.dst # stack[i].sw
           /\ Forming \subseteq visited
           /\ \A s \in Forming : switchClusterMap[s] = {}
           /\ \A s \in visited : switchClusterMap[s] = {} => s \in Forming
<1>1. DomType /\ Frames /\ Clusters
    BY DEF DomInv
<1>2. Len(stack) \in Nat /\ DOMAIN stack = 1..Len(stack)
    BY <1>1 DEF DomType
<1>3. ASSUME NEW i \in 1..Len(stack)
      PROVE  /\ stack[i].sw \in Switch /\ stack[i].sw \in visited
             /\ switchClusterMap[stack[i].sw] = {} /\ stack[i].sw \in Forming
             /\ \A l \in stack[i].todo : l \in graph /\ l.src = stack[i].sw /\ l.dst # stack[i].sw
    BY <1>1 DEF DomType, Frames, Forming, OD!OutLinks
<1>4. \A s \in Forming : s \in visited /\ switchClusterMap[s] = {}
    BY <1>1, <1>3 DEF Forming, Clusters
<1>5. \A s \in visited : switchClusterMap[s] = {} => s \in Forming
    BY <1>1, <1>2 DEF Clusters, OD!VisitedIsPlaced, Forming
<1> QED BY <1>2, <1>3, <1>4, <1>5

(* It survives a link to a switch under way; if that is the caller, its *)
(* number is put down.                                                  *)
LEMMA ConsumeComp ==
    ASSUME DomInv, CompInv, stack # <<>>, NEW l \in OD!Top.todo, stack' = OD!Consume(l),
           UNCHANGED <<graph, dfsIndex, parentIndex, visited, currIndex, currSet, switchClusterMap>>,
           lowpoint' \in [Switch -> Nat \ {0}],
           \A s \in Switch : lowpoint'[s] <= lowpoint[s],
           l.dst \in Forming,
           Len(stack) > 1 /\ l.dst = stack[Len(stack) - 1].sw => lowpoint'[OD!curr] <= dfsIndex[l.dst]
    PROVE  CompInv'
<1>1. DomType /\ Frames /\ Clusters
    BY DEF DomInv
<1>2. Numbered /\ LinkBack /\ Explored /\ ClustersClosed /\ Connected
    BY DEF CompInv
<1> DEFINE n == Len(stack)
<1>3. /\ stack \in Seq(Frame) /\ n \in Nat \ {0} /\ n \in 1..n
      /\ OD!Top = stack[n] /\ OD!curr = stack[n].sw
    BY <1>1, TopIs DEF DomType
<1>4. /\ Len(stack') = n /\ stack' # <<>>
      /\ \A i \in 1..n : stack'[i].sw = stack[i].sw
      /\ \A i \in 1..n : stack'[i].todo = IF i = n THEN stack[i].todo \ {l} ELSE stack[i].todo
    BY <1>3, ConsumeIs
<1>5. \A i \in 1..n : stack[i].sw \in Switch
    BY OnStackIs
<1>6. Forming' = Forming
    BY <1>4 DEF Forming
<1> HIDE DEF n
<1>7. Numbered'
  <2>1. \A i \in 2..n : i \in 1..n /\ i - 1 \in 1..n
      BY <1>3
  <2> QED BY <1>2, <1>4, <2>1 DEF Numbered, n
<1>8. LinkBack'
  <2> SUFFICES ASSUME NEW i \in 2..n
               PROVE  \/ \E k \in stack'[i].todo : k.dst = stack'[i - 1].sw
                      \/ lowpoint'[stack'[i].sw] <= dfsIndex'[stack'[i - 1].sw]
      BY <1>4 DEF LinkBack
  <2>1. /\ i \in 1..n /\ i - 1 \in 1..n /\ dfsIndex' = dfsIndex
        /\ stack'[i].sw = stack[i].sw /\ stack'[i - 1].sw = stack[i - 1].sw
    <3>1. i \in 1..n /\ i - 1 \in 1..n
        BY <1>3
    <3> QED BY <3>1, <1>4
  <2>2. CASE lowpoint[stack[i].sw] <= dfsIndex[stack[i - 1].sw]
    <3> DEFINE a == lowpoint'[stack[i].sw]
               b == lowpoint[stack[i].sw]
               c == dfsIndex[stack[i - 1].sw]
    <3>1. stack[i].sw \in Switch /\ stack[i - 1].sw \in Switch
        BY <2>1, <1>5
    <3>2. a \in Nat /\ b \in Nat /\ c \in Nat /\ a <= b
        BY <3>1, <1>1 DEF DomType
    <3>3. b <= c
        BY <2>2
    <3> HIDE DEF a, b, c
    <3>4. a <= c
        BY <3>2, <3>3
    <3> QED BY <3>4, <2>1 DEF a, c
  <2>3. CASE \E k \in stack[i].todo : k.dst = stack[i - 1].sw
    <3>1. PICK k \in stack[i].todo : k.dst = stack[i - 1].sw
        BY <2>3
    <3>2. CASE i = n /\ k = l
      <4>1. n > 1 /\ l.dst = stack[n - 1].sw
          BY <3>1, <3>2, <1>3
      <4> QED BY <4>1, <3>2, <2>1, <1>3 DEF n
    <3>3. CASE ~(i = n /\ k = l)
        BY <3>1, <3>3, <2>1, <1>4
    <3> QED BY <3>2, <3>3
  <2> QED BY <2>2, <2>3, <1>2 DEF LinkBack, n
<1>9. Explored'
  <2> SUFFICES ASSUME NEW k \in graph, k.src \in Forming, k.dst \notin Forming
               PROVE  \E i \in 1..n : stack'[i].sw = k.src /\ k \in stack'[i].todo
      BY <1>4, <1>6 DEF Explored
  <2>1. PICK i \in 1..n : stack[i].sw = k.src /\ k \in stack[i].todo
      BY <1>2 DEF Explored, n
  <2> QED BY <2>1, <1>4
<1>10. ClustersClosed'
    BY <1>2 DEF ClustersClosed
<1>11. Connected'
  <2>1. stack'[1].sw = stack[1].sw
      BY <1>3, <1>4
  <2> QED BY <1>2, <1>6, <2>1 DEF Connected, OD!Closed
<1> QED BY <1>7, <1>8, <1>9, <1>10, <1>11 DEF CompInv

(* It survives the call for a new root. *)
LEMMA StartComp ==
    ASSUME DomInv, CompInv, NEW s \in Switch, OD!StartTraverse(s)
    PROVE  CompInv'
<1>1. DomType /\ Frames /\ Clusters
    BY DEF DomInv
<1>2. Numbered /\ LinkBack /\ Explored /\ ClustersClosed /\ Connected
    BY DEF CompInv
<1> DEFINE f == [sw |-> s, todo |-> OD!OutLinks(s)]
<1>3. /\ stack = <<>> /\ s \notin visited /\ visited' = visited \union {s}
      /\ dfsIndex' = [dfsIndex EXCEPT ![s] = 1]
      /\ currIndex' = 2 /\ stack' = <<f>>
      /\ UNCHANGED <<graph, lowpoint, currSet, switchClusterMap>>
    BY DEF OD!StartTraverse, OD!Enter
<1>4. currSet = {}
    BY <1>1, <1>3 DEF Clusters, OD!VisitedIsPlaced
<1>5. Len(stack') = 1 /\ stack'[1] = f /\ f.sw = s /\ f.todo = OD!OutLinks(s)
    BY <1>3
<1> HIDE DEF f
<1>6. Forming' = {s}
    BY <1>3, <1>4, <1>5 DEF Forming
<1>7. Numbered'
  <2>1. Cardinality(visited') = Cardinality(visited) + 1 /\ Cardinality(visited) \in Nat
      BY <1>3, VisitedFits
  <2>2. \A t \in Switch : dfsIndex'[t] = IF t = s THEN 1 ELSE dfsIndex[t]
      BY <1>1, <1>3 DEF DomType
  <2>3. \A t \in Switch : dfsIndex[t] \in Nat
      BY <1>1 DEF DomType
  <2>4. \A t \in Switch : IF t \in visited' THEN dfsIndex'[t] <= Cardinality(visited')
                                             ELSE dfsIndex'[t] = LONG_MAX
      BY <2>1, <2>2, <2>3, <1>2, <1>3 DEF Numbered
  <2> QED BY <2>1, <2>2, <2>4, <1>3, <1>5 DEF Numbered
<1>8. LinkBack'
    BY <1>5 DEF LinkBack
<1>9. Explored'
    BY <1>3, <1>5, <1>6 DEF Explored, OD!OutLinks
<1>10. ClustersClosed'
    BY <1>2, <1>3 DEF ClustersClosed
<1>11. Connected'
    BY <1>2, <1>3, <1>5, <1>6 DEF Connected, OD!Closed
<1> QED BY <1>7, <1>8, <1>9, <1>10, <1>11 DEF CompInv

(* It survives a recursive call: the reverse of the link is among those of *)
(* the callee.                                                             *)
LEMMA TreeLinkComp ==
    ASSUME DomInv, CompInv, Bidirectional, NEW l \in Link, OD!TreeLink(l)
    PROVE  CompInv'
<1>1. DomType /\ Frames /\ Clusters
    BY DEF DomInv
<1>2. Numbered /\ LinkBack /\ Explored /\ ClustersClosed /\ Connected
    BY DEF CompInv
<1> DEFINE n == Len(stack)
           d == l.dst
           c == OD!curr
           frames == OD!Consume(l)
           f == [sw |-> d, todo |-> OD!OutLinks(d)]
<1>3. /\ stack # <<>> /\ l \in OD!Top.todo /\ d \notin visited /\ d \in Switch
      /\ visited' = visited \union {d}
      /\ dfsIndex' = [dfsIndex EXCEPT ![d] = currIndex]
      /\ parentIndex' = [parentIndex EXCEPT ![d] = dfsIndex[c]]
      /\ currIndex' = currIndex + 1 /\ stack' = Append(frames, f)
      /\ UNCHANGED <<graph, lowpoint, currSet, switchClusterMap>>
    BY RouteAssumptions DEF OD!TreeLink, OD!Enter
<1>4. /\ stack \in Seq(Frame) /\ n \in Nat \ {0} /\ n \in 1..n /\ 1 \in 1..n
      /\ OD!Top = stack[n] /\ c = stack[n].sw
    BY <1>1, <1>3, TopIs DEF DomType
<1>5. /\ frames \in Seq(Frame) /\ Len(frames) = n
      /\ \A i \in 1..n : frames[i].sw = stack[i].sw
      /\ \A i \in 1..n : frames[i].todo = IF i = n THEN stack[i].todo \ {l} ELSE stack[i].todo
    BY <1>3, <1>4, ConsumeIs
<1>6. f \in Frame /\ f.sw = d /\ f.todo = OD!OutLinks(d)
    BY <1>1, <1>3, OutLinksAre DEF Frame, DomType
<1> HIDE DEF f, frames
<1>7. /\ Len(stack') = n + 1 /\ stack' # <<>> /\ stack'[n + 1] = f
      /\ 1..(n + 1) = 1..n \union {n + 1}
      /\ \A i \in 1..n : stack'[i].sw = stack[i].sw
      /\ \A i \in 1..n : stack'[i].todo = IF i = n THEN stack[i].todo \ {l} ELSE stack[i].todo
  <2>1. /\ Len(stack') = n + 1 /\ stack' # <<>> /\ stack'[n + 1] = f
        /\ 1..(n + 1) = 1..n \union {n + 1}
        /\ \A i \in 1..n : stack'[i] = frames[i]
    <3> HIDE DEF n
    <3> QED BY <1>3, <1>5, <1>6, PushIs
  <2> QED BY <2>1, <1>5
<1>8. \A i \in 1..n : stack[i].sw \in Switch /\ stack[i].sw \in visited /\ stack[i].sw # d
    BY <1>3, OnStackIs
<1>9. l \in graph /\ l.src = c /\ d # c
    BY <1>3, <1>4, OnStackIs
<1>10. Forming' = Forming \union {d}
  <2>1. {stack'[i].sw : i \in 1..(n + 1)} = {stack[i].sw : i \in 1..n} \union {d}
      BY <1>6, <1>7
  <2> QED BY <2>1, <1>3, <1>7 DEF Forming
<1> HIDE DEF n, d, c
<1>11. Numbered'
  <2> DEFINE v == Cardinality(visited)
  <2>1. Cardinality(visited') = v + 1 /\ v \in Nat
      BY <1>3, VisitedFits
  <2>2. \A t \in Switch : /\ dfsIndex'[t] = IF t = d THEN currIndex ELSE dfsIndex[t]
                          /\ parentIndex'[t] = IF t = d THEN dfsIndex[c] ELSE parentIndex[t]
                          /\ dfsIndex[t] \in Nat
      BY <1>1, <1>3 DEF DomType
  <2>3. currIndex \in Nat /\ currIndex <= v + 1
      BY <1>1, <1>2 DEF DomType, Numbered
  <2>4. currIndex' <= Cardinality(visited') + 1
      BY <2>1, <2>3, <1>3
  <2>5. \A t \in Switch : IF t \in visited' THEN dfsIndex'[t] <= Cardinality(visited')
                                             ELSE dfsIndex'[t] = LONG_MAX
    <3>1. \A t \in Switch : IF t \in visited THEN dfsIndex[t] <= v ELSE dfsIndex[t] = LONG_MAX
        BY <1>2 DEF Numbered
    <3> HIDE DEF v
    <3> QED BY <2>1, <2>2, <2>3, <3>1, <1>3
  <2>6. \A i \in 1..n : dfsIndex'[stack'[i].sw] = dfsIndex[stack[i].sw]
                       /\ parentIndex'[stack'[i].sw] = parentIndex[stack[i].sw]
      BY <2>2, <1>7, <1>8
  <2>7. dfsIndex'[stack'[n + 1].sw] = currIndex /\ parentIndex'[stack'[n + 1].sw] = dfsIndex[c]
      BY <2>2, <1>3, <1>6, <1>7
  <2>8. \A i \in 1..n : dfsIndex[stack[i].sw] < currIndex /\ dfsIndex[stack[i].sw] \in Nat
      BY <2>2, <1>2, <1>8 DEF Numbered, n
  <2>9. \A i \in 1..(n + 1) : dfsIndex'[stack'[i].sw] < currIndex'
      BY <2>3, <2>6, <2>7, <2>8, <1>3, <1>7
  <2>10. ASSUME NEW i \in 2..(n + 1)
         PROVE  /\ parentIndex'[stack'[i].sw] = dfsIndex'[stack'[i - 1].sw]
                /\ dfsIndex'[stack'[i - 1].sw] < dfsIndex'[stack'[i].sw]
    <3>1. CASE i = n + 1
      <4>1. i - 1 = n
          BY <3>1, <1>4
      <4> QED BY <3>1, <4>1, <2>6, <2>7, <2>8, <1>4
    <3>2. CASE i # n + 1
      <4>1. i \in 2..n /\ i \in 1..n /\ i - 1 \in 1..n
          BY <3>2, <1>4
      <4> QED BY <4>1, <2>6, <1>2 DEF Numbered, n
    <3> QED BY <3>1, <3>2
  <2> QED BY <2>4, <2>5, <2>9, <2>10, <1>7 DEF Numbered
<1>12. LinkBack'
  <2> SUFFICES ASSUME NEW i \in 2..(n + 1)
               PROVE  \/ \E k \in stack'[i].todo : k.dst = stack'[i - 1].sw
                      \/ lowpoint'[stack'[i].sw] <= dfsIndex'[stack'[i - 1].sw]
      BY <1>7 DEF LinkBack
  <2>1. CASE i = n + 1
    <3> DEFINE k == [src |-> d, dst |-> c]
    <3>1. k \in graph
        BY <1>9 DEF Bidirectional, d
    <3>2. k \in f.todo /\ k.dst = c
        BY <3>1, <1>6, <1>9 DEF OD!OutLinks
    <3>3. i - 1 = n /\ stack'[i] = f /\ stack'[i - 1].sw = c
        BY <2>1, <1>4, <1>7
    <3> QED BY <3>2, <3>3
  <2>2. CASE i # n + 1
    <3>1. i \in 2..n /\ i \in 1..n /\ i - 1 \in 1..n
        BY <2>2, <1>4
    <3>2. /\ stack'[i].sw = stack[i].sw /\ stack'[i - 1].sw = stack[i - 1].sw
          /\ dfsIndex'[stack[i - 1].sw] = dfsIndex[stack[i - 1].sw]
        BY <3>1, <1>1, <1>3, <1>7, <1>8 DEF DomType
    <3>3. CASE lowpoint[stack[i].sw] <= dfsIndex[stack[i - 1].sw]
        BY <3>2, <3>3, <1>3
    <3>4. CASE \E k \in stack[i].todo : k.dst = stack[i - 1].sw
      <4>1. PICK k \in stack[i].todo : k.dst = stack[i - 1].sw
          BY <3>4
      <4>2. k # l
          BY <4>1, <3>1, <1>8 DEF d
      <4>3. k \in stack'[i].todo
          BY <4>2, <3>1, <1>7
      <4> QED BY <4>1, <4>3, <3>2
    <3> QED BY <3>1, <3>3, <3>4, <1>2 DEF LinkBack, n
  <2> QED BY <2>1, <2>2
<1>13. Explored'
  <2> SUFFICES ASSUME NEW k \in graph, k.src \in Forming \union {d}, k.dst \notin Forming \union {d}
               PROVE  \E i \in 1..(n + 1) : stack'[i].sw = k.src /\ k \in stack'[i].todo
      BY <1>3, <1>7, <1>10 DEF Explored
  <2>1. CASE k.src = d
    <3>1. k \in f.todo
        BY <2>1, <1>6 DEF OD!OutLinks
    <3> QED BY <3>1, <2>1, <1>6, <1>7
  <2>2. CASE k.src \in Forming
    <3>1. PICK i \in 1..n : stack[i].sw = k.src /\ k \in stack[i].todo
        BY <2>2, <1>2 DEF Explored, n
    <3>2. k # l
        BY DEF d
    <3> QED BY <3>1, <3>2, <1>7
  <2> QED BY <2>1, <2>2
<1>14. ClustersClosed'
    BY <1>2, <1>3 DEF ClustersClosed
<1>15. Connected'
  <2>1. stack'[1].sw = stack[1].sw
      BY <1>4, <1>7
  <2>2. ASSUME NEW F \in SUBSET Switch, OD!Closed(F)
        PROVE  \A s \in Forming' : s \in F <=> stack[1].sw \in F
    <3>1. \A s \in Forming : s \in F <=> stack[1].sw \in F
        BY <2>2, <1>2, <1>3 DEF Connected
    <3>2. c \in Forming
        BY <1>4, OnStackIs DEF n
    <3>3. d \in F <=> c \in F
      <4>1. [src |-> d, dst |-> c] \in graph
          BY <1>9 DEF Bidirectional, d
      <4> QED BY <4>1, <2>2, <1>9 DEF OD!Closed, d
    <3> QED BY <3>1, <3>2, <3>3, <1>10
  <2>3. \A F : OD!Closed(F)' = OD!Closed(F)
      BY <1>3 DEF OD!Closed
  <2> QED BY <2>1, <2>2, <2>3, <1>2, <1>3 DEF Connected
<1> QED BY <1>11, <1>12, <1>13, <1>14, <1>15 DEF CompInv

(* It survives a return, which closes a cluster exactly if it is that of a   *)
(* root: then everything under way is explored, and no link leads out of it. *)
LEMMA ReturnComp ==
    ASSUME DomInv, CompInv, Bidirectional, OD!Return
    PROVE  CompInv'
<1>1. DomType /\ Frames /\ Clusters
    BY DEF DomInv
<1>2. Numbered /\ LinkBack /\ Explored /\ ClustersClosed /\ Connected
    BY DEF CompInv
<1> DEFINE n == Len(stack) - 1
           c == OD!curr
           S == currSet \union {c}
<1>3. /\ stack # <<>> /\ Len(stack) = n + 1 /\ stack' = SubSeq(stack, 1, n)
      /\ OD!Top.todo = {}
      /\ UNCHANGED <<graph, dfsIndex, parentIndex, visited, currIndex>>
    BY <1>1 DEF OD!Return, DomType
<1>4. /\ Len(stack') = n /\ n \in Nat /\ (stack' = <<>> <=> n = 0)
      /\ \A i \in 1..n : stack'[i] = stack[i] /\ i \in 1..Len(stack)
      /\ 1..Len(stack) = 1..n \union {n + 1} /\ n + 1 \notin 1..n
    BY <1>1, <1>3, PopIs DEF DomType
<1>5. /\ c \in Switch /\ c = stack[n + 1].sw /\ n + 1 \in 1..Len(stack)
      /\ stack[n + 1].todo = {}
    BY <1>1, <1>3, TopIs DEF DomType
<1>6. n # 0 => ~OD!ClosesCluster(c)
  <2> SUFFICES ASSUME n # 0 PROVE ~OD!ClosesCluster(c)
      OBVIOUS
  <2>1. n + 1 \in 2..Len(stack) /\ n + 1 - 1 = n /\ n \in 1..Len(stack)
      BY <1>3, <1>4
  <2> HIDE DEF n, c
  <2>2. lowpoint[c] <= dfsIndex[stack[n].sw] /\ parentIndex[c] = dfsIndex[stack[n].sw]
      BY <2>1, <1>2, <1>5 DEF LinkBack, Numbered
  <2>3. lowpoint[c] \in Nat /\ parentIndex[c] \in Nat
      BY <1>1, <1>5 DEF DomType
  <2> QED BY <2>2, <2>3 DEF OD!ClosesCluster
<1>7. n = 0 => OD!ClosesCluster(c)
    BY <1>3, <1>4, RootCloses
<1>8. /\ n # 0 => switchClusterMap' = switchClusterMap /\ currSet' = S
      /\ n = 0 => switchClusterMap' = OD!MapTo(S) /\ currSet' = {}
    BY <1>6, <1>7 DEF OD!Return, OD!WithCurr
<1>9. lowpoint' \in [Switch -> Nat \ {0}] /\ \A s \in Switch : lowpoint'[s] <= lowpoint[s]
  <2>1. CASE Len(stack) = 1
      BY <2>1, <1>1 DEF OD!Return, DomType
  <2>2. CASE Len(stack) # 1
    <3> DEFINE caller == stack[Len(stack) - 1].sw
    <3>1. lowpoint' = [lowpoint EXCEPT ![caller] = IF lowpoint[c] < @ THEN lowpoint[c] ELSE @]
        BY <2>2 DEF OD!Return
    <3>2. lowpoint[c] \in Nat \ {0} /\ lowpoint \in [Switch -> Nat \ {0}]
        BY <1>1, <1>5 DEF DomType
    <3>3. caller \in Switch
        BY <2>2, <1>3, <1>4, OnStackIs
    <3> HIDE DEF caller, c
    <3>4. lowpoint' = [lowpoint EXCEPT ![caller] =
                        IF lowpoint[c] < lowpoint[caller] THEN lowpoint[c] ELSE lowpoint[caller]]
        BY <3>1
    <3>5. lowpoint[c] \in Nat /\ \A s \in Switch : lowpoint[s] \in Nat
        BY <3>2
    <3>6. \A s \in Switch : lowpoint'[s] <= lowpoint[s]
        BY <3>2, <3>3, <3>4, <3>5
    <3> QED BY <3>2, <3>3, <3>4, <3>6
  <2> QED BY <2>1, <2>2
<1>10. Forming = {stack[i].sw : i \in 1..n} \union S
  <2>1. \A i \in 1..Len(stack) : i \in 1..n \/ stack[i].sw = c
      BY <1>4, <1>5
  <2>2. \A i \in 1..n : i \in 1..Len(stack)
      BY <1>4
  <2> HIDE DEF n, c
  <2>3. {stack[i].sw : i \in 1..Len(stack)} = {stack[i].sw : i \in 1..n} \union {c}
      BY <2>1, <2>2, <1>5
  <2> QED BY <2>3 DEF Forming, S
<1>11. Forming' = {stack[i].sw : i \in 1..n} \union currSet'
    BY <1>4 DEF Forming
<1> HIDE DEF n, c, S
<1>12. \A i \in 1..n : stack[i].sw \in Switch
    BY <1>4, OnStackIs
<1>13. Numbered'
  <2>1. \A i \in 2..n : i \in 1..n /\ i - 1 \in 1..n /\ i \in 2..Len(stack)
      BY <1>3, <1>4
  <2>2. \A i \in 1..n : stack'[i] = stack[i] /\ i \in 1..Len(stack)
      BY <1>4
  <2> QED BY <1>2, <1>3, <1>4, <2>1, <2>2 DEF Numbered
<1>14. LinkBack'
  <2> SUFFICES ASSUME NEW i \in 2..n
               PROVE  \/ \E k \in stack'[i].todo : k.dst = stack'[i - 1].sw
                      \/ lowpoint'[stack'[i].sw] <= dfsIndex'[stack'[i - 1].sw]
      BY <1>4 DEF LinkBack
  <2>1. /\ i \in 1..n /\ i - 1 \in 1..n /\ i \in 2..Len(stack)
        /\ stack'[i] = stack[i] /\ stack'[i - 1] = stack[i - 1]
      BY <1>3, <1>4
  <2>2. CASE lowpoint[stack[i].sw] <= dfsIndex[stack[i - 1].sw]
    <3> DEFINE a == lowpoint'[stack[i].sw]
               b == lowpoint[stack[i].sw]
               e == dfsIndex[stack[i - 1].sw]
    <3>1. stack[i].sw \in Switch /\ stack[i - 1].sw \in Switch
        BY <2>1, <1>12
    <3>2. a \in Nat /\ b \in Nat /\ e \in Nat /\ a <= b
        BY <3>1, <1>1, <1>9 DEF DomType
    <3>3. b <= e
        BY <2>2
    <3> HIDE DEF a, b, e
    <3>4. a <= e
        BY <3>2, <3>3
    <3> QED BY <3>4, <2>1, <1>3 DEF a, e
  <2>3. CASE \E k \in stack[i].todo : k.dst = stack[i - 1].sw
      BY <2>1, <2>3
  <2> QED BY <2>1, <2>2, <2>3, <1>2 DEF LinkBack
<1>15. ASSUME NEW l \in graph, l.src \in Forming
       PROVE  \/ l.dst \in Forming
              \/ \E i \in 1..n : stack[i].sw = l.src /\ l \in stack[i].todo
  <2> SUFFICES ASSUME l.dst \notin Forming
               PROVE  \E i \in 1..n : stack[i].sw = l.src /\ l \in stack[i].todo
      OBVIOUS
  <2>1. PICK i \in 1..Len(stack) : stack[i].sw = l.src /\ l \in stack[i].todo
      BY <1>2, <1>15 DEF Explored
  <2> QED BY <2>1, <1>4, <1>5
<1>16. CASE n # 0
  <2>1. Forming' = Forming /\ switchClusterMap' = switchClusterMap
      BY <1>16, <1>8, <1>10, <1>11
  <2>2. Explored'
    <3> SUFFICES ASSUME NEW l \in graph, l.src \in Forming, l.dst \notin Forming
                 PROVE  \E i \in 1..n : stack'[i].sw = l.src /\ l \in stack'[i].todo
        BY <2>1, <1>3, <1>4 DEF Explored
    <3>1. PICK i \in 1..n : stack[i].sw = l.src /\ l \in stack[i].todo
        BY <1>15
    <3>2. stack'[i] = stack[i]
        BY <1>4
    <3> QED BY <3>1, <3>2
  <2>3. ClustersClosed'
      BY <1>2, <1>3, <2>1 DEF ClustersClosed
  <2>4. Connected'
    <3>1. 1 \in 1..n
        BY <1>16, <1>4
    <3>2. stack'[1] = stack[1]
        BY <3>1, <1>4
    <3> QED BY <1>2, <1>3, <2>1, <3>2 DEF Connected, OD!Closed
  <2> QED BY <1>13, <1>14, <2>2, <2>3, <2>4 DEF CompInv
<1>17. CASE n = 0
  <2>1. /\ Forming = S /\ Forming' = {} /\ stack' = <<>>
        /\ switchClusterMap' = [s \in Switch |-> IF s \in S THEN S ELSE switchClusterMap[s]]
      BY <1>17, <1>4, <1>8, <1>10, <1>11 DEF OD!MapTo
  <2>2. S \subseteq Switch /\ \A s \in S : switchClusterMap[s] = {}
      BY <2>1, <1>1, OnStackIs DEF DomType
  <2>3. \A l \in graph : l.src \in Switch /\ l.dst \in Switch
      BY <1>1, OutLinksAre DEF DomType
  <2>4. \A l \in graph : l.src \in S => l.dst \in S
      BY <1>15, <1>17, <2>1
  <2>5. Explored'
      BY <2>1 DEF Explored
  <2>6. ClustersClosed'
    <3> SUFFICES ASSUME NEW l \in graph, switchClusterMap'[l.src] # {}
                 PROVE  switchClusterMap'[l.dst] = switchClusterMap'[l.src]
        BY <1>3 DEF ClustersClosed
    <3>1. CASE l.src \in S
        BY <3>1, <2>1, <2>3, <2>4
    <3>2. CASE l.src \notin S
      <4>1. switchClusterMap'[l.src] = switchClusterMap[l.src]
          BY <3>2, <2>1, <2>3
      <4>2. switchClusterMap[l.dst] = switchClusterMap[l.src]
          BY <4>1, <1>2 DEF ClustersClosed
      <4>3. l.dst \notin S
          BY <4>1, <4>2, <2>2
      <4> QED BY <4>1, <4>2, <4>3, <2>1, <2>3
    <3> QED BY <3>1, <3>2
  <2>7. Connected'
    <3> SUFFICES ASSUME NEW F \in SUBSET Switch, OD!Closed(F),
                        NEW s \in Switch, NEW t \in switchClusterMap'[s]
                 PROVE  s \in F <=> t \in F
        BY <1>3, <2>1 DEF Connected, OD!Closed
    <3>1. CASE s \in S
      <4>1. t \in S
          BY <3>1, <2>1
      <4>2. \A u \in S : u \in F <=> stack[1].sw \in F
          BY <1>2, <1>3, <2>1 DEF Connected
      <4> QED BY <3>1, <4>1, <4>2
    <3>2. CASE s \notin S
      <4>1. t \in switchClusterMap[s]
          BY <3>2, <2>1
      <4> QED BY <4>1, <1>2 DEF Connected
    <3> QED BY <3>1, <3>2
  <2> QED BY <1>13, <1>14, <2>5, <2>6, <2>7 DEF CompInv
<1> QED BY <1>16, <1>17

(* It survives a step that leaves the variables alone. *)
LEMMA CompStutter == CompInv /\ UNCHANGED OD!vars => CompInv'
<1> SUFFICES ASSUME CompInv, UNCHANGED OD!vars PROVE CompInv'
    OBVIOUS
<1>1. UNCHANGED <<graph, dfsIndex, parentIndex, lowpoint, visited, currIndex, stack,
                  currSet, switchClusterMap>>
    BY DEF OD!vars
<1>2. Numbered' /\ LinkBack'
    BY <1>1 DEF CompInv, Numbered, LinkBack
<1>3. Explored' /\ ClustersClosed' /\ Connected'
    BY <1>1 DEF CompInv, Explored, ClustersClosed, Connected, OD!Closed, Forming
<1> QED BY <1>2, <1>3 DEF CompInv

(* With links in both directions, every step of identifyOpenflowDomains *)
(* preserves it.                                                        *)
LEMMA CompStep == DomInv /\ CompInv /\ Bidirectional /\ OD!Next => CompInv'
<1> SUFFICES ASSUME DomInv, CompInv, Bidirectional, OD!Next PROVE CompInv'
    OBVIOUS
<1>0. DomType /\ Frames /\ Clusters
    BY DEF DomInv
<1>1. ASSUME NEW s \in Switch, OD!StartTraverse(s) PROVE CompInv'
    BY <1>1, StartComp
<1>2. ASSUME NEW l \in Link, OD!IgnoreLink(l) \/ OD!BackLink(l) PROVE CompInv'
  <2> DEFINE n == Len(stack)
             c == OD!curr
  <2>1. /\ stack # <<>> /\ l \in OD!Top.todo /\ stack' = OD!Consume(l)
        /\ UNCHANGED <<graph, dfsIndex, parentIndex, visited, currIndex, currSet, switchClusterMap>>
      BY <1>2 DEF OD!IgnoreLink, OD!BackLink
  <2>2. /\ n \in Nat \ {0} /\ n \in 1..n /\ OD!Top = stack[n] /\ c = stack[n].sw
      BY <2>1, <1>0, TopIs DEF DomType
  <2>3. /\ l \in graph /\ l.src = c /\ c \in Switch /\ l.dst \in Switch /\ c \in visited
        /\ switchClusterMap[c] = {}
      BY <2>1, <2>2, OnStackIs, RouteAssumptions
  <2>4. switchClusterMap[l.dst] = {}
    <3>1. [src |-> l.dst, dst |-> c] \in graph
        BY <2>3 DEF Bidirectional
    <3>2. switchClusterMap[l.dst] # {} => switchClusterMap[c] = switchClusterMap[l.dst]
        BY <3>1 DEF CompInv, ClustersClosed
    <3> QED BY <3>2, <2>3
  <2>5. /\ dfsIndex[l.dst] \in Nat /\ dfsIndex[c] \in Nat /\ lowpoint[c] \in Nat \ {0}
        /\ dfsIndex[l.dst] # 0
      BY <1>0, <2>3 DEF DomType
  <2>6. l.dst \in visited
    <3>1. CASE OD!IgnoreLink(l)
        BY <3>1, <2>4 DEF OD!IgnoreLink
    <3>2. CASE OD!BackLink(l)
      <4>1. dfsIndex[l.dst] < dfsIndex[c] /\ dfsIndex[c] <= Cardinality(visited)
          BY <3>2, <2>3 DEF OD!BackLink, CompInv, Numbered
      <4>2. Cardinality(visited) \in Nat /\ Cardinality(visited) < LONG_MAX /\ LONG_MAX \in Nat
          BY VisitedFits
      <4>3. dfsIndex[l.dst] # LONG_MAX
        <5> HIDE DEF c
        <5> QED BY <4>1, <4>2, <2>5
      <4> QED BY <4>3, <2>3 DEF CompInv, Numbered
    <3> QED BY <1>2, <3>1, <3>2
  <2>7. l.dst \in Forming
      BY <2>4, <2>6, OnStackIs
  <2>8. /\ lowpoint' \in [Switch -> Nat \ {0}]
        /\ \A s \in Switch : lowpoint'[s] <= lowpoint[s]
        /\ OD!BackLink(l) => lowpoint'[c] <= dfsIndex[l.dst]
    <3>1. CASE OD!IgnoreLink(l) /\ ~OD!BackLink(l)
        BY <3>1, <1>0 DEF OD!IgnoreLink, DomType
    <3>2. CASE OD!BackLink(l)
      <4>1. lowpoint' = [lowpoint EXCEPT ![c] = IF dfsIndex[l.dst] < @ THEN dfsIndex[l.dst] ELSE @]
          BY <3>2 DEF OD!BackLink
      <4>2. lowpoint \in [Switch -> Nat \ {0}]
          BY <1>0 DEF DomType
      <4> HIDE DEF c
      <4> QED BY <4>1, <4>2, <2>3, <2>5
    <3> QED BY <1>2, <3>1, <3>2
  <2>9. ASSUME n > 1, l.dst = stack[n - 1].sw PROVE lowpoint'[c] <= dfsIndex[l.dst]
    <3>1. n \in 2..n
        BY <2>2, <2>9
    <3>2. dfsIndex[l.dst] < dfsIndex[c]
        BY <3>1, <2>2, <2>9 DEF CompInv, Numbered
    <3>3. ~OD!IgnoreLink(l)
      <4>1. ~(dfsIndex[l.dst] >= dfsIndex[c])
        <5> HIDE DEF c
        <5> QED BY <3>2, <2>5
      <4> QED BY <4>1, <2>4 DEF OD!IgnoreLink
    <3> QED BY <3>3, <2>8, <1>2
  <2> QED BY <2>1, <2>7, <2>8, <2>9, ConsumeComp
<1>3. ASSUME NEW l \in Link, OD!TreeLink(l) PROVE CompInv'
    BY <1>3, TreeLinkComp
<1>4. ASSUME OD!Return PROVE CompInv'
    BY <1>4, ReturnComp
<1>5. ASSUME OD!Finished PROVE CompInv'
    BY <1>5, CompStutter DEF OD!Finished
<1> QED BY <1>1, <1>2, <1>3, <1>4, <1>5 DEF OD!Next

(* When the traversal is over, a cluster is closed under links and connected:  *)
(* it is the component of each of its switches.                                *)
LEMMA CompAnswer ==
    ASSUME DomInv, CompInv, Bidirectional, OD!Done
    PROVE  \A s \in Switch : /\ switchClusterMap[s] = OD!StronglyConnected(s)
                             /\ switchClusterMap[s] # {}
<1>1. DomType /\ Frames /\ Clusters
    BY DEF DomInv
<1> SUFFICES ASSUME NEW s \in Switch
             PROVE  switchClusterMap[s] = OD!StronglyConnected(s) /\ switchClusterMap[s] # {}
    OBVIOUS
<1>2. stack = <<>> /\ visited = Switch /\ currSet = {} /\ Forming = {}
    BY <1>1 DEF OD!Done, Clusters, OD!VisitedIsPlaced, Forming
<1>3. \A t \in Switch : switchClusterMap[t] # {}
    BY <1>2, OnStackIs
<1> DEFINE C == switchClusterMap[s]
<1>4. C \subseteq Switch /\ s \in C /\ \A t \in C : switchClusterMap[t] = C
    BY <1>1, <1>3 DEF DomType, Clusters, OD!ClustersDisjoint
<1>5. OD!Closed(C)
  <2> SUFFICES ASSUME NEW l \in graph, l.src \in C PROVE l.dst \in C
      BY DEF OD!Closed
  <2>1. l.dst \in Switch /\ l.src \in Switch
      BY <1>1, OutLinksAre DEF DomType
  <2>2. switchClusterMap[l.dst] = C
      BY <2>1, <1>3, <1>4 DEF CompInv, ClustersClosed
  <2> QED BY <2>1, <2>2, <1>3, <1>1 DEF Clusters, OD!ClustersDisjoint
<1>6. ASSUME NEW t \in OD!StronglyConnected(s) PROVE t \in C
    BY <1>4, <1>5 DEF OD!StronglyConnected, OD!Reach
<1>7. ASSUME NEW t \in C PROVE t \in OD!StronglyConnected(s)
  <2>1. \A F \in SUBSET Switch : OD!Closed(F) => (s \in F <=> t \in F)
      BY <1>7 DEF CompInv, Connected
  <2> QED BY <2>1, <1>4 DEF OD!StronglyConnected, OD!Reach
<1> QED BY <1>3, <1>6, <1>7

-----------------------------------------------------------------------------
(* Nobody changes the links of an instance. *)
LEMMA GraphSame == OD!Next => graph' = graph
BY DEF OD!Next, OD!StartTraverse, OD!IgnoreLink, OD!BackLink, OD!TreeLink, OD!Return,
       OD!Finished, OD!vars

(* What the traversal hands on. *)
Answer ==
    /\ graph \in Graphs /\ switchClusterMap \in [Switch -> SUBSET Switch]
    /\ OD!ClustersDisjoint
    /\ \A s \in Switch : switchClusterMap[s] # {}
    /\ links = LinksInCluster(Root)
    /\ Bidirectional => /\ ClustersClosed
                        /\ \A s \in Switch : switchClusterMap[s] = OD!StronglyConnected(s)

(* The inductive invariant of compute: the traversal before dijkstra starts, *)
(* and its answer from then on.                                              *)
SysInv ==
    /\ phase \in {"domains", "trees"}
    /\ phase = "domains" => DomInv /\ (Bidirectional => CompInv) /\ Init /\ links = {}
    /\ phase = "trees" => Answer

(* compute starts in a state that satisfies it. *)
LEMMA SysInvInit == SysInit => SysInv
<1> SUFFICES ASSUME SysInit PROVE SysInv
    OBVIOUS
<1>1. DomInv /\ CompInv
    BY DomInit, CompInit DEF SysInit
<1> QED BY <1>1 DEF SysInit, SysInv

(* The links a cluster gets are the links between its members. *)
LEMMA ClusterLinks ==
    ASSUME graph \in Graphs
    PROVE  LinksInCluster(Root) \in Graphs
<1> DEFINE S == {s \in Switch : switchClusterMap[s] = switchClusterMap[Root]}
<1>1. LinksInCluster(Root) = {l \in graph : l.src \in S /\ l.dst \in S}
    BY OutLinksAre DEF LinksInCluster
<1> QED BY <1>1, InstanceAssumptions

(* compute's second half starts where dijkstra starts. *)
LEMMA AddLinksInit ==
    ASSUME SysInv, AddLinksToOpenflowDomains PROVE SysInv' /\ Init'
<1>1. DomInv /\ (Bidirectional => CompInv) /\ Init /\ OD!Done
    BY DEF SysInv, AddLinksToOpenflowDomains
<1>2. DomType /\ Frames /\ Clusters
    BY <1>1 DEF DomInv
<1>3. /\ phase' = "trees" /\ links' = LinksInCluster(Root)
      /\ UNCHANGED <<graph, switchClusterMap, treeVars, pc, path, srcId>>
    BY DEF AddLinksToOpenflowDomains
<1>4. links' \in Graphs
    BY <1>2, <1>3, ClusterLinks DEF DomType
<1>5. Init'
    BY <1>1, <1>3, <1>4 DEF Init, treeVars
<1>6. OD!VisitedIsPlaced /\ visited = Switch /\ stack = <<>>
    BY <1>1, <1>2 DEF Clusters, OD!Done
<1>7. \A s \in Switch : switchClusterMap[s] # {}
    BY <1>6 DEF OD!VisitedIsPlaced
<1>8. Bidirectional => /\ ClustersClosed
                       /\ \A s \in Switch : switchClusterMap[s] = OD!StronglyConnected(s)
    BY <1>1, CompAnswer DEF CompInv
<1>9. (Bidirectional => /\ ClustersClosed
                        /\ \A s \in Switch : switchClusterMap[s] = OD!StronglyConnected(s))'
    BY <1>3, <1>8 DEF Bidirectional, ClustersClosed, OD!StronglyConnected, OD!Reach, OD!Closed
<1>10. Answer'
    BY <1>2, <1>3, <1>7, <1>9 DEF Answer, DomType, Clusters, OD!ClustersDisjoint, LinksInCluster
<1> QED BY <1>3, <1>5, <1>10 DEF SysInv

(* The answer does not change any more. *)
LEMMA AnswerStays ==
    ASSUME Answer, UNCHANGED <<graph, switchClusterMap, links>> PROVE Answer'
BY DEF Answer, Bidirectional, ClustersClosed, OD!StronglyConnected, OD!Reach, OD!Closed,
       OD!ClustersDisjoint, LinksInCluster

(* dijkstra and buildroute do not change the links of the cluster. *)
LEMMA LinksSame == [Next]_vars => links' = links
BY DEF Next, vars, Poll, Relax, FinishTree, StartRoute, WalkHop, EndRoute, NoRequest

(* Every step of compute preserves the inductive invariant. *)
LEMMA SysInvStep == SysInv /\ [SysNext]_sysVars => SysInv'
<1> SUFFICES ASSUME SysInv, [SysNext]_sysVars PROVE SysInv'
    OBVIOUS
<1>1. CASE IdentifyOpenflowDomains
  <2>1. DomInv /\ (Bidirectional => CompInv) /\ Init /\ links = {} /\ OD!Next /\ UNCHANGED <<vars, phase>>
        /\ phase = "domains"
      BY <1>1 DEF SysInv, IdentifyOpenflowDomains
  <2>2. DomInv'
      BY <2>1, DomStep
  <2>3. Bidirectional' => CompInv'
      BY <2>1, GraphSame, CompStep DEF Bidirectional
  <2>4. Init' /\ links' = {}
      BY <2>1 DEF Init, vars, treeVars
  <2> QED BY <2>1, <2>2, <2>3, <2>4 DEF SysInv
<1>2. CASE AddLinksToOpenflowDomains
    BY <1>2, AddLinksInit
<1>3. CASE TreeStep
  <2>1. Answer /\ phase' = "trees" /\ UNCHANGED <<graph, switchClusterMap, links>>
      BY <1>3, LinksSame DEF SysInv, TreeStep
  <2>2. Answer'
      BY <2>1, AnswerStays
  <2> QED BY <2>1, <2>2 DEF SysInv
<1>4. CASE UNCHANGED sysVars
  <2>1. UNCHANGED <<vars, phase, graph, dfsIndex, parentIndex, lowpoint, visited, currIndex,
                    stack, currSet, switchClusterMap>>
      BY <1>4 DEF sysVars, dfsVars
  <2>2. CASE phase = "domains"
    <3>1. DomInv /\ (Bidirectional => CompInv) /\ Init /\ links = {}
        BY <2>2 DEF SysInv
    <3>2. UNCHANGED OD!vars
        BY <2>1 DEF OD!vars
    <3>3. DomInv' /\ (CompInv => CompInv')
        BY <3>1, <3>2, DomStutter, CompStutter
    <3>4. Bidirectional' => Bidirectional
        BY <2>1 DEF Bidirectional
    <3>5. Init' /\ links' = {}
        BY <2>1, <3>1 DEF Init, vars, treeVars
    <3> QED BY <2>1, <2>2, <3>1, <3>2, <3>3, <3>4, <3>5 DEF SysInv
  <2>3. CASE phase = "trees"
    <3>1. Answer'
        BY <2>1, <2>3, AnswerStays DEF SysInv, vars
    <3> QED BY <2>1, <2>3, <3>1 DEF SysInv
  <2> QED BY <2>2, <2>3 DEF SysInv
<1> QED BY <1>1, <1>2, <1>3, <1>4 DEF SysNext

(* To dijkstra and buildroute a step of compute is a start or one of their own. *)
LEMMA SysRoute == SysInv /\ [SysNext]_sysVars => Init' \/ [Next]_vars
<1> SUFFICES ASSUME SysInv, [SysNext]_sysVars PROVE Init' \/ [Next]_vars
    OBVIOUS
<1>1. CASE AddLinksToOpenflowDomains
    BY <1>1, AddLinksInit
<1>2. CASE ~AddLinksToOpenflowDomains
    BY <1>2 DEF SysNext, IdentifyOpenflowDomains, TreeStep, sysVars
<1> QED BY <1>1, <1>2

(* For any switches and links, at every step of the traversal a visited switch *)
(* is in exactly one place and the clusters are disjoint; when it is over every *)
(* switch is in a cluster, since currSet never outlives the root it was for.    *)
THEOREM ClustersPartitionHolds == SysSpec => []ClustersPartition
<1>1. SysInv => ClustersPartition
    BY DEF SysInv, Answer, DomInv, Clusters, ClustersPartition
<1> QED BY <1>1, SysInvInit, SysInvStep, PTL DEF SysSpec

(* For any switches and links, if all links were found in both directions, the *)
(* clusters identifyOpenflowDomains finds are the strongly connected components. *)
THEOREM ClustersAreComponentsHolds == SysSpec => []ClustersAreComponents
<1>1. SysInv => ClustersAreComponents
  <2> SUFFICES ASSUME SysInv, phase = "domains", OD!Done, Bidirectional
               PROVE  \A s \in Switch : switchClusterMap[s] = OD!StronglyConnected(s)
      BY DEF ClustersAreComponents, OD!ClustersAreComponents, OD!Bidirectional, Bidirectional
  <2>1. DomInv /\ CompInv
      BY DEF SysInv
  <2> QED BY <2>1, CompAnswer
<1> QED BY <1>1, SysInvInit, SysInvStep, PTL DEF SysSpec

(* In compute, over the links that the traversal has given the cluster, the     *)
(* variables of dijkstra and buildroute keep their types.                        *)
THEOREM SysRouteTypeCorrect == SysSpec => []TypeOK
<1>1. RouteInv => TypeOK
    BY DEF RouteInv
<1>2. SysInit => Init
    BY DEF SysInit
<1> QED BY <1>1, <1>2, RouteInit, RouteStep, SysInvInit, SysInvStep, SysRoute, PTL DEF SysSpec

(* In compute, a walk of buildroute meets no missing next hop ... *)
THEOREM SysRouteNeverStuck == SysSpec => []RouteNeverStuck
<1>1. RouteInv => RouteNeverStuck
    BY DEF RouteInv
<1>2. SysInit => Init
    BY DEF SysInit
<1> QED BY <1>1, <1>2, RouteInit, RouteStep, SysInvInit, SysInvStep, SysRoute, PTL DEF SysSpec

(* ... and visits no switch twice. *)
THEOREM SysRouteLoopFree == SysSpec => []RouteLoopFree
<1>1. SysInit => Init
    BY DEF SysInit
<1> QED BY <1>1, RouteInvLoopFree, RouteInit, RouteStep, SysInvInit, SysInvStep, SysRoute,
           PTL DEF SysSpec

(* In compute, the finished tree of a cluster leaves out no switch that a link  *)
(* of the cluster joins to one with a route.                                     *)
THEOREM SysTreeClosed ==
    ASSUME NEW CONSTANT W, WeightsFit(W)
    PROVE  SysSpec => []TreeClosed
<1>1. TreeInv(W) => TreeClosed
    BY DEF TreeInv
<1>2. Init => TreeInv(W)
    BY TreeInit
<1>3. RouteInv /\ TreeInv(W) /\ [Next]_vars => TreeInv(W)'
    BY TreeInvStep
<1>4. SysInit => Init
    BY DEF SysInit
<1> QED BY <1>1, <1>2, <1>3, <1>4, RouteInit, RouteStep, SysInvInit, SysInvStep, SysRoute,
           PTL DEF SysSpec
-----------------------------------------------------------------------------
(* The cluster of Root. *)
Members == switchClusterMap[Root]
(* The next hop of a switch with one. *)
NextOf(n) == nexthoplinks[n].dst

(* A finished tree of an instance whose links were found in both directions. *)
SpanPre == SysInv /\ RouteInv /\ TreeClosed /\ phase = "trees" /\ pc = "tree" /\ Bidirectional

(* A link with one end in the cluster has both there, and is a link of the *)
(* cluster.                                                                *)
LEMMA MembersAre ==
    ASSUME SpanPre
    PROVE  /\ Members \subseteq Switch /\ Root \in Members
           /\ \A s \in Switch : s \in Members <=> switchClusterMap[s] = Members
           /\ \A l \in graph : /\ l.src \in Switch /\ l.dst \in Switch
                               /\ l.src \in Members <=> l.dst \in Members
           /\ \A l \in graph : l \in links <=> l.src \in Members
           /\ links \subseteq graph
<1>1. /\ graph \in Graphs /\ switchClusterMap \in [Switch -> SUBSET Switch]
      /\ OD!ClustersDisjoint /\ \A s \in Switch : switchClusterMap[s] # {}
      /\ links = LinksInCluster(Root) /\ ClustersClosed
    BY DEF SpanPre, SysInv, Answer
<1>2. Root \in Switch /\ \A l \in graph : l.src \in Switch /\ l.dst \in Switch
    BY <1>1, RouteAssumptions, OutLinksAre
<1>3. \A s \in Switch : s \in Members <=> switchClusterMap[s] = Members
    BY <1>1, <1>2 DEF OD!ClustersDisjoint, Members
<1>4. \A l \in graph : switchClusterMap[l.dst] = switchClusterMap[l.src]
    BY <1>1, <1>2 DEF ClustersClosed
<1>5. \A l \in graph : l.src \in Members <=> l.dst \in Members
    BY <1>2, <1>3, <1>4
<1>6. \A l \in graph : l \in links <=> l.src \in Members
    BY <1>1, <1>2, <1>3, <1>4 DEF LinksInCluster, Members
<1> QED BY <1>1, <1>2, <1>3, <1>5, <1>6 DEF Members, LinksInCluster

(* Every member of the cluster has a route to Root. *)
LEMMA MembersRouted == ASSUME SpanPre PROVE \A n \in Members : Routed(n)
<1> DEFINE F == {n \in Members : Routed(n)}
<1>1. F \subseteq Switch /\ Root \in F
    BY MembersAre DEF Routed
<1>2. OD!Closed(F)
  <2> SUFFICES ASSUME NEW l \in graph, l.src \in F PROVE l.dst \in F
      BY DEF OD!Closed
  <2> DEFINE k == [src |-> l.dst, dst |-> l.src]
  <2>1. k \in graph
      BY DEF SpanPre, Bidirectional
  <2>2. l.dst \in Members
      BY MembersAre
  <2>3. k \in links /\ k.src = l.dst /\ k.dst = l.src
      BY <2>1, <2>2, MembersAre
  <2>4. Routed(k.dst) => Routed(k.src)
      BY <2>3 DEF SpanPre, TreeClosed, Routed
  <2> QED BY <2>2, <2>3, <2>4
<1>3. ASSUME NEW n \in Members PROVE n \in F
  <2>1. n \in OD!Reach(Root)
      BY MembersAre, RouteAssumptions DEF SpanPre, SysInv, Answer, OD!StronglyConnected, Members
  <2> QED BY <2>1, <1>1, <1>2 DEF OD!Reach
<1> QED BY <1>3

(* The next hop of a member is a member nearer to Root, over a link of the     *)
(* cluster; the other switches have none.                                      *)
LEMMA NextHops ==
    ASSUME SpanPre
    PROVE  /\ \A n \in Members \ {Root} :
                 /\ nexthoplinks[n] # NoLink /\ nexthoplinks[n] \in links
                 /\ nexthoplinks[n].src = n /\ NextOf(n) \in Members
                 /\ cost[NextOf(n)] < cost[n]
           /\ \A n \in Switch \ Members : nexthoplinks[n] = NoLink
           /\ nexthoplinks[Root] = NoLink
           /\ \A n \in Members : cost[n] \in Nat
<1>1. TypeOK /\ CostsDescend
    BY DEF SpanPre, RouteInv
<1>2. /\ cost \in [Switch -> Nat] /\ nexthoplinks \in [Switch -> links \union {NoLink}]
      /\ nexthoplinks[Root] = NoLink
      /\ \A n \in Switch : nexthoplinks[n] # NoLink =>
            nexthoplinks[n].src = n /\ cost[nexthoplinks[n].dst] < cost[n]
    BY <1>1 DEF TypeOK, CostsDescend
<1>3. ASSUME NEW n \in Switch, nexthoplinks[n] # NoLink
      PROVE  /\ n \in Members /\ nexthoplinks[n] \in links /\ NextOf(n) \in Members
             /\ nexthoplinks[n].src = n /\ cost[NextOf(n)] < cost[n]
  <2>1. nexthoplinks[n] \in links /\ nexthoplinks[n] \in graph
      BY <1>2, <1>3, MembersAre
  <2>2. nexthoplinks[n].src = n /\ cost[nexthoplinks[n].dst] < cost[n]
      BY <1>2, <1>3
  <2>3. n \in Members /\ NextOf(n) \in Members
      BY <2>1, <2>2, MembersAre DEF NextOf
  <2> QED BY <2>1, <2>2, <2>3 DEF NextOf
<1>4. \A n \in Members \ {Root} : n \in Switch /\ nexthoplinks[n] # NoLink
    BY MembersAre, MembersRouted DEF Routed
<1>5. \A n \in Members : cost[n] \in Nat
    BY <1>2, MembersAre
<1> QED BY <1>2, <1>3, <1>4, <1>5

(* The ports on which a broadcast is allowed are the two ends of every next hop. *)
LEMMA AllowedPorts ==
    ASSUME SpanPre
    PROVE  broadcastNodePorts =
             {<<n, NextOf(n)>> : n \in Members \ {Root}} \union
             {<<NextOf(n), n>> : n \in Members \ {Root}}
<1> DEFINE T == {nexthoplinks[n] : n \in Switch} \ {NoLink}
           D == Members \ {Root}
<1>1. T = {nexthoplinks[n] : n \in D}
    BY NextHops, MembersAre
<1>2. /\ \A l \in T : l.src \in D /\ l.dst = NextOf(l.src)
      /\ \A n \in D : \E l \in T : l.src = n /\ l.dst = NextOf(n)
    BY <1>1, NextHops DEF NextOf
<1> HIDE DEF T, D
<1>3. {<<l.src, l.dst>> : l \in T} = {<<n, NextOf(n)>> : n \in D}
    BY <1>2
<1>4. {<<l.dst, l.src>> : l \in T} = {<<NextOf(n), n>> : n \in D}
    BY <1>2
<1> QED BY <1>3, <1>4 DEF T, D, broadcastNodePorts, PortsOf, PortTo

(* A member of a set of members that nobody in the set is nearer to Root than. *)
LEMMA Nearest ==
    ASSUME SpanPre, NEW B \in SUBSET Members, B # {}
    PROVE  \E n \in B : \A m \in B : ~(cost[m] < cost[n])
<1> DEFINE R == OpToRel(<, Nat)
           K == {cost[n] : n \in B}
<1>1. IsWellFoundedOn(R, Nat)
    BY NatLessThanWellFounded
<1>2. \A x, y \in Nat : x < y => <<x, y>> \in R
    BY DEF OpToRel
<1>3. K \subseteq Nat /\ K # {}
    BY NextHops
<1> HIDE DEF R
<1>4. PICK x \in K : \A y \in K : ~(<<y, x>> \in R)
    BY <1>1, <1>3, WFMin
<1>5. PICK n \in B : cost[n] = x
    BY <1>4
<1>6. \A m \in B : ~(cost[m] < cost[n])
    BY <1>2, <1>3, <1>4, <1>5
<1> QED BY <1>6

(* A flood from any member reaches the members, and nobody else. *)
LEMMA FloodReaches == ASSUME SpanPre, NEW s \in Members PROVE FloodFrom(s) = Members
<1>1. FloodOver(Members)
    BY MembersAre DEF FloodOver
<1>2. FloodFrom(s) \subseteq Members
    BY <1>1, MembersAre DEF FloodFrom
<1>3. ASSUME NEW F \in SUBSET Switch, s \in F, FloodOver(F), NEW n \in Members \ {Root}
      PROVE  n \in F <=> NextOf(n) \in F
  <2>1. /\ nexthoplinks[n] \in links /\ nexthoplinks[n].src = n /\ NextOf(n) # n
        /\ nexthoplinks[n].dst = NextOf(n)
      BY NextHops DEF NextOf
  <2>2. BroadcastAllowed(PortTo(n, NextOf(n))) /\ BroadcastAllowed(PortTo(NextOf(n), n))
      BY AllowedPorts DEF BroadcastAllowed, PortTo
  <2> QED BY <1>3, <2>1, <2>2 DEF FloodOver
<1>4. ASSUME NEW F \in SUBSET Switch, s \in F, FloodOver(F) PROVE Members \subseteq F
  <2> DEFINE B == {n \in Members : ~(n \in F <=> Root \in F)}
  <2>1. B = {}
    <3> SUFFICES ASSUME B # {} PROVE FALSE
        OBVIOUS
    <3>1. PICK n \in B : \A m \in B : ~(cost[m] < cost[n])
        BY Nearest
    <3>2. n \in Members \ {Root}
        BY <3>1
    <3>3. NextOf(n) \in Members /\ NextOf(n) \notin B
        BY <3>1, <3>2, NextHops
    <3>4. n \in F <=> NextOf(n) \in F
        BY <3>2, <1>3, <1>4
    <3> QED BY <3>1, <3>3, <3>4
  <2>2. \A n \in Members : n \in F <=> Root \in F
      BY <2>1
  <2> QED BY <2>2, <1>4
<1>5. Members \subseteq FloodFrom(s)
    BY <1>4, MembersAre DEF FloodFrom
<1> QED BY <1>2, <1>5

(* No cable is the next hop of two switches: one of the two would be nearer to *)
(* Root than the other, and the other than the one.                            *)
LEMMA CableCount ==
    ASSUME SpanPre
    PROVE  Cardinality({{npt[1], npt[2]} : npt \in broadcastNodePorts}) = Cardinality(Members) - 1
<1> DEFINE D == Members \ {Root}
           cables == {{n, NextOf(n)} : n \in D}
           f == [n \in D |-> {n, NextOf(n)}]
<1>1. {{npt[1], npt[2]} : npt \in broadcastNodePorts} = cables
  <2> DEFINE A == {<<n, NextOf(n)>> : n \in D}
             Z == {<<NextOf(n), n>> : n \in D}
  <2>1. \A npt \in A \union Z : {npt[1], npt[2]} \in cables
      OBVIOUS
  <2>2. \A n \in D : <<n, NextOf(n)>> \in A /\ {<<n, NextOf(n)>>[1], <<n, NextOf(n)>>[2]} = {n, NextOf(n)}
      OBVIOUS
  <2>3. broadcastNodePorts = A \union Z
      BY AllowedPorts
  <2>4. \A c \in cables : \E npt \in A : {npt[1], npt[2]} = c
      BY <2>2
  <2> HIDE DEF A, Z, cables
  <2> QED BY <2>1, <2>3, <2>4
<1>2. ASSUME NEW n \in D, NEW m \in D, {n, NextOf(n)} = {m, NextOf(m)} PROVE n = m
  <2> SUFFICES ASSUME n # m PROVE FALSE
      OBVIOUS
  <2>1. NextOf(n) = m /\ NextOf(m) = n
      BY <1>2
  <2>2. cost[n] \in Nat /\ cost[m] \in Nat /\ cost[m] < cost[n] /\ cost[n] < cost[m]
      BY <2>1, NextHops
  <2> QED BY <2>2
<1>3. f \in Bijection(D, cables)
  <2>1. f \in [D -> cables]
      OBVIOUS
  <2>2. \A n, m \in D : f[n] = f[m] => n = m
      BY <1>2
  <2>3. \A c \in cables : \E n \in D : f[n] = c
      OBVIOUS
  <2> HIDE DEF f, cables, D
  <2> QED BY <2>1, <2>2, <2>3 DEF Bijection, Injection, Surjection, IsInjective
<1>4. IsFiniteSet(Members) /\ Root \in Members
    BY MembersAre, FS_Subset, InstanceAssumptions
<1>5. IsFiniteSet(D) /\ Cardinality(D) = Cardinality(Members) - 1
    BY <1>4, FS_RemoveElement
<1>6. Cardinality(cables) = Cardinality(D)
  <2>1. ExistsBijection(D, cables)
      BY <1>3 DEF ExistsBijection
  <2> HIDE DEF D, cables
  <2> QED BY <1>5, <2>1, FS_Bijection
<1> QED BY <1>1, <1>5, <1>6

(* For any switches and links, and weights too small for a path to reach the    *)
(* infinite distance: if all links were found in both directions, a broadcast    *)
(* from any switch of the cluster reaches every switch of it and no other, over  *)
(* one cable less than there are switches, so it is neither lost nor duplicated. *)
THEOREM BroadcastSpansHolds ==
    ASSUME NEW CONSTANT W, WeightsFit(W)
    PROVE  SysSpec => []BroadcastSpans
<1>1. SysInv /\ RouteInv /\ TreeInv(W) => BroadcastSpans
  <2> SUFFICES ASSUME SysInv, RouteInv, TreeInv(W), phase = "trees", pc = "tree", Bidirectional
               PROVE  /\ \A s \in Members : FloodFrom(s) = Members
                      /\ Cardinality({{npt[1], npt[2]} : npt \in broadcastNodePorts})
                           = Cardinality(Members) - 1
      BY DEF BroadcastSpans, Members
  <2>1. SpanPre
      BY DEF SpanPre, TreeInv
  <2> QED BY <2>1, FloodReaches, CableCount
<1>2. Init => TreeInv(W)
    BY TreeInit
<1>3. RouteInv /\ TreeInv(W) /\ [Next]_vars => TreeInv(W)'
    BY TreeInvStep
<1>4. SysInit => Init
    BY DEF SysInit
<1> QED BY <1>1, <1>2, <1>3, <1>4, RouteInit, RouteStep, SysInvInit, SysInvStep, SysRoute,
           PTL DEF SysSpec
=============================================================================
