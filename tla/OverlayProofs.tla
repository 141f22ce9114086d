--------------------------- MODULE OverlayProofs ---------------------------
(***************************************************************************)
(* Proofs about Overlay, for any nodes, networks, ports and VLANs.  First  *)
(* what the operators on one node (a site: its record and its bridge) do,  *)
(* then that every request keeps the invariants.                           *)
(***************************************************************************)
EXTENDS Overlay, TLAPS, WellFoundedInduction

SiteType == [node : NodeRecord, bridge : BridgeRecord \union {None}]

(* Every VLAN is in the pool, lost, or the VLAN of one network. *)
Pool(r, lost) ==
    /\ r.avail \union VlansOf(r) \union lost = Vlan
    /\ r.avail \intersect VlansOf(r) = {}
    /\ lost \intersect (r.avail \union VlansOf(r)) = {}
    /\ \A k, l \in Used(r) : r.vlan[k] = r.vlan[l] => k = l

(* The flood flow of a VLAN that the record implies. *)
FloodOf(r, v) ==
    IF v \in VlansOf(r) /\ r.ofports \notin {None, {}}
    THEN [net |-> NetOn(r, v), out |-> r.ofports] ELSE None

(* A site in the middle of a request: flood flows may be missing or out of date, *)
(* but only those that ofports_flow is about to write.                           *)
RawSite(s, lost) ==
    /\ s \in SiteType
    /\ Pool(s.node, lost)
    /\ Used(s.node) # {} => s.node.maps
    /\ s.bridge # None =>
          /\ s.bridge.toLv = s.node.vlan
          /\ \A v \in Vlan : v \notin VlansOf(s.node) \/ s.node.ofports = None
                                => s.bridge.flood[v] = None

(* A site between requests. *)
GoodSite(s, lost) ==
    /\ RawSite(s, lost)
    /\ s.bridge # None => \A v \in Vlan : s.bridge.flood[v] = FloodOf(s.node, v)

(* The VLANs of some networks, and what a map of VLANs is without them. *)
Gone(r, K) == {r.vlan[k] : k \in K}
Without(vlan, K) == [k \in Net |-> IF k \in K THEN None ELSE vlan[k]]

(* What most operators leave alone. *)
SameTunnels(s, r) ==
    /\ r.node.ofports = s.node.ofports
    /\ r.bridge = None <=> s.bridge = None
    /\ s.bridge # None => r.bridge.tunnels = s.bridge.tunnels
-----------------------------------------------------------------------------
(* A pool that is not empty has a lowest VLAN. *)
LEMMA LowestIn ==
    ASSUME NEW S \in SUBSET Vlan, S # {} PROVE Lowest(S) \in S
<1>1. S \subseteq Nat
    BY OverlayAssumptions
<1> DEFINE R == OpToRel(<, Nat)
<1>2. IsWellFoundedOn(R, Nat)
    BY NatLessThanWellFounded
<1>3. \A x, y \in Nat : x < y => <<x, y>> \in R
    BY DEF OpToRel
<1> HIDE DEF R
<1>4. PICK v \in S : \A w \in S : ~(<<w, v>> \in R)
    BY <1>1, <1>2, WFMin
<1>5. \A w \in S : v <= w
  <2> TAKE w \in S
  <2>1. v \in Nat /\ w \in Nat /\ ~(w < v)
    BY <1>1, <1>3, <1>4
  <2> QED BY <2>1
<1> QED BY <1>5 DEF Lowest

(* The fields of a site have their types. *)
LEMMA SiteFields ==
    ASSUME NEW s \in SiteType
    PROVE  /\ s.node \in NodeRecord
           /\ s.node.avail \in SUBSET Vlan /\ s.node.vlan \in [Net -> Vlan \union {None}]
           /\ s.node.maps \in BOOLEAN /\ s.node.ports \in SUBSET Port
           /\ s.node.ofports \in (SUBSET Node) \union {None}
           /\ s.bridge # None =>
                 /\ s.bridge \in BridgeRecord
                 /\ s.bridge.tunnels \in SUBSET Node
                 /\ s.bridge.toLv \in [Net -> Vlan \union {None}]
                 /\ s.bridge.flood \in [Vlan -> Flow \union {None}]
BY DEF SiteType, NodeRecord, BridgeRecord

(* The network of a VLAN is the one that uses it. *)
LEMMA NetOnIs ==
    ASSUME NEW r, NEW lost, Pool(r, lost), NEW k \in Used(r)
    PROVE  NetOn(r, r.vlan[k]) = k
BY DEF Pool, NetOn

(* A VLAN in use on a site is one of Vlan, and some network uses it.            *)
LEMMA VlanOfNet ==
    ASSUME NEW s \in SiteType, NEW v \in VlansOf(s.node)
    PROVE  v \in Vlan /\ \E k \in Used(s.node) : s.node.vlan[k] = v
BY SiteFields DEF VlansOf, Used

(* Release, spelt out. *)
LEMMA ReleaseIs ==
    ASSUME NEW s \in SiteType, NEW K \in SUBSET Used(s.node)
    PROVE  LET r == Release(s, K)
           IN  /\ r \in SiteType
               /\ r.node.vlan = Without(s.node.vlan, K)
               /\ r.node.avail = s.node.avail \union Gone(s.node, K)
               /\ r.node.maps = s.node.maps /\ r.node.ports = s.node.ports
               /\ SameTunnels(s, r)
               /\ r.bridge # None =>
                     /\ r.bridge.toLv = Without(s.bridge.toLv, K)
                     /\ \A v \in Vlan :
                          r.bridge.flood[v] = IF v \in Gone(s.node, K) THEN None
                                              ELSE s.bridge.flood[v]
<1> DEFINE gone == {s.node.vlan[k] : k \in K}
           V == [k \in Net |-> IF k \in K THEN None ELSE s.node.vlan[k]]
           A == s.node.avail \union gone
           node == [s.node EXCEPT !.vlan = V, !.avail = A]
           F == [v \in Vlan |-> IF v \in gone THEN None ELSE s.bridge.flood[v]]
           T == [k \in Net |-> IF k \in K THEN None ELSE s.bridge.toLv[k]]
           b == [s.bridge EXCEPT !.flood = F, !.toLv = T]
           c == IF s.bridge = None THEN None ELSE b
<1>1. Release(s, K) = [node |-> node, bridge |-> c]
    BY DEF Release, Flush
<1>2. V \in [Net -> Vlan \union {None}] /\ A \in SUBSET Vlan
    BY SiteFields DEF Used
<1>3. s.bridge # None => F \in [Vlan -> Flow \union {None}] /\ T \in [Net -> Vlan \union {None}]
    BY SiteFields
<1> HIDE DEF V, A, F, T
<1>4. /\ node \in NodeRecord /\ node.vlan = V /\ node.avail = A /\ node.maps = s.node.maps
      /\ node.ports = s.node.ports /\ node.ofports = s.node.ofports
    BY <1>2, SiteFields DEF NodeRecord
<1>5. s.bridge # None => /\ b \in BridgeRecord /\ b.flood = F /\ b.toLv = T
                         /\ b.tunnels = s.bridge.tunnels
    BY <1>3, SiteFields DEF BridgeRecord
<1> HIDE DEF node, b
<1>6. /\ c \in BridgeRecord \union {None} /\ (c = None <=> s.bridge = None)
      /\ s.bridge # None => c = b
    BY <1>5, OverlayAssumptions
<1> HIDE DEF c
<1>7. [node |-> node, bridge |-> c] \in SiteType
    BY <1>4, <1>6 DEF SiteType
<1> QED BY <1>1, <1>4, <1>5, <1>6, <1>7 DEF SameTunnels, V, A, F, T, Without, Gone

(* What is used after networks lost their VLANs. *)
LEMMA UsedLess ==
    ASSUME NEW s \in SiteType, NEW r \in SiteType, NEW K \in SUBSET Used(s.node), NEW lost,
           Pool(s.node, lost),
           r.node.vlan = Without(s.node.vlan, K)
    PROVE  /\ Used(r.node) = Used(s.node) \ K
           /\ VlansOf(r.node) = VlansOf(s.node) \ Gone(s.node, K)
           /\ \A v \in VlansOf(r.node) : NetOn(r.node, v) = NetOn(s.node, v)
<1>1. Used(r.node) = Used(s.node) \ K
    BY DEF Used, Without
<1>2. \A k \in Used(r.node) : r.node.vlan[k] = s.node.vlan[k]
    BY <1>1 DEF Used, Without
<1>3. \A k, l \in Used(s.node) : s.node.vlan[k] = s.node.vlan[l] => k = l
    BY DEF Pool
<1>4. VlansOf(r.node) = VlansOf(s.node) \ Gone(s.node, K)
    BY <1>1, <1>2, <1>3 DEF VlansOf, Gone
<1>5. ASSUME NEW v \in VlansOf(r.node) PROVE NetOn(r.node, v) = NetOn(s.node, v)
  <2>1. PICK k \in Used(r.node) : r.node.vlan[k] = v
    BY DEF VlansOf
  <2>2. NetOn(s.node, v) = k
    BY <1>1, <1>2, <2>1, NetOnIs
  <2>3. NetOn(r.node, v) = k
    BY <1>1, <1>2, <1>3, <2>1 DEF NetOn
  <2> QED BY <2>2, <2>3
<1> QED BY <1>1, <1>4, <1>5

(* A site that gives up VLANs stays good; one that gives up all of them becomes   *)
(* good, whatever flood flows it had.                                            *)
LEMMA ReleaseKeeps ==
    ASSUME NEW s, NEW lost, RawSite(s, lost), NEW K \in SUBSET Used(s.node)
    PROVE  LET r == Release(s, K)
           IN  /\ RawSite(r, lost) /\ SameTunnels(s, r)
               /\ GoodSite(s, lost) \/ K = Used(s.node) => GoodSite(r, lost)
               /\ r.node.maps = s.node.maps /\ r.node.ports = s.node.ports
               /\ r.node.vlan = Without(s.node.vlan, K)
               /\ Used(r.node) = Used(s.node) \ K
<1> DEFINE r == Release(s, K)
<1>1. s \in SiteType /\ Pool(s.node, lost)
    BY DEF RawSite
<1>2. /\ r \in SiteType
      /\ r.node.vlan = Without(s.node.vlan, K)
      /\ r.node.avail = s.node.avail \union Gone(s.node, K)
      /\ r.node.maps = s.node.maps /\ r.node.ports = s.node.ports
      /\ SameTunnels(s, r)
      /\ r.bridge # None =>
            /\ r.bridge.toLv = Without(s.bridge.toLv, K)
            /\ \A v \in Vlan :
                 r.bridge.flood[v] = IF v \in Gone(s.node, K) THEN None ELSE s.bridge.flood[v]
    BY <1>1, ReleaseIs
<1> HIDE DEF r
<1>3. /\ Used(r.node) = Used(s.node) \ K
      /\ VlansOf(r.node) = VlansOf(s.node) \ Gone(s.node, K)
      /\ \A v \in VlansOf(r.node) : NetOn(r.node, v) = NetOn(s.node, v)
    BY SMTT(40), <1>1, <1>2, UsedLess
<1>4. Gone(s.node, K) \subseteq VlansOf(s.node)
    BY DEF VlansOf, Gone
<1>5. Pool(r.node, lost)
  <2>1. \A k, l \in Used(r.node) : r.node.vlan[k] = r.node.vlan[l] => k = l
    BY <1>1, <1>2, <1>3 DEF Pool, Used, Without
  <2> QED BY <1>1, <1>2, <1>3, <1>4, <2>1 DEF Pool
<1>6. ASSUME r.bridge # None
      PROVE  /\ r.bridge.toLv = r.node.vlan
             /\ \A v \in Vlan : v \notin VlansOf(r.node) \/ r.node.ofports = None
                                   => r.bridge.flood[v] = None
  <2>1. /\ s.bridge # None /\ s.bridge.toLv = s.node.vlan
        /\ \A v \in Vlan : v \notin VlansOf(s.node) \/ s.node.ofports = None
                              => s.bridge.flood[v] = None
    BY <1>2, <1>6 DEF SameTunnels, RawSite
  <2> QED BY <1>2, <1>3, <1>6, <2>1 DEF SameTunnels
<1>7. RawSite(r, lost)
    BY <1>1, <1>2, <1>3, <1>5, <1>6 DEF RawSite
<1>8. ASSUME GoodSite(s, lost) PROVE GoodSite(r, lost)
  <2> SUFFICES ASSUME r.bridge # None, NEW v \in Vlan
               PROVE  r.bridge.flood[v] = FloodOf(r.node, v)
    BY <1>7 DEF GoodSite
  <2>1. s.bridge # None /\ s.bridge.flood[v] = FloodOf(s.node, v)
    BY <1>2, <1>8 DEF SameTunnels, GoodSite
  <2> QED BY <1>2, <1>3, <2>1 DEF FloodOf, SameTunnels
<1>9. ASSUME K = Used(s.node) PROVE GoodSite(r, lost)
  <2>1. VlansOf(r.node) = {}
    BY <1>3, <1>9 DEF VlansOf
  <2> QED BY <1>6, <1>7, <2>1 DEF GoodSite, FloodOf
<1> QED BY <1>2, <1>3, <1>7, <1>8, <1>9 DEF r
(* ofports_flow brings the flood flows of a site up to date.                     *)
LEMMA OfportsFlowKeeps ==
    ASSUME NEW s, NEW lost, RawSite(s, lost)
    PROVE  LET r == OfportsFlow(s)
           IN  /\ GoodSite(r, lost) /\ SameTunnels(s, r)
               /\ r.node.maps = s.node.maps /\ r.node.ports = s.node.ports
               /\ Used(r.node) \subseteq Used(s.node)
               /\ s.node.ofports # {} => r.node = s.node
<1> DEFINE r == OfportsFlow(s)
<1>1. s \in SiteType /\ Pool(s.node, lost)
    BY DEF RawSite
<1>2. CASE s.node.ofports = None
  <2>1. r = s
    <3>1. s.node.ofports # {}
      BY <1>2, OverlayAssumptions
    <3> QED BY <1>2, <3>1 DEF OfportsFlow
  <2>2. \A v \in Vlan : FloodOf(s.node, v) = None
    BY <1>2 DEF FloodOf
  <2> HIDE DEF r
  <2> QED BY <1>2, <2>1, <2>2 DEF GoodSite, RawSite, SameTunnels, r
<1>3. CASE s.node.ofports = {}
  <2>1. {} # None
    BY OverlayAssumptions
  <2>2. r = Release(s, Used(s.node))
    BY <1>3, <2>1 DEF OfportsFlow
  <2> HIDE DEF r
  <2> QED BY <1>3, <2>2, ReleaseKeeps DEF r
<1>4. CASE s.node.ofports \notin {None, {}}
  <2> DEFINE F == [v \in Vlan |-> IF v \in VlansOf(s.node)
                                  THEN [net |-> NetOn(s.node, v), out |-> s.node.ofports]
                                  ELSE s.bridge.flood[v]]
             b == [s.bridge EXCEPT !.flood = F]
             c == IF s.bridge = None THEN None ELSE b
  <2>1. OfportsFlow(s) = [node |-> s.node, bridge |-> c]
    <3>1. ~(s.node.ofports = None) /\ ~(s.node.ofports = {})
      BY <1>4
    <3> QED BY <3>1 DEF OfportsFlow
  <2>2. ASSUME s.bridge # None PROVE F \in [Vlan -> Flow \union {None}]
    <3>1. \A v \in VlansOf(s.node) : NetOn(s.node, v) \in Net
      BY <1>1, VlanOfNet, NetOnIs DEF Used
    <3>2. s.node.ofports \in SUBSET Node
      BY <1>1, <1>4, SiteFields
    <3>3. \A v \in VlansOf(s.node) : [net |-> NetOn(s.node, v), out |-> s.node.ofports] \in Flow
      BY <3>1, <3>2 DEF Flow
    <3>4. s.bridge.flood \in [Vlan -> Flow \union {None}]
      BY <1>1, <2>2, SiteFields
    <3> QED BY <3>3, <3>4
  <2>3. \A v \in Vlan : F[v] = IF v \in VlansOf(s.node)
                               THEN [net |-> NetOn(s.node, v), out |-> s.node.ofports]
                               ELSE s.bridge.flood[v]
    OBVIOUS
  <2> HIDE DEF F
  <2>4. s.bridge # None => /\ b \in BridgeRecord /\ b.flood = F
                           /\ b.toLv = s.bridge.toLv /\ b.tunnels = s.bridge.tunnels
    BY <1>1, <2>2, SiteFields DEF BridgeRecord
  <2> HIDE DEF b
  <2>5. /\ c \in BridgeRecord \union {None} /\ (c = None <=> s.bridge = None)
        /\ s.bridge # None => c = b
    BY <2>4, OverlayAssumptions
  <2> HIDE DEF c
  <2>6. r \in SiteType /\ r.node = s.node /\ r.bridge = c
    BY <1>1, <2>1, <2>5 DEF SiteType
  <2> HIDE DEF r
  <2>7. ASSUME s.bridge # None, NEW v \in Vlan PROVE b.flood[v] = FloodOf(s.node, v)
    BY <1>4, <2>3, <2>4, <2>7 DEF FloodOf, RawSite
  <2>8. RawSite(r, lost)
    BY <2>4, <2>5, <2>6, <2>7 DEF RawSite, FloodOf
  <2>9. GoodSite(r, lost)
    BY <2>5, <2>6, <2>7, <2>8 DEF GoodSite
  <2>10. SameTunnels(s, r)
    BY <2>4, <2>5, <2>6 DEF SameTunnels
  <2> QED BY <2>6, <2>9, <2>10 DEF r
<1> QED BY <1>2, <1>3, <1>4

(* A network without a VLAN takes one from a pool that is not empty.             *)
LEMMA AllocateKeeps ==
    ASSUME NEW s, NEW lost, RawSite(s, lost), NEW k \in Net \ Used(s.node),
           s.node.avail # {}
    PROVE  LET r == Allocate(s, k)
           IN  /\ RawSite(r, lost) /\ SameTunnels(s, r)
               /\ r.node.maps /\ r.node.ports = s.node.ports
               /\ Used(r.node) = Used(s.node) \union {k}
               /\ \A l \in Net \ {k} : r.node.vlan[l] = s.node.vlan[l]
<1> DEFINE r == Allocate(s, k)
           w == Lowest(s.node.avail)
           A == s.node.avail \ {w}
           V == [s.node.vlan EXCEPT ![k] = w]
           T == [s.bridge.toLv EXCEPT ![k] = w]
           node == [s.node EXCEPT !.avail = A, !.vlan = V, !.maps = TRUE]
           node2 == [s.node EXCEPT !.avail = A, !.vlan[k] = w, !.maps = TRUE]
           b == [s.bridge EXCEPT !.toLv = T]
           b2 == [s.bridge EXCEPT !.toLv[k] = w]
           c == IF s.bridge = None THEN None ELSE b
<1>1. s \in SiteType /\ Pool(s.node, lost)
    BY DEF RawSite
<1>2. w \in s.node.avail /\ w \in Vlan
    BY <1>1, SiteFields, LowestIn
<1>3. Allocate(s, k) = [node |-> node2, bridge |-> IF s.bridge = None THEN None ELSE b2]
    BY DEF Allocate
<1> HIDE DEF w
<1>4. node2 = node
    OBVIOUS
<1>5. b2 = b
    OBVIOUS
<1>6. r = [node |-> node, bridge |-> c]
    BY <1>3, <1>4, <1>5
<1> HIDE DEF node2, b2, r
<1>7. /\ V \in [Net -> Vlan \union {None}] /\ V[k] = w
      /\ \A l \in Net \ {k} : V[l] = s.node.vlan[l]
    BY <1>1, <1>2, SiteFields
<1>8. A \in SUBSET Vlan
    BY <1>1, SiteFields
<1>9. s.bridge # None => T \in [Net -> Vlan \union {None}]
    BY <1>1, <1>2, SiteFields
<1>10. s.bridge # None => T = V
    BY DEF RawSite
<1> HIDE DEF V, T
<1>11. /\ node \in NodeRecord /\ node.vlan = V /\ node.avail = A /\ node.maps = TRUE
       /\ node.ports = s.node.ports /\ node.ofports = s.node.ofports
  <2> HIDE DEF A
  <2> QED BY <1>1, <1>7, <1>8, SiteFields DEF NodeRecord
<1>12. s.bridge # None => /\ b \in BridgeRecord /\ b.toLv = T
                          /\ b.flood = s.bridge.flood /\ b.tunnels = s.bridge.tunnels
    BY <1>1, <1>9, SiteFields DEF BridgeRecord
<1> HIDE DEF node, b
<1>13. /\ c \in BridgeRecord \union {None} /\ (c = None <=> s.bridge = None)
       /\ s.bridge # None => c = b
    BY <1>12, OverlayAssumptions
<1> HIDE DEF c
<1>14. r \in SiteType /\ r.node = node /\ r.bridge = c
    BY <1>6, <1>11, <1>13 DEF SiteType
<1>15. w # None /\ s.node.vlan[k] = None
    BY <1>2, OverlayAssumptions DEF Used
<1>16. Used(r.node) = Used(s.node) \union {k}
    BY <1>7, <1>11, <1>14, <1>15 DEF Used
<1>17. VlansOf(r.node) = VlansOf(s.node) \union {w}
    BY <1>7, <1>11, <1>14, <1>15, <1>16 DEF VlansOf, Used
<1>18. w \notin VlansOf(s.node)
    BY <1>1, <1>2 DEF Pool
<1>19. \A i, j \in Used(r.node) : r.node.vlan[i] = r.node.vlan[j] => i = j
  <2>1. \A i \in Used(s.node) : i # k /\ r.node.vlan[i] = s.node.vlan[i]
                                /\ r.node.vlan[i] # w
    BY <1>7, <1>11, <1>14, <1>15, <1>18 DEF VlansOf, Used
  <2>2. r.node.vlan[k] = w
    BY <1>7, <1>11, <1>14
  <2> QED BY <1>1, <1>16, <2>1, <2>2 DEF Pool
<1>20. Pool(r.node, lost)
    BY <1>1, <1>2, <1>11, <1>14, <1>17, <1>18, <1>19 DEF Pool
<1>21. RawSite(r, lost)
    BY <1>10, <1>11, <1>12, <1>13, <1>14, <1>17, <1>20 DEF RawSite
<1>22. SameTunnels(s, r)
    BY <1>11, <1>12, <1>13, <1>14 DEF SameTunnels
<1> QED BY <1>7, <1>11, <1>14, <1>16, <1>21, <1>22 DEF r
(* What is said of the VLANs of a record depends on its vlan only.               *)
LEMMA SameVlans ==
    ASSUME NEW r, NEW s, r.vlan = s.vlan
    PROVE  /\ Used(r) = Used(s) /\ VlansOf(r) = VlansOf(s)
           /\ \A v : NetOn(r, v) = NetOn(s, v)
           /\ r.ofports = s.ofports => \A v : FloodOf(r, v) = FloodOf(s, v)
<1>1. Used(r) = Used(s)
    BY DEF Used
<1>2. VlansOf(r) = VlansOf(s)
    BY <1>1 DEF VlansOf
<1>3. ASSUME NEW v PROVE NetOn(r, v) = NetOn(s, v)
    BY <1>1 DEF NetOn
<1> QED BY <1>1, <1>2, <1>3 DEF FloodOf

(* A site with other ports, and one with other tunnels.                          *)
WithPorts(s, P) == [node |-> [s.node EXCEPT !.ports = P], bridge |-> s.bridge]
WithTunnels(s, O, T) ==
    [node |-> [s.node EXCEPT !.ofports = O],
     bridge |-> IF s.bridge = None THEN None ELSE [s.bridge EXCEPT !.tunnels = T]]

(* Ports come and go without a trace elsewhere.                                  *)
LEMMA PortsOnly ==
    ASSUME NEW s, NEW lost, RawSite(s, lost), NEW P \in SUBSET Port, NEW r,
           r = WithPorts(s, P)
    PROVE  /\ RawSite(r, lost) /\ (GoodSite(s, lost) => GoodSite(r, lost))
           /\ SameTunnels(s, r) /\ r.node.ports = P
           /\ r.node.avail = s.node.avail /\ r.node.vlan = s.node.vlan
           /\ r.node.maps = s.node.maps /\ Used(r.node) = Used(s.node)
<1>1. s \in SiteType /\ Pool(s.node, lost)
    BY DEF RawSite
<1> DEFINE node == [s.node EXCEPT !.ports = P]
<1>2. /\ node \in NodeRecord /\ node.vlan = s.node.vlan /\ node.avail = s.node.avail
      /\ node.maps = s.node.maps /\ node.ports = P /\ node.ofports = s.node.ofports
    BY <1>1, SiteFields DEF NodeRecord
<1> HIDE DEF node
<1>3. r \in SiteType /\ r.node = node /\ r.bridge = s.bridge
    BY <1>1, <1>2, SiteFields DEF SiteType, node, WithPorts
<1>4. /\ Used(r.node) = Used(s.node) /\ VlansOf(r.node) = VlansOf(s.node)
      /\ \A v : FloodOf(r.node, v) = FloodOf(s.node, v)
    BY <1>2, <1>3, SameVlans
<1>5. Pool(r.node, lost)
    BY <1>1, <1>2, <1>3, <1>4 DEF Pool
<1>6. RawSite(r, lost)
    BY <1>2, <1>3, <1>4, <1>5 DEF RawSite
<1>7. GoodSite(s, lost) => GoodSite(r, lost)
    BY <1>3, <1>4, <1>6 DEF GoodSite
<1> QED BY <1>2, <1>3, <1>4, <1>6, <1>7 DEF SameTunnels

(* A port recorded on a node (addPort) joins its ports, and nothing else moves. *)
LEMMA AddPortIs ==
    ASSUME NEW s \in SiteType, NEW p \in Port
    PROVE  /\ AddPort(s, p) = WithPorts(s, s.node.ports \union {p})
           /\ s.node.ports \union {p} \in SUBSET Port
<1>1. s = [node |-> s.node, bridge |-> s.bridge]
    BY DEF SiteType
<1>2. s.node.ports \in SUBSET Port
    BY SiteFields
<1>3. \A P : [s EXCEPT !.node.ports = P] = [s EXCEPT !.node = [s.node EXCEPT !.ports = P]]
    OBVIOUS
<1>4. \A N : [s EXCEPT !.node = N] = [node |-> N, bridge |-> s.bridge]
    BY <1>1
<1> QED BY <1>2, <1>3, <1>4 DEF AddPort, WithPorts

(* A port removed from a node leaves its ports, and nothing else moves.         *)
LEMMA RemovePortIs ==
    ASSUME NEW s \in SiteType, NEW p \in Port
    PROVE  /\ RemovePort(s, p) = WithPorts(s, s.node.ports \ {p})
           /\ s.node.ports \ {p} \in SUBSET Port
<1>1. s = [node |-> s.node, bridge |-> s.bridge]
    BY DEF SiteType
<1>2. s.node.ports \in SUBSET Port
    BY SiteFields
<1>3. \A P : [s EXCEPT !.node.ports = P] = [s EXCEPT !.node = [s.node EXCEPT !.ports = P]]
    OBVIOUS
<1>4. \A N : [s EXCEPT !.node = N] = [node |-> N, bridge |-> s.bridge]
    BY <1>1
<1> QED BY <1>2, <1>3, <1>4 DEF RemovePort, WithPorts

(* The tunnels a record and its bridge may be given, before ofports_flow: only   *)
(* the flood flows may be out of date then.                                      *)
LEMMA TunnelsOnly ==
    ASSUME NEW s, NEW lost, GoodSite(s, lost), NEW O \in (SUBSET Node) \union {None},
           NEW T \in SUBSET Node, O = None => s.node.ofports = None, NEW r,
           r = WithTunnels(s, O, T)
    PROVE  /\ RawSite(r, lost)
           /\ r.node.ofports = O /\ r.node.ports = s.node.ports
           /\ r.node.maps = s.node.maps /\ r.node.vlan = s.node.vlan
           /\ (r.bridge = None <=> s.bridge = None)
           /\ s.bridge # None => r.bridge.tunnels = T
           /\ Used(r.node) = Used(s.node)
<1>1. s \in SiteType /\ Pool(s.node, lost)
    BY DEF GoodSite, RawSite
<1> DEFINE node == [s.node EXCEPT !.ofports = O]
           b == [s.bridge EXCEPT !.tunnels = T]
           c == IF s.bridge = None THEN None ELSE b
<1>2. /\ node \in NodeRecord /\ node.vlan = s.node.vlan /\ node.avail = s.node.avail
      /\ node.maps = s.node.maps /\ node.ports = s.node.ports /\ node.ofports = O
    BY <1>1, SiteFields DEF NodeRecord
<1>3. s.bridge # None => /\ b \in BridgeRecord /\ b.toLv = s.bridge.toLv
                         /\ b.flood = s.bridge.flood /\ b.tunnels = T
    BY <1>1, SiteFields DEF BridgeRecord
<1> HIDE DEF node, b
<1>4. /\ c \in BridgeRecord \union {None} /\ (c = None <=> s.bridge = None)
      /\ s.bridge # None => c = b
    BY <1>3, OverlayAssumptions
<1>5. r = [node |-> node, bridge |-> c]
    BY DEF node, b, WithTunnels
<1> HIDE DEF c
<1>6. r \in SiteType /\ r.node = node /\ r.bridge = c
    BY <1>2, <1>4, <1>5 DEF SiteType
<1>7. Used(r.node) = Used(s.node) /\ VlansOf(r.node) = VlansOf(s.node)
    BY <1>2, <1>6, SameVlans
<1>8. Pool(r.node, lost)
    BY <1>1, <1>2, <1>6, <1>7 DEF Pool
<1>9. ASSUME s.bridge # None, NEW v \in Vlan, v \notin VlansOf(r.node) \/ O = None
      PROVE  b.flood[v] = None
    BY <1>3, <1>7, <1>9 DEF GoodSite, RawSite
<1>10. RawSite(r, lost)
  <2>1. Used(r.node) # {} => r.node.maps
    BY <1>2, <1>6, <1>7 DEF GoodSite, RawSite
  <2>2. r.bridge # None => r.bridge.toLv = r.node.vlan
    BY <1>2, <1>3, <1>4, <1>6 DEF GoodSite, RawSite
  <2> QED BY <1>2, <1>4, <1>6, <1>8, <1>9, <2>1, <2>2 DEF RawSite
<1> QED BY <1>2, <1>3, <1>4, <1>6, <1>7, <1>10

(* setup_tunnel_port, if the agent answers, gives one more tunnel.               *)
LEMMA SetupKeeps ==
    ASSUME NEW s, NEW lost, GoodSite(s, lost), NEW peer \in Node
    PROVE  LET r == SetupTunnelPort(s, peer, TRUE)
           IN  /\ GoodSite(r, lost)
               /\ r.node.ofports = (IF s.node.ofports = None THEN {} ELSE s.node.ofports)
                                     \union {peer}
               /\ r.node.vlan = s.node.vlan /\ r.node.maps = s.node.maps
               /\ r.node.ports = s.node.ports /\ Used(r.node) = Used(s.node)
               /\ (r.bridge = None <=> s.bridge = None)
               /\ s.bridge # None => r.bridge.tunnels = s.bridge.tunnels \union {peer}
<1> DEFINE O == (IF s.node.ofports = None THEN {} ELSE s.node.ofports) \union {peer}
           T == IF s.bridge = None THEN {} ELSE s.bridge.tunnels \union {peer}
           i == WithTunnels(s, O, T)
           r == SetupTunnelPort(s, peer, TRUE)
<1>1. s \in SiteType
    BY DEF GoodSite, RawSite
<1>2. O \in SUBSET Node /\ O # {}
    BY <1>1, SiteFields
<1>3. T \in SUBSET Node /\ (s.bridge # None => T = s.bridge.tunnels \union {peer})
    BY <1>1, SiteFields
<1>4. SetupTunnelPort(s, peer, TRUE) = OfportsFlow(i)
    BY DEF SetupTunnelPort, WithTunnels
<1>5. O # None
    BY <1>2, OverlayAssumptions
<1> HIDE DEF O, T
<1>6. /\ RawSite(i, lost)
      /\ i.node.ofports = O /\ i.node.ports = s.node.ports
      /\ i.node.maps = s.node.maps /\ i.node.vlan = s.node.vlan
      /\ (i.bridge = None <=> s.bridge = None)
      /\ s.bridge # None => i.bridge.tunnels = T
      /\ Used(i.node) = Used(s.node)
    BY <1>2, <1>3, <1>5, TunnelsOnly
<1> HIDE DEF i, r
<1>7. GoodSite(r, lost) /\ SameTunnels(i, r) /\ r.node = i.node
    BY <1>2, <1>4, <1>6, OfportsFlowKeeps DEF r
<1> QED BY <1>3, <1>6, <1>7 DEF r, O, SameTunnels

(* deldestPort takes a tunnel; a node that loses its last one gives up its VLANs. *)
LEMMA DropKeeps ==
    ASSUME NEW s, NEW lost, GoodSite(s, lost), NEW peer \in Node
    PROVE  LET r == DropTunnel(s, peer)
           IN  /\ GoodSite(r, lost)
               /\ r.node.ofports = IF s.node.ofports = None THEN None
                                   ELSE s.node.ofports \ {peer}
               /\ r.node.ofports # {} => r.node.vlan = s.node.vlan
               /\ r.node.maps = s.node.maps
               /\ r.node.ports = s.node.ports /\ Used(r.node) \subseteq Used(s.node)
               /\ (r.bridge = None <=> s.bridge = None)
               /\ s.bridge # None => r.bridge.tunnels = s.bridge.tunnels \ {peer}
<1> DEFINE O == IF s.node.ofports = None THEN None ELSE s.node.ofports \ {peer}
           T == IF s.bridge = None THEN {} ELSE s.bridge.tunnels \ {peer}
           i == WithTunnels(s, O, T)
           r == DropTunnel(s, peer)
<1>1. s \in SiteType
    BY DEF GoodSite, RawSite
<1>2. O \in (SUBSET Node) \union {None} /\ (O = None => s.node.ofports = None)
    BY <1>1, SiteFields, OverlayAssumptions
<1>3. T \in SUBSET Node /\ (s.bridge # None => T = s.bridge.tunnels \ {peer})
    BY <1>1, SiteFields
<1>4. DropTunnel(s, peer) = OfportsFlow(i)
    BY DEF DropTunnel, WithTunnels
<1> HIDE DEF O, T
<1>5. /\ RawSite(i, lost)
      /\ i.node.ofports = O /\ i.node.ports = s.node.ports
      /\ i.node.maps = s.node.maps /\ i.node.vlan = s.node.vlan
      /\ (i.bridge = None <=> s.bridge = None)
      /\ s.bridge # None => i.bridge.tunnels = T
      /\ Used(i.node) = Used(s.node)
    BY <1>2, <1>3, TunnelsOnly
<1> HIDE DEF i, r
<1>6. /\ GoodSite(r, lost) /\ SameTunnels(i, r) /\ r.node.ofports = O
      /\ r.node.maps = i.node.maps /\ r.node.ports = i.node.ports
      /\ Used(r.node) \subseteq Used(i.node)
      /\ O # {} => r.node = i.node
    BY <1>4, <1>5, OfportsFlowKeeps DEF r, SameTunnels
<1> QED BY <1>3, <1>5, <1>6 DEF r, O, SameTunnels
(* A site with another pool, and the record of a new node.                       *)
WithAvail(s, A) == [node |-> [s.node EXCEPT !.avail = A], bridge |-> s.bridge]
NewNodeWith(O) == [NewNode EXCEPT !.ofports = O]

(* A VLAN that an exception takes out of the pool is lost.                       *)
LEMMA LeakKeeps ==
    ASSUME NEW s, NEW lost, GoodSite(s, lost), s.node.avail # {}, NEW r,
           r = WithAvail(s, s.node.avail \ {Lowest(s.node.avail)})
    PROVE  /\ GoodSite(r, lost \union {Lowest(s.node.avail)})
           /\ Lowest(s.node.avail) \in Vlan
           /\ SameTunnels(s, r)
           /\ r.node.maps = s.node.maps /\ r.node.ports = s.node.ports
           /\ r.node.vlan = s.node.vlan /\ Used(r.node) = Used(s.node)
<1>1. s \in SiteType /\ Pool(s.node, lost) /\ RawSite(s, lost)
    BY DEF GoodSite, RawSite
<1> DEFINE w == Lowest(s.node.avail)
           A == s.node.avail \ {w}
           node == [s.node EXCEPT !.avail = A]
<1>2. w \in s.node.avail /\ w \in Vlan
    BY <1>1, SiteFields, LowestIn
<1> HIDE DEF w
<1>3. A \in SUBSET Vlan
    BY <1>1, SiteFields
<1>4. r = [node |-> node, bridge |-> s.bridge]
    BY DEF w, WithAvail
<1>5. /\ node \in NodeRecord /\ node.vlan = s.node.vlan /\ node.avail = s.node.avail \ {w}
      /\ node.maps = s.node.maps /\ node.ports = s.node.ports
      /\ node.ofports = s.node.ofports
  <2>1. /\ node \in NodeRecord /\ node.vlan = s.node.vlan /\ node.avail = A
        /\ node.maps = s.node.maps /\ node.ports = s.node.ports
        /\ node.ofports = s.node.ofports
    <3> HIDE DEF A
    <3> QED BY <1>1, <1>3, SiteFields DEF NodeRecord
  <2> QED BY <2>1
<1> HIDE DEF node, A
<1>6. r \in SiteType /\ r.node = node /\ r.bridge = s.bridge
  <2>1. s.bridge \in BridgeRecord \union {None}
    BY <1>1 DEF SiteType
  <2> QED BY <1>4, <1>5, <2>1 DEF SiteType
<1>7. /\ Used(r.node) = Used(s.node) /\ VlansOf(r.node) = VlansOf(s.node)
      /\ \A v : FloodOf(r.node, v) = FloodOf(s.node, v)
    BY <1>5, <1>6, SameVlans
<1>8. Pool(r.node, lost \union {w})
    BY SMTT(40), <1>1, <1>2, <1>5, <1>6, <1>7 DEF Pool
<1>9. RawSite(r, lost \union {w})
    BY <1>1, <1>5, <1>6, <1>7, <1>8 DEF RawSite
<1>10. GoodSite(r, lost \union {w})
    BY <1>6, <1>7, <1>9 DEF GoodSite
<1> QED BY <1>2, <1>5, <1>6, <1>7, <1>10 DEF SameTunnels, w

(* Flushing the flows of a network without a VLAN changes nothing.               *)
LEMMA FlushKeeps ==
    ASSUME NEW s, NEW lost, GoodSite(s, lost), NEW k \in Net, s.node.vlan[k] = None, NEW r,
           r = [s EXCEPT !.bridge = Flush(@, {k}, {})]
    PROVE  GoodSite(r, lost) /\ SameTunnels(s, r) /\ r.node = s.node
<1>1. s \in SiteType /\ RawSite(s, lost)
    BY DEF GoodSite, RawSite
<1> DEFINE F == [v \in Vlan |-> IF v \in {} THEN None ELSE s.bridge.flood[v]]
           T == [l \in Net |-> IF l \in {k} THEN None ELSE s.bridge.toLv[l]]
           b == [s.bridge EXCEPT !.flood = F, !.toLv = T]
           c == IF s.bridge = None THEN None ELSE b
<1>2. s.bridge # None => F = s.bridge.flood
    BY <1>1, SiteFields
<1>3. s.bridge # None => T = s.bridge.toLv
  <2>1. s.bridge # None => s.bridge.toLv \in [Net -> Vlan \union {None}] /\ s.bridge.toLv[k] = None
    BY <1>1, SiteFields DEF RawSite
  <2> QED BY <2>1
<1>4. Flush(s.bridge, {k}, {}) = c
    BY DEF Flush
<1> HIDE DEF F, T
<1>5. s.bridge # None => b = s.bridge
    BY <1>1, <1>2, <1>3, SiteFields DEF BridgeRecord
<1>6. r = s
  <2>1. Flush(s.bridge, {k}, {}) = s.bridge
    BY <1>4, <1>5
  <2>2. s = [node |-> s.node, bridge |-> s.bridge]
    BY <1>1 DEF SiteType
  <2>3. r = [s EXCEPT !.bridge = s.bridge]
    BY <2>1
  <2> QED BY <2>2, <2>3
<1> QED BY <1>6 DEF SameTunnels

(* Nothing is known any more of a bridge.                                        *)
LEMMA Forgotten ==
    ASSUME NEW s, NEW lost, GoodSite(s, lost)
    PROVE  GoodSite([node |-> s.node, bridge |-> None], lost)
BY SiteFields DEF GoodSite, RawSite, SiteType

(* The record of a new node, whatever tunnels it starts with.                    *)
LEMMA NewNodeIs ==
    ASSUME NEW O \in (SUBSET Node) \union {None}, NEW node,
           node = NewNodeWith(O)
    PROVE  /\ node \in NodeRecord
           /\ node.avail = Vlan /\ node.vlan = NoVlans /\ node.maps = FALSE
           /\ node.ports = {} /\ node.ofports = O
           /\ Used(node) = {} /\ VlansOf(node) = {} /\ Pool(node, {})
<1>1. NoVlans \in [Net -> Vlan \union {None}]
    BY DEF NoVlans
<1>2. /\ node = [avail |-> Vlan, vlan |-> NoVlans, maps |-> FALSE, ports |-> {}, ofports |-> O]
    BY DEF NewNode, NewNodeWith
<1>3. /\ node \in NodeRecord
      /\ node.avail = Vlan /\ node.vlan = NoVlans /\ node.maps = FALSE
      /\ node.ports = {} /\ node.ofports = O
  <2>1. FALSE \in BOOLEAN /\ {} \in SUBSET Port /\ Vlan \in SUBSET Vlan
    OBVIOUS
  <2> QED BY <1>1, <1>2, <2>1 DEF NodeRecord
<1>4. Used(node) = {}
    BY <1>3 DEF Used, NoVlans
<1>5. VlansOf(node) = {}
    BY <1>4 DEF VlansOf
<1> QED BY <1>3, <1>4, <1>5 DEF Pool

(* addTunnel makes a good site of a new node.                                    *)
LEMMA JoinIs ==
    ASSUME NEW n \in Node
    PROVE  LET r == Join(n)
           IN  /\ GoodSite(r, {}) /\ r.node # None
               /\ r.node.ports = {} /\ Used(r.node) = {}
               /\ r.node.ofports = IF Known = {} THEN None ELSE Known
               /\ r.bridge # None => r.bridge.tunnels = Known
<1> DEFINE O == IF Known = {} THEN None ELSE Known
           node == NewNodeWith(O)
           b == [NewBridge EXCEPT !.tunnels = Known]
           c == IF n \in fresh /\ \A p \in Port : Host[p] = n => tagging[p] = Idle
                THEN b ELSE None
           r == Join(n)
<1>1. Join(n) = [node |-> node, bridge |-> c]
    BY DEF Join, NewNodeWith
<1>2. Known \in SUBSET Node
    BY DEF Known
<1>3. O \in (SUBSET Node) \union {None}
    BY <1>2
<1> HIDE DEF O
<1>4. /\ node \in NodeRecord /\ node.vlan = NoVlans /\ node.ports = {} /\ node.ofports = O
      /\ Used(node) = {} /\ VlansOf(node) = {} /\ Pool(node, {})
    BY <1>3, NewNodeIs
<1>5. b = [tunnels |-> Known, flood |-> NoFlows, toLv |-> NoVlans]
    BY DEF NewBridge
<1>6. /\ b \in BridgeRecord /\ b.tunnels = Known /\ b.flood = NoFlows /\ b.toLv = NoVlans
  <2>1. NoVlans \in [Net -> Vlan \union {None}] /\ NoFlows \in [Vlan -> Flow \union {None}]
    BY DEF NoVlans, NoFlows
  <2> QED BY <1>2, <1>5, <2>1 DEF BridgeRecord
<1> HIDE DEF node, b
<1>7. c \in {b, None}
    OBVIOUS
<1> HIDE DEF c
<1>8. r \in SiteType /\ r.node = node /\ r.bridge = c
    BY <1>1, <1>4, <1>6, <1>7 DEF SiteType
<1>9. RawSite(r, {})
    BY <1>4, <1>6, <1>7, <1>8 DEF RawSite, NoFlows
<1>10. GoodSite(r, {})
    BY <1>4, <1>6, <1>7, <1>8, <1>9 DEF GoodSite, FloodOf, NoFlows
<1> QED BY <1>4, <1>6, <1>7, <1>8, <1>10, OverlayAssumptions DEF r, O
-----------------------------------------------------------------------------
(* The first part of the invariant: every node the controller knows is a good    *)
(* site, and no VLAN is given to a network that is not known.                    *)
SiteGood(n) == IF nodes[n] = None THEN bridge[n] = None /\ leaked[n] = {}
               ELSE GoodSite(Site(n), leaked[n])
SitesGood == \A n \in Node : SiteGood(n)
NetsKnown == \A n \in Known : Used(nodes[n]) \subseteq nets
PoolInv == TypeOK /\ SitesGood /\ NetsKnown

(* What becomes of a site in a step: nothing, or it is served a request.         *)
After(n) == [node |-> nodes'[n], bridge |-> bridge'[n]]
NotServed(n) == nodes'[n] = nodes[n] /\ bridge'[n] = bridge[n] /\ leaked'[n] = leaked[n]
Served(n) ==
    /\ nodes[n] # None /\ nodes'[n] # None
    /\ GoodSite(After(n), leaked'[n]) /\ SameTunnels(Site(n), After(n))
    /\ nodes[n].maps => nodes'[n].maps
Mapped == nodes' = [n \in Node |-> nodes'[n]] /\ bridge' = [n \in Node |-> bridge'[n]]

(* A known node is a site, and a good one.                                      *)
LEMMA SiteOf ==
    ASSUME PoolInv, NEW n \in Known
    PROVE  /\ n \in Node /\ nodes[n] # None
           /\ Site(n) \in SiteType /\ Site(n).node = nodes[n] /\ Site(n).bridge = bridge[n]
           /\ GoodSite(Site(n), leaked[n]) /\ RawSite(Site(n), leaked[n])
           /\ Used(nodes[n]) \subseteq nets
BY DEF PoolInv, SitesGood, SiteGood, NetsKnown, Known, Site, GoodSite, RawSite

(* What the effect of a request is on one node.                                 *)
LEMMA EffectAt ==
    ASSUME NEW sites, Effect(sites)
    PROVE  /\ Mapped
           /\ \A n \in Node :
                 /\ n \in DOMAIN sites => nodes'[n] = sites[n].node /\ bridge'[n] = sites[n].bridge
                 /\ n \notin DOMAIN sites => nodes'[n] = nodes[n] /\ bridge'[n] = bridge[n]
BY DEF Effect, Mapped

(* A request for no node leaves every node alone.                               *)
LEMMA NowhereIs ==
    ASSUME PoolInv, Nowhere
    PROVE  Mapped /\ \A n \in Node : nodes'[n] = nodes[n] /\ bridge'[n] = bridge[n]
BY DEF PoolInv, TypeOK, Nowhere, Mapped

(* A node that is served ends as the site the request computed.                  *)
LEMMA ServedBy ==
    ASSUME PoolInv, NEW n \in Known, NEW r, GoodSite(r, leaked'[n]), SameTunnels(Site(n), r),
           nodes[n].maps => r.node.maps, nodes'[n] = r.node, bridge'[n] = r.bridge
    PROVE  Served(n) /\ After(n) = r
<1>1. r \in SiteType
    BY DEF GoodSite, RawSite
<1>2. After(n) = r
    BY <1>1 DEF After, SiteType
<1>3. r.node # None
    BY <1>1, SiteFields, OverlayAssumptions
<1> QED BY <1>2, <1>3, SiteOf DEF Served

(* createNetwork gives the network a VLAN on the network node.                   *)
LEMMA PostNetworkDoes ==
    ASSUME PoolInv, NEW k \in Net, PostNetwork(k)
    PROVE  /\ Mapped
           /\ \A n \in Node :
                 \/ NotServed(n)
                 \/ /\ Served(n) /\ nodes'[n].ports = nodes[n].ports
                    /\ Used(nodes'[n]) \subseteq Used(nodes[n]) \union {k}
                    /\ nodes[n].ofports # {} =>
                          \A l \in Net \ {k} : nodes'[n].vlan[l] = nodes[n].vlan[l]
<1>1. leaked' = leaked
    BY DEF PostNetwork, history
<1>2. CASE Nowhere
    BY <1>1, <1>2, NowhereIs DEF NotServed
<1>3. CASE /\ NetworkNode \in Known /\ nodes[NetworkNode].avail # {}
           /\ Effect([n \in {NetworkNode} |-> OfportsFlow(Allocate(Site(n), k))])
  <2> DEFINE n == NetworkNode
             i == Allocate(Site(n), k)
             r == OfportsFlow(i)
             sites == [m \in {n} |-> OfportsFlow(Allocate(Site(m), k))]
  <2>1. Mapped
    BY <1>3, EffectAt
  <2>2. /\ nodes'[n] = r.node /\ bridge'[n] = r.bridge
        /\ \A m \in Node \ {n} : nodes'[m] = nodes[m] /\ bridge'[m] = bridge[m]
    <3>1. Effect(sites)
      BY <1>3
    <3>2. n \in Node /\ DOMAIN sites = {n} /\ sites[n] = r
      BY <1>3 DEF Known
    <3> HIDE DEF sites, n, r
    <3> QED BY <3>1, <3>2, EffectAt
  <2> HIDE DEF n
  <2>3. n \in Known /\ nodes[n].avail # {}
    BY <1>3 DEF n
  <2>4. /\ n \in Node /\ Site(n).node = nodes[n]
        /\ RawSite(Site(n), leaked[n]) /\ Used(nodes[n]) \subseteq nets
    BY <2>3, SiteOf
  <2>5. k \in Net \ Used(Site(n).node)
    BY <2>4 DEF PostNetwork
  <2>6. /\ RawSite(i, leaked[n]) /\ SameTunnels(Site(n), i)
        /\ i.node.maps /\ i.node.ports = nodes[n].ports
        /\ Used(i.node) = Used(nodes[n]) \union {k}
        /\ \A l \in Net \ {k} : i.node.vlan[l] = nodes[n].vlan[l]
    BY <2>3, <2>4, <2>5, AllocateKeeps
  <2> HIDE DEF i
  <2>7. /\ GoodSite(r, leaked[n]) /\ SameTunnels(i, r)
        /\ r.node.maps = i.node.maps /\ r.node.ports = i.node.ports
        /\ Used(r.node) \subseteq Used(i.node)
        /\ i.node.ofports # {} => r.node = i.node
    BY <2>6, OfportsFlowKeeps
  <2> HIDE DEF r
  <2>8. SameTunnels(Site(n), r) /\ i.node.ofports = nodes[n].ofports
    BY <2>4, <2>6, <2>7 DEF SameTunnels
  <2>9. Served(n)
    BY <1>1, <2>2, <2>3, <2>6, <2>7, <2>8, ServedBy
  <2> QED BY <1>1, <2>1, <2>2, <2>6, <2>7, <2>8, <2>9 DEF NotServed
<1> QED BY <1>2, <1>3 DEF PostNetwork

(* deleteNetwork takes the VLAN of the network on every node.                    *)
LEMMA DeleteNetworkDoes ==
    ASSUME PoolInv, NEW k \in Net, DeleteNetwork(k)
    PROVE  /\ Mapped
           /\ \A n \in Node :
                 \/ NotServed(n) /\ (nodes[n] # None => k \notin Used(nodes[n]))
                 \/ /\ Served(n) /\ nodes'[n].ports = nodes[n].ports
                    /\ Used(nodes'[n]) = Used(nodes[n]) \ {k}
                    /\ \A l \in Net \ {k} : nodes'[n].vlan[l] = nodes[n].vlan[l]
<1> DEFINE D == {m \in Known : k \in Used(nodes[m])}
           sites == [n \in D |-> Release(Site(n), {k})]
<1>1. leaked' = leaked
    BY DEF DeleteNetwork, history
<1>2. Effect(sites)
    BY DEF DeleteNetwork
<1>3. DOMAIN sites = D /\ \A n \in D : sites[n] = Release(Site(n), {k})
    OBVIOUS
<1> HIDE DEF sites
<1>4. Mapped
    BY <1>2, EffectAt
<1>5. ASSUME NEW n \in Node, n \notin D
      PROVE  NotServed(n) /\ (nodes[n] # None => k \notin Used(nodes[n]))
    BY <1>1, <1>2, <1>3, <1>5, EffectAt DEF NotServed, Known
<1>6. ASSUME NEW n \in Node, n \in D
      PROVE  /\ Served(n) /\ nodes'[n].ports = nodes[n].ports
             /\ Used(nodes'[n]) = Used(nodes[n]) \ {k}
             /\ \A l \in Net \ {k} : nodes'[n].vlan[l] = nodes[n].vlan[l]
  <2> DEFINE r == Release(Site(n), {k})
  <2>1. nodes'[n] = r.node /\ bridge'[n] = r.bridge
    <3>1. sites[n] = r
      BY <1>3, <1>6
    <3> HIDE DEF r
    <3> QED BY <1>2, <1>3, <1>6, <3>1, EffectAt
  <2>2. /\ n \in Known /\ Site(n).node = nodes[n]
        /\ GoodSite(Site(n), leaked[n]) /\ RawSite(Site(n), leaked[n])
        /\ {k} \in SUBSET Used(Site(n).node)
    BY <1>6, SiteOf
  <2>3. /\ SameTunnels(Site(n), r) /\ GoodSite(r, leaked[n])
        /\ r.node.maps = nodes[n].maps /\ r.node.ports = nodes[n].ports
        /\ r.node.vlan = Without(nodes[n].vlan, {k})
        /\ Used(r.node) = Used(nodes[n]) \ {k}
    BY <2>2, ReleaseKeeps
  <2> HIDE DEF r
  <2>4. Served(n)
    BY <1>1, <2>1, <2>2, <2>3, ServedBy
  <2>5. \A l \in Net \ {k} : r.node.vlan[l] = nodes[n].vlan[l]
    BY <2>3 DEF Without
  <2> QED BY <2>1, <2>3, <2>4, <2>5
<1> QED BY <1>4, <1>5, <1>6
(* A port belongs to its host, if to any node.                                   *)
LEMMA WhereIs ==
    ASSUME NEW p \in Port, NEW told
    PROVE  /\ Where(p, told) \subseteq Known /\ Known \subseteq Node
           /\ \A n \in Where(p, told) :
                 /\ n = Host[p] /\ Where(p, told) = {n}
                 /\ Owner[p] = "compute" => IsOwner(p, told, "compute")
                 /\ Owner[p] # "compute" => IsOwner(p, told, "network")
                 /\ IsOwner(p, told, "compute") => Owner[p] = "compute"
BY OverlayAssumptions DEF Where, Known, IsOwner

(* create_port_flow puts the port on its node, unless an exception comes first.  *)
LEMMA CreatePortFlowDoes ==
    ASSUME PoolInv, NEW p \in Port, NEW told \in SUBSET Fields, CreatePortFlow(p, told)
    PROVE  /\ Mapped /\ leaked' \in [Node -> SUBSET Vlan]
           /\ vPorts' = [vPorts EXCEPT ![p] = told]
           /\ vms \subseteq vms' /\ vms' \subseteq vms \union {p}
           /\ \/ tagging' = tagging
              \/ /\ tagging' = [tagging EXCEPT ![p] = Unread]
                 /\ \E n \in Where(p, told) : p \in nodes'[n].ports
           /\ \A n \in Node :
                 \/ NotServed(n)
                 \/ /\ Served(n) /\ Used(nodes'[n]) \subseteq nets
                    /\ nodes[n].ofports # {} =>
                          \A l \in Used(nodes[n]) : nodes'[n].vlan[l] = nodes[n].vlan[l]
                    /\ \/ nodes'[n].ports = nodes[n].ports
                       \/ /\ nodes'[n].ports = nodes[n].ports \union {p}
                          /\ n \in Where(p, told)
                          /\ Owner[p] = "compute" => /\ p \in vms' /\ nodes'[n].maps
                                                     /\ NetOf[p] \in nets
<1> DEFINE Goal == /\ Mapped /\ leaked' \in [Node -> SUBSET Vlan]
                   /\ vPorts' = [vPorts EXCEPT ![p] = told]
                   /\ vms \subseteq vms' /\ vms' \subseteq vms \union {p}
                   /\ \/ tagging' = tagging
                      \/ /\ tagging' = [tagging EXCEPT ![p] = Unread]
                         /\ \E n \in Where(p, told) : p \in nodes'[n].ports
           Added(n) ==
                 /\ Served(n) /\ Used(nodes'[n]) \subseteq nets
                 /\ nodes[n].ofports # {} =>
                       \A l \in Used(nodes[n]) : nodes'[n].vlan[l] = nodes[n].vlan[l]
                 /\ \/ nodes'[n].ports = nodes[n].ports
                    \/ /\ nodes'[n].ports = nodes[n].ports \union {p}
                       /\ n \in Where(p, told)
                       /\ Owner[p] = "compute" => /\ p \in vms' /\ nodes'[n].maps
                                                  /\ NetOf[p] \in nets
<1>1. leaked \in [Node -> SUBSET Vlan]
    BY DEF PoolInv, TypeOK
<1>2. vPorts' = [vPorts EXCEPT ![p] = told]
    BY DEF CreatePortFlow
<1>3. ASSUME Nowhere, UNCHANGED <<vms, tagging, leaked>>
      PROVE  Goal /\ \A n \in Node : NotServed(n)
    BY <1>1, <1>2, <1>3, NowhereIs DEF NotServed
<1>4. ASSUME IsOwner(p, told, "network"), Where(p, told) # {},
             Effect([n \in Where(p, told) |-> AddPort(Site(n), p)]),
             tagging' = [tagging EXCEPT ![p] = Unread], UNCHANGED <<vms, leaked>>
      PROVE  Goal /\ \A n \in Node : NotServed(n) \/ Added(n)
  <2> DEFINE sites == [m \in Where(p, told) |-> AddPort(Site(m), p)]
  <2>1. PICK n \in Where(p, told) : TRUE
    BY <1>4
  <2>2. /\ n \in Known /\ n \in Node /\ Where(p, told) = {n} /\ Owner[p] # "compute"
    BY <1>4, <2>1, WhereIs DEF IsOwner
  <2> DEFINE r == AddPort(Site(n), p)
  <2>3. /\ Site(n) \in SiteType /\ Site(n).node = nodes[n] /\ GoodSite(Site(n), leaked[n])
        /\ RawSite(Site(n), leaked[n]) /\ Used(nodes[n]) \subseteq nets
    BY <2>2, SiteOf
  <2>4. r = WithPorts(Site(n), nodes[n].ports \union {p}) /\ nodes[n].ports \union {p} \in SUBSET Port
    BY <2>3, AddPortIs
  <2>5. DOMAIN sites = {n} /\ sites[n] = r
    BY <2>2
  <2> HIDE DEF r, sites
  <2>6. Effect(sites)
    BY <1>4 DEF sites
  <2>7. /\ Mapped /\ nodes'[n] = r.node /\ bridge'[n] = r.bridge
        /\ \A m \in Node \ {n} : nodes'[m] = nodes[m] /\ bridge'[m] = bridge[m]
    BY <2>2, <2>5, <2>6, EffectAt
  <2>8. /\ GoodSite(r, leaked[n])
        /\ SameTunnels(Site(n), r) /\ r.node.ports = nodes[n].ports \union {p}
        /\ r.node.vlan = nodes[n].vlan /\ r.node.maps = nodes[n].maps
        /\ Used(r.node) = Used(nodes[n])
    BY <2>3, <2>4, PortsOnly
  <2>9. Served(n)
    BY <1>4, <2>2, <2>7, <2>8, ServedBy
  <2>10. Added(n)
    BY <2>1, <2>2, <2>3, <2>7, <2>8, <2>9
  <2>11. Goal
    BY <1>1, <1>2, <1>4, <2>1, <2>7, <2>8
  <2> HIDE DEF Added, Goal
  <2> QED BY <1>4, <2>7, <2>10, <2>11 DEF NotServed
<1>5. ASSUME NEW n \in Where(p, told), NetOf[p] \notin Used(nodes[n]), nodes[n].avail # {},
             nodes' = [nodes EXCEPT ![n].avail = @ \ {Lowest(nodes[n].avail)}],
             leaked' = [leaked EXCEPT ![n] = @ \union {Lowest(nodes[n].avail)}],
             UNCHANGED <<bridge, vms, tagging>>
      PROVE  Goal /\ \A m \in Node : NotServed(m) \/ Added(m)
  <2> DEFINE w == Lowest(nodes[n].avail)
             r == WithAvail(Site(n), nodes[n].avail \ {w})
  <2>1. n \in Known /\ n \in Node
    BY WhereIs
  <2>2. /\ Site(n) \in SiteType /\ Site(n).node = nodes[n] /\ Site(n).bridge = bridge[n]
        /\ GoodSite(Site(n), leaked[n]) /\ Used(nodes[n]) \subseteq nets
    BY <2>1, SiteOf
  <2>3. nodes \in [Node -> NodeRecord \union {None}] /\ bridge \in [Node -> BridgeRecord \union {None}]
    BY DEF PoolInv, TypeOK
  <2>4. /\ nodes'[n] = r.node /\ bridge'[n] = r.bridge
    BY <1>5, <2>1, <2>2, <2>3 DEF WithAvail
  <2>5. \A m \in Node \ {n} : NotServed(m)
    BY <1>1, <1>5, <2>3 DEF NotServed
  <2>6. Mapped
    BY <1>5, <2>3 DEF Mapped
  <2>7. /\ GoodSite(r, leaked[n] \union {w}) /\ w \in Vlan /\ SameTunnels(Site(n), r)
        /\ r.node.maps = nodes[n].maps /\ r.node.ports = nodes[n].ports
        /\ r.node.vlan = nodes[n].vlan /\ Used(r.node) = Used(nodes[n])
    <3>1. /\ r = WithAvail(Site(n), Site(n).node.avail \ {Lowest(Site(n).node.avail)})
          /\ Site(n).node.avail # {} /\ w = Lowest(Site(n).node.avail)
      BY <1>5, <2>2
    <3> HIDE DEF w, r
    <3> QED BY <2>2, <3>1, LeakKeeps
  <2> HIDE DEF w, r
  <2>8. leaked'[n] = leaked[n] \union {w} /\ leaked' \in [Node -> SUBSET Vlan]
    BY <1>1, <1>5, <2>1, <2>7 DEF w
  <2>9. Served(n)
    BY <2>1, <2>4, <2>7, <2>8, ServedBy
  <2>10. Added(n)
    BY <2>2, <2>4, <2>7, <2>9
  <2>11. Goal
    BY <1>2, <1>5, <2>6, <2>8
  <2> HIDE DEF Added, Goal
  <2> QED BY <2>5, <2>10, <2>11
<1>6. ASSUME NEW n \in Where(p, told), IsOwner(p, told, "compute"),
             NetOf[p] \notin Used(nodes[n]) => nodes[n].avail # {} /\ NetOf[p] \in nets,
             Effect([m \in {n} |-> OfportsFlow(AddPort(
                 IF NetOf[p] \notin Used(nodes[n]) THEN Allocate(Site(m), NetOf[p])
                                                   ELSE Site(m), p))]),
             vms' = vms \union {p}, tagging' = [tagging EXCEPT ![p] = Unread],
             UNCHANGED leaked
      PROVE  Goal /\ \A m \in Node : NotServed(m) \/ Added(m)
  <2> DEFINE k == NetOf[p]
             i == IF k \notin Used(nodes[n]) THEN Allocate(Site(n), k) ELSE Site(n)
             j == AddPort(i, p)
             r == OfportsFlow(j)
             sites == [m \in {n} |-> OfportsFlow(AddPort(
                 IF NetOf[p] \notin Used(nodes[n]) THEN Allocate(Site(m), NetOf[p])
                                                   ELSE Site(m), p))]
  <2>1. n \in Known /\ n \in Node /\ k \in Net
    BY WhereIs, OverlayAssumptions
  <2>2. DOMAIN sites = {n} /\ sites[n] = r
    OBVIOUS
  <2>3. Effect(sites)
    BY <1>6
  <2> HIDE DEF sites, r
  <2>4. /\ Mapped /\ nodes'[n] = r.node /\ bridge'[n] = r.bridge
        /\ \A m \in Node \ {n} : nodes'[m] = nodes[m] /\ bridge'[m] = bridge[m]
    BY <2>1, <2>2, <2>3, EffectAt
  <2>5. /\ Site(n) \in SiteType /\ Site(n).node = nodes[n] /\ GoodSite(Site(n), leaked[n])
        /\ RawSite(Site(n), leaked[n]) /\ Used(nodes[n]) \subseteq nets
    BY <2>1, SiteOf
  <2> HIDE DEF k
  <2>6. /\ RawSite(i, leaked[n]) /\ SameTunnels(Site(n), i)
        /\ i.node.ports = nodes[n].ports /\ i.node.maps
        /\ Used(i.node) \subseteq Used(nodes[n]) \union {k} /\ Used(i.node) \subseteq nets /\ k \in nets
        /\ \A l \in Used(nodes[n]) : i.node.vlan[l] = nodes[n].vlan[l]
    <3>1. CASE k \notin Used(nodes[n])
      <4>1. nodes[n].avail # {} /\ k \in nets
        BY <1>6, <3>1 DEF k
      <4>2. i = Allocate(Site(n), k)
        BY <3>1
      <4>3. k \in Net \ Used(Site(n).node)
        BY <2>1, <2>5, <3>1
      <4>4. Used(nodes[n]) \subseteq Net \ {k}
        BY <3>1 DEF Used
      <4> HIDE DEF i
      <4> QED BY <2>5, <4>1, <4>2, <4>3, <4>4, AllocateKeeps
    <3>2. CASE k \in Used(nodes[n])
      <4>1. i = Site(n)
        BY <3>2
      <4>2. nodes[n].maps
        BY <2>5, <3>2 DEF RawSite
      <4> HIDE DEF i
      <4> QED BY <2>5, <3>2, <4>1, <4>2 DEF SameTunnels
    <3> QED BY <3>1, <3>2
  <2> HIDE DEF i
  <2>7. i \in SiteType
    BY <2>6 DEF RawSite
  <2>8. j = WithPorts(i, i.node.ports \union {p}) /\ i.node.ports \union {p} \in SUBSET Port
    BY <2>7, AddPortIs
  <2> HIDE DEF j
  <2>9. /\ RawSite(j, leaked[n]) /\ SameTunnels(i, j) /\ j.node.ports = nodes[n].ports \union {p}
        /\ j.node.vlan = i.node.vlan /\ j.node.maps = i.node.maps
        /\ Used(j.node) = Used(i.node)
    <3>1. RawSite(i, leaked[n])
      BY <2>6
    <3>2. i.node.ports \union {p} = nodes[n].ports \union {p}
      BY <2>6
    <3>3. /\ RawSite(j, leaked[n]) /\ SameTunnels(i, j)
          /\ j.node.ports = i.node.ports \union {p}
          /\ j.node.vlan = i.node.vlan /\ j.node.maps = i.node.maps
          /\ Used(j.node) = Used(i.node)
      BY <2>8, <3>1, PortsOnly
    <3> QED BY <3>2, <3>3
  <2>10. /\ GoodSite(r, leaked[n]) /\ SameTunnels(j, r)
         /\ r.node.maps = j.node.maps /\ r.node.ports = j.node.ports
         /\ Used(r.node) \subseteq Used(j.node)
         /\ j.node.ofports # {} => r.node = j.node
    BY <2>9, OfportsFlowKeeps DEF r
  <2>11. SameTunnels(Site(n), r) /\ j.node.ofports = nodes[n].ofports
    BY <2>5, <2>6, <2>9, <2>10 DEF SameTunnels
  <2>12. Served(n)
    BY <1>6, <2>1, <2>4, <2>6, <2>9, <2>10, <2>11, ServedBy
  <2>13. p \in vms'
    BY <1>6
  <2>14. Added(n)
    BY <2>4, <2>6, <2>9, <2>10, <2>11, <2>12, <2>13 DEF k
  <2>15. p \in nodes'[n].ports
    BY <2>4, <2>9, <2>10
  <2>16. Goal
    BY <1>1, <1>2, <1>6, <2>4, <2>15
  <2> HIDE DEF Added, Goal
  <2> QED BY <1>6, <2>4, <2>14, <2>16 DEF NotServed
<1>7. Goal /\ \A n \in Node : NotServed(n) \/ Added(n)
  <2> HIDE DEF Added, Goal
  <2> QED BY <1>3, <1>4, <1>5, <1>6 DEF CreatePortFlow
<1> QED BY <1>7
(* delete_port_flow takes the port from its node, and the VLAN of its network if *)
(* no port is left there.                                                        *)
LEMMA DeletePortDoes ==
    ASSUME PoolInv, NEW p \in Port, DeletePort(p)
    PROVE  /\ Mapped /\ leaked' = leaked
           /\ vms' \subseteq vms /\ vms \ {p} \subseteq vms'
           /\ \A n \in Node :
                 \/ NotServed(n)
                 \/ /\ Served(n) /\ nodes'[n].ports = nodes[n].ports \ {p}
                    /\ Used(nodes'[n]) \subseteq Used(nodes[n])
                    /\ nodes'[n].ports # {} => nodes'[n].vlan = nodes[n].vlan
           /\ \/ ml2Ports[p] = None \/ vPorts[p] = None
              \/ \A n \in Where(p, vPorts[p]) :
                    \/ nodes'[n].ports = nodes[n].ports \ {p}
                    \/ Owner[p] = "compute" /\ (~nodes[n].maps \/ NetOf[p] \notin nets)
<1> DEFINE told == vPorts[p]
           k == NetOf[p]
           Taken(n) == /\ Served(n) /\ nodes'[n].ports = nodes[n].ports \ {p}
                       /\ Used(nodes'[n]) \subseteq Used(nodes[n])
                       /\ nodes'[n].ports # {} => nodes'[n].vlan = nodes[n].vlan
           Goal == /\ Mapped
                   /\ \A n \in Node : NotServed(n) \/ Taken(n)
                   /\ \/ ml2Ports[p] = None \/ vPorts[p] = None
                      \/ \A n \in Where(p, vPorts[p]) :
                            \/ nodes'[n].ports = nodes[n].ports \ {p}
                            \/ Owner[p] = "compute" /\ (~nodes[n].maps \/ NetOf[p] \notin nets)
<1>1. leaked' = leaked
    BY DEF DeletePort, history
<1>2. vms' \subseteq vms /\ vms \ {p} \subseteq vms'
    BY DEF DeletePort, DeleteComputePort
<1>3. CASE Nowhere /\ (ml2Ports[p] = None \/ told = None)
    BY <1>1, <1>2, <1>3, NowhereIs DEF NotServed
<1>4. ASSUME NEW n \in Where(p, told)
      PROVE  /\ n \in Known /\ n \in Node /\ Where(p, told) = {n} /\ k \in Net
             /\ Site(n) \in SiteType /\ Site(n).node = nodes[n]
             /\ LET s == RemovePort(Site(n), p)
                IN  /\ GoodSite(s, leaked[n]) /\ RawSite(s, leaked[n])
                    /\ SameTunnels(Site(n), s)
                    /\ s.node.ports = nodes[n].ports \ {p}
                    /\ s.node.vlan = nodes[n].vlan /\ s.node.maps = nodes[n].maps
                    /\ Used(s.node) = Used(nodes[n])
  <2> DEFINE s == RemovePort(Site(n), p)
  <2>1. n \in Known /\ n \in Node /\ Where(p, told) = {n} /\ k \in Net
    BY WhereIs, OverlayAssumptions
  <2>2. /\ Site(n) \in SiteType /\ Site(n).node = nodes[n]
        /\ GoodSite(Site(n), leaked[n]) /\ RawSite(Site(n), leaked[n])
    BY <2>1, SiteOf
  <2>3. s = WithPorts(Site(n), nodes[n].ports \ {p}) /\ nodes[n].ports \ {p} \in SUBSET Port
    BY <2>2, RemovePortIs
  <2> HIDE DEF s
  <2>4. /\ GoodSite(s, leaked[n]) /\ RawSite(s, leaked[n])
        /\ SameTunnels(Site(n), s)
        /\ s.node.ports = nodes[n].ports \ {p}
        /\ s.node.vlan = nodes[n].vlan /\ s.node.maps = nodes[n].maps
        /\ Used(s.node) = Used(nodes[n])
    BY <2>2, <2>3, PortsOnly
  <2> HIDE DEF told, k
  <2> QED BY <2>1, <2>2, <2>4 DEF s
<1>5. ASSUME Effect([n \in Where(p, told) |-> RemovePort(Site(n), p)]) PROVE Goal
  <2> DEFINE sites == [n \in Where(p, told) |-> RemovePort(Site(n), p)]
  <2>1. /\ DOMAIN sites = Where(p, told)
        /\ \A n \in Where(p, told) : sites[n] = RemovePort(Site(n), p)
    OBVIOUS
  <2>2. Effect(sites)
    BY <1>5
  <2> HIDE DEF sites
  <2>3. Mapped
    BY <2>2, EffectAt
  <2>4. \A n \in Node \ Where(p, told) : NotServed(n)
    BY <1>1, <2>1, <2>2, EffectAt DEF NotServed
  <2>5. ASSUME NEW n \in Where(p, told) PROVE Taken(n)
    <3> DEFINE r == RemovePort(Site(n), p)
    <3>1. sites[n] = r /\ n \in Known /\ n \in Node
      BY <2>1, <1>4
    <3>2. /\ GoodSite(r, leaked[n]) /\ SameTunnels(Site(n), r)
          /\ r.node.ports = nodes[n].ports \ {p}
          /\ r.node.vlan = nodes[n].vlan /\ r.node.maps = nodes[n].maps
          /\ Used(r.node) = Used(nodes[n])
      BY <1>4
    <3> HIDE DEF r, told
    <3>3. nodes'[n] = r.node /\ bridge'[n] = r.bridge
      BY <2>1, <2>2, <2>5, <3>1, EffectAt
    <3>4. Served(n)
      BY <1>1, <3>1, <3>2, <3>3, ServedBy
    <3> QED BY <3>2, <3>3, <3>4
  <2> HIDE DEF Taken
  <2>6. \A n \in Where(p, told) : nodes'[n].ports = nodes[n].ports \ {p}
    BY <2>5 DEF Taken
  <2> QED BY <2>3, <2>4, <2>5, <2>6
<1>6. ASSUME NEW n \in Where(p, told), IsOwner(p, told, "compute"), DeleteComputePort(p, n)
      PROVE  Goal
  <2> DEFINE s == RemovePort(Site(n), p)
             noVlan == s.node.vlan[k] = None
             r == IF s.node.ports # {} THEN s
                  ELSE IF noVlan THEN [s EXCEPT !.bridge = Flush(@, {k}, {})]
                  ELSE Release(s, {k})
             sites == [m \in {n} |-> IF s.node.ports # {} THEN s
                                     ELSE IF noVlan THEN [s EXCEPT !.bridge = Flush(@, {k}, {})]
                                     ELSE Release(s, {k})]
  <2>1. /\ n \in Known /\ n \in Node /\ Where(p, told) = {n} /\ k \in Net
        /\ GoodSite(s, leaked[n]) /\ RawSite(s, leaked[n])
        /\ SameTunnels(Site(n), s)
        /\ s.node.ports = nodes[n].ports \ {p}
        /\ s.node.vlan = nodes[n].vlan /\ s.node.maps = nodes[n].maps
        /\ Used(s.node) = Used(nodes[n])
    BY <1>4
  <2>2. Owner[p] = "compute"
    BY <1>6, WhereIs
  <2>3. CASE Nowhere /\ (~nodes[n].maps \/ k \notin nets)
    <3>1. Mapped /\ \A m \in Node : NotServed(m)
      BY <1>1, <2>3, NowhereIs DEF NotServed
    <3> HIDE DEF Taken
    <3> QED BY <2>1, <2>2, <2>3, <3>1
  <2>4. CASE Effect(sites)
    <3>1. DOMAIN sites = {n} /\ sites[n] = r
      OBVIOUS
    <3> HIDE DEF sites, r, s
    <3>2. /\ Mapped /\ nodes'[n] = r.node /\ bridge'[n] = r.bridge
          /\ \A m \in Node \ {n} : nodes'[m] = nodes[m] /\ bridge'[m] = bridge[m]
      BY <2>1, <2>4, <3>1, EffectAt
    <3>3. /\ GoodSite(r, leaked[n]) /\ SameTunnels(s, r)
          /\ r.node.ports = s.node.ports /\ r.node.maps = s.node.maps
          /\ Used(r.node) \subseteq Used(s.node)
          /\ s.node.ports # {} => r.node.vlan = s.node.vlan
      <4>1. CASE s.node.ports # {}
        BY <2>1, <4>1 DEF r, SameTunnels
      <4>2. CASE s.node.ports = {} /\ noVlan
        <5>1. r = [s EXCEPT !.bridge = Flush(@, {k}, {})]
          BY <4>2 DEF r
        <5> QED BY <2>1, <4>2, <5>1, FlushKeeps
      <4>3. CASE s.node.ports = {} /\ ~noVlan
        <5>1. r = Release(s, {k})
          BY <4>3 DEF r
        <5>2. {k} \in SUBSET Used(s.node)
          BY <2>1, <4>3 DEF Used
        <5>3. RawSite(s, leaked[n]) /\ GoodSite(s, leaked[n])
          BY <2>1
        <5>4. /\ GoodSite(r, leaked[n]) /\ SameTunnels(s, r)
              /\ r.node.ports = s.node.ports /\ r.node.maps = s.node.maps
              /\ Used(r.node) = Used(s.node) \ {k}
          BY <5>1, <5>2, <5>3, ReleaseKeeps
        <5> QED BY <4>3, <5>4
      <4> QED BY <4>1, <4>2, <4>3
    <3>4. SameTunnels(Site(n), r)
      BY <2>1, <3>3 DEF SameTunnels
    <3>5. Served(n)
      BY <1>1, <2>1, <3>2, <3>3, <3>4, ServedBy
    <3>6. Taken(n)
      BY <2>1, <3>2, <3>3, <3>5
    <3>7. nodes'[n].ports = nodes[n].ports \ {p}
      BY <2>1, <3>2, <3>3
    <3>8. \A m \in Node \ {n} : NotServed(m)
      BY <1>1, <3>2 DEF NotServed
    <3> HIDE DEF Taken
    <3> QED BY <2>1, <3>2, <3>6, <3>7, <3>8
  <2>5. (Nowhere /\ (~nodes[n].maps \/ k \notin nets)) \/ Effect(sites)
    BY <1>6 DEF DeleteComputePort
  <2> QED BY <2>3, <2>4, <2>5
<1>7. CASE Goal
    BY <1>1, <1>2, <1>7
<1>8. (Nowhere /\ (ml2Ports[p] = None \/ told = None)) \/ Goal
  <2> HIDE DEF Goal
  <2> QED BY <1>5, <1>6 DEF DeletePort
<1> QED BY <1>3, <1>7, <1>8

(* The tunnels of a node after it was given, and after it lost, the one to n.    *)
More(o, n) == (IF o = None THEN {} ELSE o) \union {n}
Less(o, n) == IF o = None THEN None ELSE o \ {n}
Peers(m, n, O) ==       \* site m after it was given or has lost the tunnel to n
    /\ nodes[m] # None /\ nodes'[m] # None
    /\ GoodSite(After(m), leaked'[m])
    /\ nodes'[m].ofports = O
    /\ nodes'[m].maps = nodes[m].maps /\ nodes'[m].ports = nodes[m].ports
    /\ Used(nodes'[m]) \subseteq Used(nodes[m])
    /\ O # {} => nodes'[m].vlan = nodes[m].vlan
    /\ (bridge'[m] = None <=> bridge[m] = None)

(* addTunnel: a node gets a record, and a tunnel to and from every other one     *)
(* whose agent answers.                                                          *)
LEMMA AddTunnelDoes ==
    ASSUME PoolInv, NEW n \in Node, AddTunnel(n)
    PROVE  /\ n \notin Known /\ Mapped /\ leaked' = leaked
           /\ nodes'[n] # None /\ GoodSite(After(n), leaked'[n])
           /\ nodes'[n].ports = {} /\ Used(nodes'[n]) = {} /\ nodes'[n].ofports # {}
           /\ bridge'[n] # None =>
                 /\ n \in up
                 /\ bridge'[n].tunnels = Known
                 /\ nodes'[n].ofports = IF Known = {} THEN None ELSE Known
           /\ \A m \in Node \ {n} :
                 \/ NotServed(m) /\ ~(n \in up /\ m \in Known /\ m \in up)
                 \/ /\ n \in up /\ m \in Known
                    /\ Peers(m, n, More(nodes[m].ofports, n))
                    /\ bridge[m] # None => bridge'[m].tunnels = bridge[m].tunnels \union {n}
<1>1. n \notin Known /\ leaked' = leaked
    BY DEF AddTunnel
<1>2. nodes[n] = None /\ leaked[n] = {}
    BY <1>1 DEF Known, PoolInv, SitesGood, SiteGood
<1>3. CASE n \in up /\ Effect([m \in Known \union {n} |-> Mesh(n, m)])
  <2> DEFINE sites == [m \in Known \union {n} |-> Mesh(n, m)]
  <2>1. DOMAIN sites = Known \union {n} /\ \A m \in Known \union {n} : sites[m] = Mesh(n, m)
    OBVIOUS
  <2>2. Effect(sites)
    BY <1>3
  <2> HIDE DEF sites
  <2>3. Mapped
    BY <2>2, EffectAt
  <2> DEFINE r == Join(n)
  <2>4. /\ GoodSite(r, {}) /\ r.node # None
        /\ r.node.ports = {} /\ Used(r.node) = {}
        /\ r.node.ofports = IF Known = {} THEN None ELSE Known
        /\ r.bridge # None => r.bridge.tunnels = Known
    BY JoinIs
  <2>5. sites[n] = r
    BY <2>1 DEF Mesh
  <2> HIDE DEF r
  <2>6. nodes'[n] = r.node /\ bridge'[n] = r.bridge
    BY <2>1, <2>2, <2>5, EffectAt
  <2>7. After(n) = r
    BY <2>4, <2>6 DEF After, GoodSite, RawSite, SiteType
  <2>8. r.node.ofports # {}
    BY <2>4, OverlayAssumptions
  <2>9. ASSUME NEW m \in Node \ {n}, m \notin Known PROVE NotServed(m)
    BY <1>1, <2>1, <2>2, <2>9, EffectAt DEF NotServed
  <2>10. ASSUME NEW m \in Known, m # n, m \notin up PROVE NotServed(m)
    <3>1. sites[m] = Site(m)
      BY <2>1, <2>10 DEF Mesh, SetupTunnelPort
    <3>2. m \in Node /\ Site(m).node = nodes[m] /\ Site(m).bridge = bridge[m]
      BY SiteOf
    <3> QED BY <1>1, <2>1, <2>2, <3>1, <3>2, EffectAt DEF NotServed
  <2>11. ASSUME NEW m \in Known, m # n, m \in up
         PROVE  /\ Peers(m, n, More(nodes[m].ofports, n))
                /\ bridge[m] # None => bridge'[m].tunnels = bridge[m].tunnels \union {n}
    <3> DEFINE t == SetupTunnelPort(Site(m), n, TRUE)
               O == (IF nodes[m].ofports = None THEN {} ELSE nodes[m].ofports) \union {n}
    <3>1. sites[m] = t
      <4>1. (m \in up) = TRUE
        BY <2>11
      <4>2. Mesh(n, m) = SetupTunnelPort(Site(m), n, m \in up)
        BY <2>11 DEF Mesh
      <4> QED BY <2>1, <4>1, <4>2
    <3>2. /\ m \in Node /\ Site(m).node = nodes[m] /\ Site(m).bridge = bridge[m]
          /\ nodes[m] # None /\ GoodSite(Site(m), leaked[m])
      BY SiteOf
    <3>3. /\ GoodSite(t, leaked[m])
          /\ t.node.ofports = O
          /\ t.node.vlan = nodes[m].vlan /\ t.node.maps = nodes[m].maps
          /\ t.node.ports = nodes[m].ports /\ Used(t.node) = Used(nodes[m])
          /\ (t.bridge = None <=> bridge[m] = None)
          /\ bridge[m] # None => t.bridge.tunnels = bridge[m].tunnels \union {n}
      <4>1. /\ GoodSite(t, leaked[m])
            /\ t.node.ofports = (IF Site(m).node.ofports = None THEN {}
                                 ELSE Site(m).node.ofports) \union {n}
            /\ t.node.vlan = Site(m).node.vlan /\ t.node.maps = Site(m).node.maps
            /\ t.node.ports = Site(m).node.ports /\ Used(t.node) = Used(Site(m).node)
            /\ (t.bridge = None <=> Site(m).bridge = None)
            /\ Site(m).bridge # None => t.bridge.tunnels = Site(m).bridge.tunnels \union {n}
        BY <3>2, SetupKeeps
      <4> HIDE DEF t
      <4> QED BY <3>2, <4>1
    <3> HIDE DEF t, O
    <3>4. nodes'[m] = t.node /\ bridge'[m] = t.bridge
      BY <2>1, <2>2, <3>1, <3>2, EffectAt
    <3>5. t \in SiteType
      BY <3>3 DEF GoodSite, RawSite
    <3>6. After(m) = t
      BY <3>4, <3>5 DEF After, SiteType
    <3>7. t.node # None
      BY <3>5, SiteFields, OverlayAssumptions
    <3>8. Peers(m, n, O)
      BY <1>1, <3>2, <3>3, <3>4, <3>6, <3>7 DEF Peers
    <3> QED BY <3>3, <3>4, <3>8 DEF O, More
  <2> QED BY <1>1, <1>2, <1>3, <2>3, <2>4, <2>6, <2>7, <2>8, <2>9, <2>10, <2>11
<1>4. CASE n \notin up /\ Effect([m \in {n} |-> [node |-> NewNode, bridge |-> None]])
  <2> DEFINE r == [node |-> NewNode, bridge |-> None]
             sites == [m \in {n} |-> r]
  <2>1. NewNode = NewNodeWith(None)
    <3>1. NewNode = [avail |-> Vlan, vlan |-> NoVlans, maps |-> FALSE, ports |-> {},
                     ofports |-> None]
      BY DEF NewNode
    <3>2. NewNodeWith(None) = [NewNode EXCEPT !.ofports = None]
      BY DEF NewNodeWith
    <3> QED BY <3>1, <3>2
  <2>2. /\ NewNode \in NodeRecord
        /\ NewNode.vlan = NoVlans /\ NewNode.ports = {} /\ NewNode.ofports = None
        /\ Used(NewNode) = {} /\ Pool(NewNode, {})
    BY <2>1, NewNodeIs
  <2>3. RawSite(r, {})
    BY <2>2 DEF RawSite, SiteType
  <2>4. GoodSite(r, {})
    BY <2>3 DEF GoodSite
  <2>5. DOMAIN sites = {n} /\ sites[n] = r
    OBVIOUS
  <2>6. Effect(sites)
    BY <1>4
  <2> HIDE DEF sites
  <2>7. /\ Mapped /\ nodes'[n] = NewNode /\ bridge'[n] = None
        /\ \A m \in Node \ {n} : nodes'[m] = nodes[m] /\ bridge'[m] = bridge[m]
    BY <2>5, <2>6, EffectAt
  <2>8. After(n) = r
    BY <2>7 DEF After
  <2> HIDE DEF r
  <2>9. NewNode # None /\ None # {}
    BY <2>2, OverlayAssumptions
  <2>10. \A m \in Node \ {n} : NotServed(m)
    BY <1>1, <2>7 DEF NotServed
  <2> QED BY <1>1, <1>2, <1>4, <2>2, <2>4, <2>7, <2>8, <2>9, <2>10
<1> QED BY <1>3, <1>4 DEF AddTunnel

(* delTunnel: the node is forgotten, and some of the others lose their tunnel.   *)
LEMMA DelTunnelDoes ==
    ASSUME PoolInv, NEW n \in Node, DelTunnel(n)
    PROVE  /\ n \in Known /\ Mapped /\ leaked' \in [Node -> SUBSET Vlan]
           /\ nodes'[n] = None /\ bridge'[n] = None /\ leaked'[n] = {}
           /\ \E done \in SUBSET (Known \ {n}) :
                 /\ lonely' = (lonely \ {n}) \union {m \in done : nodes'[m].ofports = {}}
                 /\ \A m \in Node \ {n} :
                       \/ m \notin done /\ NotServed(m)
                       \/ /\ m \in done
                          /\ Peers(m, n, Less(nodes[m].ofports, n))
                          /\ bridge[m] # None => bridge'[m].tunnels = bridge[m].tunnels \ {n}
<1>1. /\ n \in Known /\ Forget({n})
    BY DEF DelTunnel
<1>2. PICK done \in SUBSET (Known \ {n}) :
         /\ Effect([m \in done \union {n} |->
               IF m = n THEN [node |-> None, bridge |-> None] ELSE DropTunnel(Site(m), n)])
         /\ lonely' = (lonely \ {n}) \union {m \in done : nodes'[m].ofports = {}}
    BY DEF DelTunnel
<1> DEFINE sites == [m \in done \union {n} |->
               IF m = n THEN [node |-> None, bridge |-> None] ELSE DropTunnel(Site(m), n)]
<1>3. /\ DOMAIN sites = done \union {n}
      /\ sites[n] = [node |-> None, bridge |-> None]
      /\ \A m \in done : sites[m] = DropTunnel(Site(m), n)
    BY <1>2
<1>4. Effect(sites)
    BY <1>2
<1> HIDE DEF sites
<1>5. Mapped /\ nodes'[n] = None /\ bridge'[n] = None
    BY <1>3, <1>4, EffectAt
<1>6. /\ leaked' \in [Node -> SUBSET Vlan] /\ leaked'[n] = {}
      /\ \A m \in Node \ {n} : leaked'[m] = leaked[m]
    BY <1>1, <1>5 DEF Forget, PoolInv, TypeOK
<1>7. ASSUME NEW m \in Node \ {n}, m \notin done PROVE NotServed(m)
    BY <1>3, <1>4, <1>6, <1>7, EffectAt DEF NotServed
<1>8. ASSUME NEW m \in done
      PROVE  /\ Peers(m, n, Less(nodes[m].ofports, n))
             /\ bridge[m] # None => bridge'[m].tunnels = bridge[m].tunnels \ {n}
  <2> DEFINE t == DropTunnel(Site(m), n)
             O == IF nodes[m].ofports = None THEN None ELSE nodes[m].ofports \ {n}
  <2>1. sites[m] = t /\ m \in Known /\ m # n
    BY <1>2, <1>3
  <2>2. /\ m \in Node /\ Site(m).node = nodes[m] /\ Site(m).bridge = bridge[m]
        /\ nodes[m] # None /\ GoodSite(Site(m), leaked[m])
    BY <2>1, SiteOf
  <2>3. /\ GoodSite(t, leaked[m])
        /\ t.node.ofports = O
        /\ t.node.ofports # {} => t.node.vlan = nodes[m].vlan
        /\ t.node.maps = nodes[m].maps
        /\ t.node.ports = nodes[m].ports /\ Used(t.node) \subseteq Used(nodes[m])
        /\ (t.bridge = None <=> bridge[m] = None)
        /\ bridge[m] # None => t.bridge.tunnels = bridge[m].tunnels \ {n}
    <3>1. /\ GoodSite(t, leaked[m])
          /\ t.node.ofports = IF Site(m).node.ofports = None THEN None
                              ELSE Site(m).node.ofports \ {n}
          /\ t.node.ofports # {} => t.node.vlan = Site(m).node.vlan
          /\ t.node.maps = Site(m).node.maps
          /\ t.node.ports = Site(m).node.ports /\ Used(t.node) \subseteq Used(Site(m).node)
          /\ (t.bridge = None <=> Site(m).bridge = None)
          /\ Site(m).bridge # None => t.bridge.tunnels = Site(m).bridge.tunnels \ {n}
      BY <2>2, DropKeeps
    <3> HIDE DEF t
    <3> QED BY <2>2, <3>1
  <2> HIDE DEF t, O
  <2>4. nodes'[m] = t.node /\ bridge'[m] = t.bridge
    BY <1>3, <1>4, <2>1, <2>2, EffectAt
  <2>5. t \in SiteType
    BY <2>3 DEF GoodSite, RawSite
  <2>6. After(m) = t
    BY <2>4, <2>5 DEF After, SiteType
  <2>7. t.node # None
    BY <2>5, SiteFields, OverlayAssumptions
  <2>8. Peers(m, n, O)
    BY <1>6, <2>1, <2>2, <2>3, <2>4, <2>6, <2>7 DEF Peers
  <2> QED BY <2>3, <2>4, <2>8 DEF O, Less
<1> QED BY <1>1, <1>2, <1>5, <1>6, <1>7, <1>8
(* createPort records what was told, and runs create_port_flow once.             *)
LEMMA PostPortIs ==
    ASSUME PoolInv, NEW p \in Port, NEW fields \in Tell[p], PostPort(p, fields)
    PROVE  \E told \in SUBSET Fields, done \in BOOLEAN :
             /\ ml2Ports' = [ml2Ports EXCEPT ![p] = [told |-> told, flow_exec |-> done]]
             /\ \/ /\ CreatePortFlow(p, told) /\ done
                   /\ ml2Ports[p] = None \/ ~ml2Ports[p].flow_exec
                \/ /\ Nowhere /\ UNCHANGED <<vPorts, vms, tagging, leaked>>
                   /\ ml2Ports[p] # None /\ ml2Ports[p].flow_exec => done
<1> DEFINE told == fields \union (IF ml2Ports[p] = None THEN {} ELSE ml2Ports[p].told)
           run == IF ml2Ports[p] = None THEN fields = Fields ELSE ~ml2Ports[p].flow_exec
           done == run \/ (ml2Ports[p] # None /\ ml2Ports[p].flow_exec)
<1>1. ml2Ports[p] \in PortRecord \union {None}
    BY DEF PoolInv, TypeOK
<1>2. ml2Ports[p] # None => ml2Ports[p].told \in SUBSET Fields /\ ml2Ports[p].flow_exec \in BOOLEAN
    BY <1>1 DEF PortRecord
<1>3. fields \in SUBSET Fields
    BY OverlayAssumptions DEF Fields
<1>4. told \in SUBSET Fields /\ done \in BOOLEAN
    BY <1>2, <1>3
<1>5. ml2Ports' = [ml2Ports EXCEPT ![p] = [told |-> told, flow_exec |-> done]]
    BY DEF PostPort
<1>6. \/ run /\ CreatePortFlow(p, told)
      \/ ~run /\ Nowhere /\ UNCHANGED <<vPorts, vms, tagging, leaked>>
    BY DEF PostPort
<1>7. run => done /\ (ml2Ports[p] = None \/ ~ml2Ports[p].flow_exec)
    OBVIOUS
<1>8. ml2Ports[p] # None /\ ml2Ports[p].flow_exec => done
    OBVIOUS
<1> HIDE DEF told, done, run
<1> QED BY <1>4, <1>5, <1>6, <1>7, <1>8

(* What the requests of operators and Neutron do to the sites, in common: a node *)
(* comes or goes only when its agent reports or falls silent.                    *)
LEMMA RequestsServe ==
    ASSUME PoolInv,
           \/ \E k \in Net : PostNetwork(k) \/ DeleteNetwork(k)
           \/ \E p \in Port : DeletePort(p) \/ \E fields \in Tell[p] : PostPort(p, fields)
    PROVE  Mapped /\ \A n \in Node : NotServed(n) \/ Served(n)
<1>1. ASSUME NEW k \in Net, PostNetwork(k)
      PROVE  Mapped /\ \A n \in Node : NotServed(n) \/ Served(n)
    BY <1>1, PostNetworkDoes
<1>2. ASSUME NEW k \in Net, DeleteNetwork(k)
      PROVE  Mapped /\ \A n \in Node : NotServed(n) \/ Served(n)
    BY <1>2, DeleteNetworkDoes
<1>3. ASSUME NEW p \in Port, DeletePort(p)
      PROVE  Mapped /\ \A n \in Node : NotServed(n) \/ Served(n)
    BY <1>3, DeletePortDoes
<1>4. ASSUME NEW p \in Port, NEW fields \in Tell[p], PostPort(p, fields)
      PROVE  Mapped /\ \A n \in Node : NotServed(n) \/ Served(n)
  <2>1. PICK told \in SUBSET Fields : \/ CreatePortFlow(p, told)
                                      \/ Nowhere /\ leaked' = leaked
    BY <1>4, PostPortIs
  <2>2. CASE CreatePortFlow(p, told)
    BY <2>2, CreatePortFlowDoes
  <2>3. CASE Nowhere /\ leaked' = leaked
    BY <2>3, NowhereIs DEF NotServed
  <2> QED BY <2>1, <2>2, <2>3
<1> QED BY <1>1, <1>2, <1>3, <1>4

(* A site that nothing happens to stays good.                                    *)
LEMMA NotServedGood ==
    ASSUME PoolInv, NEW n \in Node, NotServed(n)
    PROVE  IF nodes'[n] = None THEN bridge'[n] = None /\ leaked'[n] = {}
           ELSE GoodSite(After(n), leaked'[n])
<1>1. CASE nodes[n] = None
    BY <1>1 DEF NotServed, PoolInv, SitesGood, SiteGood
<1>2. CASE nodes[n] # None
  <2>1. n \in Known /\ After(n) = Site(n)
    BY <1>2 DEF Known, NotServed, After, Site
  <2> QED BY <1>2, <2>1, SiteOf DEF NotServed
<1> QED BY <1>1, <1>2

(* Good sites have good records.                                                 *)
LEMMA SitesAfter ==
    ASSUME Mapped,
           \A n \in Node : IF nodes'[n] = None THEN bridge'[n] = None /\ leaked'[n] = {}
                           ELSE GoodSite(After(n), leaked'[n])
    PROVE  /\ SitesGood' /\ Sound' \subseteq Known'
           /\ nodes' \in [Node -> NodeRecord \union {None}]
           /\ bridge' \in [Node -> BridgeRecord \union {None}]
<1>1. SitesGood'
    BY DEF SitesGood, SiteGood, Site, After
<1>2. \A n \in Node : /\ nodes'[n] \in NodeRecord \union {None}
                      /\ bridge'[n] \in BridgeRecord \union {None}
  <2> TAKE n \in Node
  <2>1. CASE nodes'[n] # None
    <3>1. After(n) \in SiteType
      BY <2>1 DEF GoodSite, RawSite
    <3> QED BY <3>1 DEF SiteType, After
  <2> QED BY <2>1
<1>3. Sound' \subseteq Known'
    BY DEF Sound, Known
<1> QED BY <1>1, <1>2, <1>3 DEF Mapped

(* The types of what is not the nodes or their bridges.                          *)
SmallTypes ==
    /\ nets \subseteq aliveNets /\ aliveNets \subseteq Net
    /\ alive \subseteq Port /\ vms \subseteq Port
    /\ ml2Ports \in [Port -> PortRecord \union {None}]
    /\ vPorts \in [Port -> (SUBSET Fields) \union {None}]
    /\ tagging \in [Port -> {Idle, Unread} \union Vlan]
    /\ tag \in [Port -> Vlan \union {None}]
    /\ faults \in 0 .. MaxFaults
    /\ leaked \in [Node -> SUBSET Vlan]

(* The variables other than the nodes and their bridges keep their types.        *)
LEMMA SmallTypesStep ==
    ASSUME PoolInv, [Next]_vars
    PROVE  SmallTypes'
<1> USE DEF SmallTypes
<1>1. SmallTypes /\ nodes \in [Node -> NodeRecord \union {None}]
    BY DEF PoolInv, TypeOK
<1> USE DEF history, neutron, ctlVars
<1>2. ASSUME NEW k \in Net, PostNetwork(k) PROVE SmallTypes'
    BY <1>1, <1>2 DEF PostNetwork
<1>3. ASSUME NEW k \in Net, DeleteNetwork(k) PROVE SmallTypes'
    BY <1>1, <1>3 DEF DeleteNetwork
<1>4. ASSUME NEW p \in Port, NEW fields \in Tell[p], PostPort(p, fields) PROVE SmallTypes'
  <2>1. PICK told \in SUBSET Fields, done \in BOOLEAN :
             /\ ml2Ports' = [ml2Ports EXCEPT ![p] = [told |-> told, flow_exec |-> done]]
             /\ \/ CreatePortFlow(p, told)
                \/ Nowhere /\ UNCHANGED <<vPorts, vms, tagging, leaked>>
    BY <1>4, PostPortIs
  <2>2. [told |-> told, flow_exec |-> done] \in PortRecord
    BY DEF PortRecord
  <2>3. /\ leaked' \in [Node -> SUBSET Vlan] /\ vms' \subseteq Port
        /\ vPorts' \in [Port -> (SUBSET Fields) \union {None}]
        /\ tagging' \in [Port -> {Idle, Unread} \union Vlan]
    <3>1. CASE CreatePortFlow(p, told)
      BY <1>1, <3>1, CreatePortFlowDoes
    <3>2. CASE UNCHANGED <<vPorts, vms, tagging, leaked>>
      BY <1>1, <3>2
    <3> QED BY <2>1, <3>1, <3>2
  <2>4. ml2Ports' \in [Port -> PortRecord \union {None}]
    BY <1>1, <2>1, <2>2
  <2>5. alive' = alive \union {p} /\ UNCHANGED <<nets, tag, aliveNets, faults>>
    BY <1>4 DEF PostPort
  <2> QED BY <1>1, <2>3, <2>4, <2>5
<1>5. ASSUME NEW p \in Port, DeletePort(p) PROVE SmallTypes'
  <2>1. leaked' = leaked /\ vms' \subseteq vms
    BY <1>5, DeletePortDoes
  <2>2. /\ alive' = alive \ {p} /\ UNCHANGED <<nets, tagging, tag, aliveNets, faults>>
        /\ vPorts' = vPorts \/ vPorts' = [vPorts EXCEPT ![p] = None]
        /\ \/ ml2Ports' = ml2Ports \/ ml2Ports' = [ml2Ports EXCEPT ![p] = None]
           \/ ml2Ports' = [ml2Ports EXCEPT ![p] = @]
    BY <1>5 DEF DeletePort
  <2> QED BY <1>1, <2>1, <2>2
<1>6. ASSUME NEW p \in Port, TagRead(p) PROVE SmallTypes'
  <2>1. ASSUME nodes[Host[p]] # None, nodes[Host[p]].vlan[NetOf[p]] # None
        PROVE  nodes[Host[p]].vlan[NetOf[p]] \in Vlan
    BY <1>1, <2>1, OverlayAssumptions DEF NodeRecord
  <2> QED BY <1>1, <1>6, <2>1 DEF TagRead
<1>7. ASSUME NEW p \in Port, TagSet(p) PROVE SmallTypes'
    BY <1>1, <1>7 DEF TagSet
<1>8. ASSUME NEW p \in Port, TagGiveUp(p) PROVE SmallTypes'
    BY <1>1, <1>8 DEF TagGiveUp
<1>9. ASSUME NEW p \in Port, Unplug(p) PROVE SmallTypes'
    BY <1>1, <1>9 DEF Unplug
<1>10. ASSUME NEW n \in Node, AddTunnel(n) PROVE SmallTypes'
    BY <1>1, <1>10 DEF AddTunnel
<1>11. ASSUME Fault PROVE faults' \in 0 .. MaxFaults
    BY <1>1, <1>11, OverlayAssumptions DEF Fault
<1>12. ASSUME NEW N, Forget(N) PROVE /\ tag' \in [Port -> Vlan \union {None}]
                                     /\ leaked' \in [Node -> SUBSET Vlan]
    BY <1>1, <1>12 DEF Forget
<1>13. ASSUME NEW n \in Node, DelTunnel(n) PROVE SmallTypes'
    BY <1>1, <1>11, <1>12, <1>13 DEF DelTunnel
<1>14. ASSUME NEW n \in Node, AgentFails(n) PROVE SmallTypes'
    BY <1>1, <1>11, <1>12, <1>14 DEF AgentFails
<1>15. ASSUME NEW n \in Node, AgentAnswers(n) PROVE SmallTypes'
    BY <1>1, <1>15 DEF AgentAnswers
<1>16. ASSUME NEW n \in Node, AgentRestart(n) PROVE SmallTypes'
    BY <1>1, <1>11, <1>12, <1>16 DEF AgentRestart
<1>17. CASE Restart
    BY <1>1, <1>11, <1>12, <1>17 DEF Restart
<1>18. CASE UNCHANGED vars
    BY <1>1, <1>18 DEF vars
<1> HIDE DEF SmallTypes
<1> QED BY <1>2, <1>3, <1>4, <1>5, <1>6, <1>7, <1>8, <1>9, <1>10, <1>13, <1>14, <1>15, <1>16,
           <1>17, <1>18 DEF Next
-----------------------------------------------------------------------------
(* It is enough to look at each node.                                            *)
LEMMA PoolAfter ==
    ASSUME PoolInv, [Next]_vars, Mapped,
           \A n \in Node : IF nodes'[n] = None THEN bridge'[n] = None /\ leaked'[n] = {}
                           ELSE GoodSite(After(n), leaked'[n]) /\ Used(nodes'[n]) \subseteq nets',
           Sound' \subseteq up', fresh' \subseteq Node \ Known', lonely' \subseteq Known'
    PROVE  PoolInv'
<1>1. /\ SitesGood' /\ Sound' \subseteq Known'
      /\ nodes' \in [Node -> NodeRecord \union {None}]
      /\ bridge' \in [Node -> BridgeRecord \union {None}]
    BY SitesAfter
<1>2. SmallTypes'
    BY SmallTypesStep
<1>3. NetsKnown'
    BY DEF NetsKnown, Known
<1>4. TypeOK'
    BY <1>1, <1>2 DEF TypeOK, SmallTypes
<1> QED BY <1>1, <1>3, <1>4 DEF PoolInv

(* The sites that a request leaves alone or serves, and which are known.         *)
LEMMA ServedKnown ==
    ASSUME PoolInv, Mapped, \A n \in Node : NotServed(n) \/ Served(n)
    PROVE  /\ Known' = Known /\ Sound' = Sound
           /\ \A n \in Node : (nodes'[n] = None <=> nodes[n] = None)
           /\ \A n \in Node : IF nodes'[n] = None THEN bridge'[n] = None /\ leaked'[n] = {}
                              ELSE GoodSite(After(n), leaked'[n])
<1>1. ASSUME NEW n \in Node
      PROVE  /\ (nodes'[n] = None <=> nodes[n] = None) /\ (bridge'[n] = None <=> bridge[n] = None)
             /\ IF nodes'[n] = None THEN bridge'[n] = None /\ leaked'[n] = {}
                ELSE GoodSite(After(n), leaked'[n])
  <2>1. CASE NotServed(n)
    BY <2>1, NotServedGood DEF NotServed
  <2>2. CASE Served(n)
    BY <2>2 DEF Served, SameTunnels, Site, After
  <2> QED BY <2>1, <2>2
<1> QED BY <1>1 DEF Known, Sound

(* The first part of the invariant holds at the start.                           *)
LEMMA PoolInit == ASSUME Init PROVE PoolInv
<1>1. /\ nodes \in [Node -> NodeRecord \union {None}]
      /\ bridge \in [Node -> BridgeRecord \union {None}]
      /\ Known = {} /\ Sound = {}
    BY DEF Init, Known, Sound
<1>2. /\ ml2Ports \in [Port -> PortRecord \union {None}]
      /\ vPorts \in [Port -> (SUBSET Fields) \union {None}]
      /\ tagging \in [Port -> {Idle, Unread} \union Vlan]
      /\ tag \in [Port -> Vlan \union {None}]
      /\ leaked \in [Node -> SUBSET Vlan]
    BY DEF Init
<1>3. faults \in 0 .. MaxFaults
    BY OverlayAssumptions DEF Init
<1>4. TypeOK
    BY <1>1, <1>2, <1>3 DEF Init, TypeOK
<1> QED BY <1>1, <1>4 DEF PoolInv, SitesGood, SiteGood, NetsKnown, Init

(* Every step keeps it: VLANs move between the pool, the networks of a node and  *)
(* what is lost, and the flows of a followed bridge move with them.              *)
LEMMA PoolStep == ASSUME PoolInv, [Next]_vars PROVE PoolInv'
<1>1. /\ Sound \subseteq Known \intersect up /\ fresh \subseteq Node \ Known
      /\ lonely \subseteq Known /\ nets \subseteq Net
      /\ nodes \in [Node -> NodeRecord \union {None}]
      /\ bridge \in [Node -> BridgeRecord \union {None}]
    BY DEF PoolInv, TypeOK
<1>2. \A n \in Known : Used(nodes[n]) \subseteq nets
    BY DEF PoolInv, NetsKnown
<1> USE DEF history, neutron, ctlVars
(* The nodes are as they were but for the requests that serve them. *)
<1>3. ASSUME Mapped, \A n \in Node : NotServed(n) \/ Served(n),
             UNCHANGED <<up, fresh, lonely>>,
             \A n \in Known : Used(nodes'[n]) \subseteq nets'
      PROVE  PoolInv'
  <2>1. /\ Known' = Known /\ Sound' = Sound
        /\ \A n \in Node : (nodes'[n] = None <=> nodes[n] = None)
        /\ \A n \in Node : IF nodes'[n] = None THEN bridge'[n] = None /\ leaked'[n] = {}
                           ELSE GoodSite(After(n), leaked'[n])
    BY <1>3, ServedKnown
  <2>2. \A n \in Node : nodes'[n] # None => Used(nodes'[n]) \subseteq nets'
    BY <1>3, <2>1 DEF Known
  <2> QED BY <1>1, <1>3, <2>1, <2>2, PoolAfter
<1>4. ASSUME NEW k \in Net, PostNetwork(k) PROVE PoolInv'
  <2>1. UNCHANGED <<up, fresh, lonely>> /\ nets' = nets \union {k}
    BY <1>4 DEF PostNetwork
  <2>2. \A n \in Known : Used(nodes'[n]) \subseteq nets'
    BY <1>2, <1>4, <2>1, PostNetworkDoes DEF NotServed, Known
  <2> QED BY <1>3, <1>4, <2>1, <2>2, RequestsServe
<1>5. ASSUME NEW k \in Net, DeleteNetwork(k) PROVE PoolInv'
  <2>1. UNCHANGED <<up, fresh, lonely>> /\ nets' = nets \ {k}
    BY <1>5 DEF DeleteNetwork
  <2>2. \A n \in Known : Used(nodes'[n]) \subseteq nets'
    BY <1>2, <1>5, <2>1, DeleteNetworkDoes DEF NotServed, Known
  <2> QED BY <1>3, <1>5, <2>1, <2>2, RequestsServe
<1>6. ASSUME NEW p \in Port, NEW fields \in Tell[p], PostPort(p, fields) PROVE PoolInv'
  <2>1. UNCHANGED <<up, fresh, lonely, nets>>
    BY <1>6 DEF PostPort
  <2>2. PICK told \in SUBSET Fields : CreatePortFlow(p, told) \/ Nowhere
    BY <1>6, PostPortIs
  <2>3. \A n \in Known : Used(nodes'[n]) \subseteq nets'
    <3>1. CASE CreatePortFlow(p, told)
      BY <1>2, <2>1, <3>1, CreatePortFlowDoes DEF NotServed, Known
    <3>2. CASE Nowhere
      BY <1>2, <2>1, <3>2 DEF Nowhere
    <3> QED BY <2>2, <3>1, <3>2
  <2> QED BY <1>3, <1>6, <2>1, <2>3, RequestsServe
<1>7. ASSUME NEW p \in Port, DeletePort(p) PROVE PoolInv'
  <2>1. UNCHANGED <<up, fresh, lonely, nets>>
    BY <1>7 DEF DeletePort
  <2>2. \A n \in Known : Used(nodes'[n]) \subseteq nets'
    BY <1>2, <1>7, <2>1, DeletePortDoes DEF NotServed, Known
  <2> QED BY <1>3, <1>7, <2>1, <2>2, RequestsServe
(* Nothing happens to the nodes. *)
<1>8. ASSUME UNCHANGED <<nodes, bridge, leaked, nets, fresh, lonely>>, up \subseteq up'
      PROVE  PoolInv'
  <2>1. Mapped /\ \A n \in Node : NotServed(n)
    BY <1>1, <1>8 DEF Mapped, NotServed
  <2>2. /\ Known' = Known /\ Sound' = Sound
        /\ \A n \in Node : IF nodes'[n] = None THEN bridge'[n] = None /\ leaked'[n] = {}
                           ELSE GoodSite(After(n), leaked'[n])
    BY <2>1, ServedKnown
  <2>3. \A n \in Node : nodes'[n] # None => Used(nodes'[n]) \subseteq nets'
    BY <1>2, <1>8 DEF Known
  <2> QED BY <1>1, <1>8, <2>1, <2>2, <2>3, PoolAfter
<1>9. ASSUME NEW p \in Port, TagRead(p) \/ TagSet(p) \/ TagGiveUp(p) \/ Unplug(p) PROVE PoolInv'
    BY <1>8, <1>9 DEF TagRead, TagSet, TagGiveUp, Unplug
<1>10. ASSUME NEW n \in Node, AgentAnswers(n) PROVE PoolInv'
    BY <1>8, <1>10 DEF AgentAnswers
<1>11. CASE UNCHANGED vars
    BY <1>8, <1>11 DEF vars
<1>12. ASSUME NEW n \in Node, AddTunnel(n) PROVE PoolInv'
  <2>1. UNCHANGED <<up, lonely, nets>> /\ fresh' = fresh \ {n}
    BY <1>12 DEF AddTunnel
  <2>2. ASSUME NEW m \in Node \ {n}
        PROVE  /\ (nodes'[m] = None <=> nodes[m] = None)
               /\ (bridge'[m] = None <=> bridge[m] = None)
               /\ IF nodes'[m] = None THEN bridge'[m] = None /\ leaked'[m] = {}
                  ELSE GoodSite(After(m), leaked'[m]) /\ Used(nodes'[m]) \subseteq nets'
    <3>1. CASE NotServed(m)
      BY <1>2, <2>1, <3>1, NotServedGood DEF NotServed, Known
    <3>2. CASE \E O : m \in Known /\ Peers(m, n, O)
      BY <1>2, <2>1, <3>2 DEF Peers, Known
    <3> QED BY <1>12, <3>1, <3>2, AddTunnelDoes
  <2>3. /\ n \notin Known /\ Mapped
        /\ nodes'[n] # None /\ GoodSite(After(n), leaked'[n]) /\ Used(nodes'[n]) = {}
        /\ bridge'[n] # None => n \in up
    BY <1>12, AddTunnelDoes
  <2>4. Known' = Known \union {n}
    BY <2>2, <2>3 DEF Known
  <2>5. Sound' \subseteq up'
    BY <1>1, <2>1, <2>2, <2>3 DEF Sound
  <2>6. \A m \in Node : IF nodes'[m] = None THEN bridge'[m] = None /\ leaked'[m] = {}
                        ELSE GoodSite(After(m), leaked'[m]) /\ Used(nodes'[m]) \subseteq nets'
    BY <2>2, <2>3
  <2> QED BY <1>1, <2>1, <2>3, <2>4, <2>5, <2>6, PoolAfter
<1>13. ASSUME NEW n \in Node, DelTunnel(n) PROVE PoolInv'
  <2>1. UNCHANGED <<up, fresh, nets>>
    BY <1>13 DEF DelTunnel
  <2>2. PICK done \in SUBSET (Known \ {n}) :
          /\ lonely' = (lonely \ {n}) \union {m \in done : nodes'[m].ofports = {}}
          /\ \A m \in Node \ {n} : \/ m \notin done /\ NotServed(m)
                                   \/ /\ m \in done /\ Peers(m, n, Less(nodes[m].ofports, n))
                                      /\ bridge[m] # None
                                            => bridge'[m].tunnels = bridge[m].tunnels \ {n}
    BY <1>13, DelTunnelDoes
  <2>3. ASSUME NEW m \in Node \ {n}
        PROVE  /\ (nodes'[m] = None <=> nodes[m] = None)
               /\ (bridge'[m] = None <=> bridge[m] = None)
               /\ IF nodes'[m] = None THEN bridge'[m] = None /\ leaked'[m] = {}
                  ELSE GoodSite(After(m), leaked'[m]) /\ Used(nodes'[m]) \subseteq nets'
    <3>1. CASE NotServed(m)
      BY <1>2, <2>1, <3>1, NotServedGood DEF NotServed, Known
    <3>2. CASE \E O : m \in done /\ Peers(m, n, O)
      BY <1>2, <2>1, <3>2 DEF Peers, Known
    <3> QED BY <2>2, <3>1, <3>2
  <2>4. /\ Mapped /\ nodes'[n] = None /\ bridge'[n] = None /\ leaked'[n] = {}
    BY <1>13, DelTunnelDoes
  <2>5. Known' = Known \ {n} /\ Sound' = Sound \ {n}
    BY <2>3, <2>4 DEF Known, Sound
  <2>6. \A m \in Node : IF nodes'[m] = None THEN bridge'[m] = None /\ leaked'[m] = {}
                        ELSE GoodSite(After(m), leaked'[m]) /\ Used(nodes'[m]) \subseteq nets'
    BY <2>3, <2>4
  <2> QED BY <1>1, <2>1, <2>2, <2>4, <2>5, <2>6, PoolAfter
(* The bridge of a node is not followed any more. *)
<1>14. ASSUME NEW n \in Node, UNCHANGED <<nodes, nets, lonely>>,
              bridge' = [bridge EXCEPT ![n] = None], Forget({n}),
              Sound' \subseteq up', fresh' \subseteq Node \ Known
       PROVE  PoolInv'
  <2>1. Mapped /\ Known' = Known
    BY <1>1, <1>14 DEF Mapped, Known
  <2>2. /\ \A m \in Node \ {n} : bridge'[m] = bridge[m]
        /\ bridge'[n] = None
        /\ \A m \in Node : leaked'[m] = IF m = n /\ nodes'[m] = None THEN {} ELSE leaked[m]
    BY <1>1, <1>14 DEF Forget
  <2>3. ASSUME NEW m \in Node \ {n}
        PROVE  IF nodes'[m] = None THEN bridge'[m] = None /\ leaked'[m] = {}
               ELSE GoodSite(After(m), leaked'[m]) /\ Used(nodes'[m]) \subseteq nets'
    <3>1. NotServed(m)
      BY <1>14, <2>2 DEF NotServed
    <3> QED BY <1>2, <1>14, <3>1, NotServedGood DEF NotServed, Known
  <2>4. IF nodes'[n] = None THEN bridge'[n] = None /\ leaked'[n] = {}
        ELSE GoodSite(After(n), leaked'[n]) /\ Used(nodes'[n]) \subseteq nets'
    <3>1. CASE nodes[n] = None
      BY <1>14, <2>2, <3>1
    <3>2. CASE nodes[n] # None
      <4>1. n \in Known /\ nodes'[n] = nodes[n]
        BY <1>14, <3>2 DEF Known
      <4>2. /\ GoodSite(Site(n), leaked[n]) /\ Site(n).node = nodes[n]
            /\ Used(nodes[n]) \subseteq nets
        BY <4>1, SiteOf
      <4>3. GoodSite([node |-> nodes[n], bridge |-> None], leaked[n])
        BY <4>2, Forgotten
      <4>4. After(n) = [node |-> nodes[n], bridge |-> None]
        BY <2>2, <4>1 DEF After
      <4> QED BY <1>14, <2>2, <3>2, <4>1, <4>2, <4>3, <4>4
    <3> QED BY <3>1, <3>2
  <2>5. \A m \in Node : IF nodes'[m] = None THEN bridge'[m] = None /\ leaked'[m] = {}
                        ELSE GoodSite(After(m), leaked'[m]) /\ Used(nodes'[m]) \subseteq nets'
    BY <2>3, <2>4
  <2> QED BY <1>1, <1>14, <2>1, <2>5, PoolAfter
<1>15. ASSUME NEW n \in Node, AgentFails(n) PROVE PoolInv'
  <2>1. Sound' \subseteq up'
    BY <1>1, <1>15 DEF AgentFails, Sound
  <2> QED BY <1>1, <1>14, <1>15, <2>1 DEF AgentFails
<1>16. ASSUME NEW n \in Node, AgentRestart(n) PROVE PoolInv'
  <2>1. Sound' \subseteq up'
    BY <1>1, <1>16 DEF AgentRestart, Sound
  <2>2. fresh' \subseteq Node \ Known
    BY <1>1, <1>16 DEF AgentRestart
  <2> QED BY <1>14, <1>16, <2>1, <2>2 DEF AgentRestart
<1>17. CASE Restart
  <2>1. /\ Mapped /\ Known' = {} /\ Sound' = {}
        /\ \A n \in Node : nodes'[n] = None /\ bridge'[n] = None
    BY <1>17 DEF Restart, Mapped, Known, Sound
  <2>2. \A n \in Node : leaked'[n] = {}
    BY <1>17, <2>1 DEF Restart, Forget
  <2>3. lonely' = {} /\ fresh' = fresh
    BY <1>17 DEF Restart
  <2> QED BY <1>1, <2>1, <2>2, <2>3, PoolAfter
<1> QED BY <1>4, <1>5, <1>6, <1>7, <1>9, <1>10, <1>11, <1>12, <1>13, <1>15, <1>16, <1>17 DEF Next

(* So it always holds.                                                           *)
LEMMA PoolAlways == Spec => []PoolInv
BY PoolInit, PoolStep, PTL DEF Spec

(* The records of the nodes and all else have their types, for any nodes,        *)
(* networks, ports and VLANs.                                                    *)
THEOREM OverlayTypeCorrect == Spec => []TypeOK
<1>1. PoolInv => TypeOK
    BY DEF PoolInv
<1> QED BY <1>1, PoolAlways, PTL

(* A VLAN of a node is in the pool, or of exactly one network, or was lost to an *)
(* exception in create_port_flow.                                                *)
THEOREM VlanPoolHolds == Spec => []VlanPool
<1>1. PoolInv => VlanPool
  <2> SUFFICES ASSUME PoolInv, NEW n \in Known PROVE Pool(nodes[n], leaked[n])
    BY DEF VlanPool, Pool
  <2> QED BY SiteOf DEF RawSite
<1> QED BY <1>1, PoolAlways, PTL

(* The flows on a followed br-tun are those that the record of its node implies. *)
THEOREM BridgeFollowsHolds == Spec => []BridgeFollows
<1>1. PoolInv => BridgeFollows
  <2> SUFFICES ASSUME PoolInv, NEW n \in Sound
               PROVE  /\ bridge[n].toLv = nodes[n].vlan
                      /\ \A v \in Vlan : bridge[n].flood[v] = FloodOf(nodes[n], v)
    BY DEF BridgeFollows, FloodOf
  <2>1. n \in Known /\ bridge[n] # None
    BY DEF PoolInv, TypeOK, Sound
  <2>2. /\ Site(n).node = nodes[n] /\ Site(n).bridge = bridge[n]
        /\ GoodSite(Site(n), leaked[n]) /\ RawSite(Site(n), leaked[n])
    BY <2>1, SiteOf
  <2> QED BY <2>1, <2>2 DEF GoodSite, RawSite
<1> QED BY <1>1, PoolAlways, PTL
-----------------------------------------------------------------------------
(* A request leaves the tunnels of a node as they are.                           *)
LEMMA ServedTunnels ==
    ASSUME PoolInv, NEW n \in Node, NotServed(n) \/ Served(n), nodes[n] # None
    PROVE  /\ nodes'[n].ofports = nodes[n].ofports
           /\ bridge[n] # None => bridge'[n].tunnels = bridge[n].tunnels
BY DEF NotServed, Served, SameTunnels, Site, After

(* Tunnels are made at both ends, with every node but those whose agents do not  *)
(* answer (and these are not followed), and removed with the node itself.        *)
LEMMA MeshStep ==
    ASSUME PoolInv, MeshIsComplete, [Next]_vars
    PROVE  MeshIsComplete'
<1>1. /\ Sound \subseteq Known \intersect up /\ Known \subseteq Node
      /\ \A n \in Node : bridge[n] # None => nodes[n] # None
    BY DEF PoolInv, TypeOK, Known, Sound
<1>2. \A n \in Node : bridge[n] # None =>
        /\ bridge[n].tunnels = IF nodes[n].ofports = None THEN {} ELSE nodes[n].ofports
        /\ Sound \ {n} \subseteq bridge[n].tunnels
    BY DEF MeshIsComplete, Sound
<1>3. ASSUME Sound' \subseteq Sound,
             \A n \in Sound' : /\ nodes'[n].ofports = nodes[n].ofports
                               /\ bridge'[n].tunnels = bridge[n].tunnels
      PROVE  MeshIsComplete'
  <2> SUFFICES ASSUME NEW n \in Sound'
               PROVE  /\ bridge'[n].tunnels = IF nodes'[n].ofports = None THEN {}
                                              ELSE nodes'[n].ofports
                      /\ Sound' \ {n} \subseteq bridge'[n].tunnels
    BY DEF MeshIsComplete
  <2>1. n \in Node /\ bridge[n] # None
    BY <1>3 DEF Sound
  <2>2. nodes'[n].ofports = nodes[n].ofports /\ bridge'[n].tunnels = bridge[n].tunnels
    BY <1>3
  <2> QED BY <1>2, <1>3, <2>1, <2>2
<1>4. CASE \/ \E k \in Net : PostNetwork(k) \/ DeleteNetwork(k)
           \/ \E p \in Port : DeletePort(p) \/ \E fields \in Tell[p] : PostPort(p, fields)
  <2>1. Mapped /\ \A n \in Node : NotServed(n) \/ Served(n)
    BY <1>4, RequestsServe
  <2>2. Sound' = Sound
    BY <2>1, ServedKnown
  <2>3. \A n \in Sound : /\ nodes'[n].ofports = nodes[n].ofports
                         /\ bridge'[n].tunnels = bridge[n].tunnels
    BY <1>1, <2>1, ServedTunnels DEF Sound
  <2> QED BY <1>3, <2>2, <2>3
<1>5. ASSUME UNCHANGED <<nodes, bridge>> PROVE MeshIsComplete'
    BY <1>3, <1>5 DEF Sound
<1>6. CASE \/ \E p \in Port : TagRead(p) \/ TagSet(p) \/ TagGiveUp(p) \/ Unplug(p)
           \/ \E n \in Node : AgentAnswers(n)
           \/ UNCHANGED vars
    BY <1>5, <1>6 DEF TagRead, TagSet, TagGiveUp, Unplug, AgentAnswers, ctlVars, vars
<1>7. ASSUME NEW n \in Node, AddTunnel(n) PROVE MeshIsComplete'
  <2>1. /\ n \notin Known
        /\ bridge'[n] # None =>
              /\ n \in up
              /\ bridge'[n].tunnels = Known
              /\ nodes'[n].ofports = IF Known = {} THEN None ELSE Known
    BY <1>7, AddTunnelDoes
  <2>2. ASSUME NEW m \in Node \ {n}
        PROVE  /\ (bridge'[m] = None <=> bridge[m] = None)
               /\ bridge[m] # None =>
                     \/ /\ n \notin up /\ nodes'[m].ofports = nodes[m].ofports
                        /\ bridge'[m].tunnels = bridge[m].tunnels
                     \/ /\ nodes'[m].ofports = More(nodes[m].ofports, n)
                        /\ bridge'[m].tunnels = bridge[m].tunnels \union {n}
    <3>1. CASE NotServed(m) /\ ~(n \in up /\ m \in Known /\ m \in up)
      BY <1>1, <3>1 DEF NotServed, Sound
    <3>2. CASE /\ Peers(m, n, More(nodes[m].ofports, n))
               /\ bridge[m] # None => bridge'[m].tunnels = bridge[m].tunnels \union {n}
      BY <3>2 DEF Peers
    <3> QED BY <1>7, <3>1, <3>2, AddTunnelDoes
  <2>3. Sound' \ {n} = Sound /\ (n \in Sound' => n \in up)
    BY <1>1, <2>1, <2>2 DEF Sound
  <2> SUFFICES ASSUME NEW m \in Sound'
               PROVE  /\ bridge'[m].tunnels = IF nodes'[m].ofports = None THEN {}
                                              ELSE nodes'[m].ofports
                      /\ Sound' \ {m} \subseteq bridge'[m].tunnels
    BY DEF MeshIsComplete
  <2>4. CASE m = n
    <3>1. bridge'[n] # None
      BY <2>4 DEF Sound
    <3>2. bridge'[n].tunnels = IF nodes'[n].ofports = None THEN {} ELSE nodes'[n].ofports
      <4>1. Known \in SUBSET Node
        BY <1>1
      <4> QED BY <2>1, <3>1, <4>1, OverlayAssumptions
    <3> QED BY <1>1, <2>1, <2>3, <2>4, <3>1, <3>2
  <2>5. CASE m # n
    <3>1. m \in Sound /\ m \in Node /\ bridge[m] # None
      BY <2>3, <2>5 DEF Sound
    <3>2. /\ bridge[m].tunnels = IF nodes[m].ofports = None THEN {} ELSE nodes[m].ofports
          /\ Sound \ {m} \subseteq bridge[m].tunnels
      BY <1>2, <3>1
    <3>3. CASE /\ n \notin up /\ nodes'[m].ofports = nodes[m].ofports
               /\ bridge'[m].tunnels = bridge[m].tunnels
      BY <2>3, <3>2, <3>3
    <3>4. CASE /\ nodes'[m].ofports = More(nodes[m].ofports, n)
               /\ bridge'[m].tunnels = bridge[m].tunnels \union {n}
      <4>1. More(nodes[m].ofports, n) = bridge[m].tunnels \union {n}
        BY <3>2 DEF More
      <4>2. bridge[m].tunnels \union {n} # None
        <5>1. bridge[m].tunnels \in SUBSET Node
          BY <3>1 DEF PoolInv, TypeOK, BridgeRecord
        <5>2. bridge[m].tunnels \union {n} \in SUBSET Node
          BY <5>1
        <5> QED BY <5>2, OverlayAssumptions
      <4> QED BY <2>3, <3>2, <3>4, <4>1, <4>2
    <3> QED BY <2>2, <2>5, <3>1, <3>3, <3>4
  <2> QED BY <2>4, <2>5
<1>8. ASSUME NEW n \in Node, DelTunnel(n) PROVE MeshIsComplete'
  <2>1. bridge'[n] = None
    BY <1>8, DelTunnelDoes
  <2>2. PICK done \in SUBSET (Known \ {n}) :
          /\ lonely' = (lonely \ {n}) \union {m \in done : nodes'[m].ofports = {}}
          /\ \A m \in Node \ {n} : \/ m \notin done /\ NotServed(m)
                                   \/ /\ m \in done /\ Peers(m, n, Less(nodes[m].ofports, n))
                                      /\ bridge[m] # None
                                            => bridge'[m].tunnels = bridge[m].tunnels \ {n}
    BY <1>8, DelTunnelDoes
  <2>3. ASSUME NEW m \in Node \ {n}
        PROVE  /\ (bridge'[m] = None <=> bridge[m] = None)
               /\ bridge[m] # None =>
                     \/ /\ nodes'[m].ofports = nodes[m].ofports
                        /\ bridge'[m].tunnels = bridge[m].tunnels
                     \/ /\ nodes'[m].ofports = Less(nodes[m].ofports, n)
                        /\ bridge'[m].tunnels = bridge[m].tunnels \ {n}
    BY <2>2 DEF NotServed, Peers
  <2>4. Sound' = Sound \ {n}
    BY <2>1, <2>3 DEF Sound
  <2> SUFFICES ASSUME NEW m \in Sound'
               PROVE  /\ bridge'[m].tunnels = IF nodes'[m].ofports = None THEN {}
                                              ELSE nodes'[m].ofports
                      /\ Sound' \ {m} \subseteq bridge'[m].tunnels
    BY DEF MeshIsComplete
  <2>5. m \in Sound /\ m \in Node \ {n} /\ bridge[m] # None
    BY <2>4 DEF Sound
  <2>6. /\ bridge[m].tunnels = IF nodes[m].ofports = None THEN {} ELSE nodes[m].ofports
        /\ Sound \ {m} \subseteq bridge[m].tunnels
    BY <1>2, <2>5
  <2>7. CASE /\ nodes'[m].ofports = nodes[m].ofports
             /\ bridge'[m].tunnels = bridge[m].tunnels
    BY <2>4, <2>6, <2>7
  <2>8. CASE /\ nodes'[m].ofports = Less(nodes[m].ofports, n)
             /\ bridge'[m].tunnels = bridge[m].tunnels \ {n}
    <3>1. CASE nodes[m].ofports = None
      BY <2>4, <2>6, <2>8, <3>1 DEF Less
    <3>2. CASE nodes[m].ofports # None
      <4>1. bridge[m].tunnels \in SUBSET Node
        BY <2>5 DEF PoolInv, TypeOK, BridgeRecord
      <4>2. bridge[m].tunnels \ {n} \in SUBSET Node
        BY <4>1
      <4>3. bridge[m].tunnels \ {n} # None
        BY <4>2, OverlayAssumptions
      <4> QED BY <2>4, <2>6, <2>8, <3>2, <4>3 DEF Less
    <3> QED BY <3>1, <3>2
  <2> QED BY <2>3, <2>5, <2>7, <2>8
<1>9. ASSUME NEW n \in Node, AgentFails(n) \/ AgentRestart(n) PROVE MeshIsComplete'
  <2>1. nodes' = nodes /\ bridge' = [bridge EXCEPT ![n] = None]
    BY <1>9 DEF AgentFails, AgentRestart
  <2>2. \A m \in Node : bridge'[m] # None => bridge'[m] = bridge[m]
    BY <2>1 DEF PoolInv, TypeOK
  <2> QED BY <1>3, <2>1, <2>2 DEF Sound
<1>10. CASE Restart
    BY <1>3, <1>10 DEF Restart, Sound
<1> QED BY <1>4, <1>6, <1>7, <1>8, <1>9, <1>10 DEF Next

(* Any two followed nodes have tunnels to each other.                            *)
THEOREM MeshIsCompleteHolds == Spec => []MeshIsComplete
<1>1. Init => MeshIsComplete
    BY DEF Init, MeshIsComplete, Sound
<1>2. PoolInv /\ MeshIsComplete /\ [Next]_vars => MeshIsComplete'
    BY MeshStep
<1> QED BY <1>1, <1>2, PoolAlways, PTL DEF Spec
-----------------------------------------------------------------------------
(* A port on a node is one Neutron has and the tunnel manager has been told of;  *)
(* the network of a compute port is known, and networks have VLANs there, so     *)
(* that its deletion does not fail before the port is removed.                   *)
Belongs(p, told) ==
    \/ IsOwner(p, told, "network")
    \/ IsOwner(p, told, "compute") /\ "host" \in told
Placed(n, p) ==
    /\ p \in alive /\ vPorts[p] # None /\ Belongs(p, vPorts[p]) /\ Host[p] = n
    /\ Owner[p] = "compute" => p \in vms /\ nodes[n].maps /\ NetOf[p] \in nets
PortsPlaced == \A n \in Known : \A p \in nodes[n].ports : Placed(n, p)

(* create_port_flow has run for the ports the tunnel manager has.                *)
PortsDone == \A p \in Port : vPorts[p] # None => ml2Ports[p] # None /\ ml2Ports[p].flow_exec

PortsInv == PoolInv /\ PortsPlaced /\ PortsDone

(* Where: the known node that hosts the port, if what was told says who owns it. *)
LEMMA WhereBelongs ==
    ASSUME NEW p, NEW told, NEW n
    PROVE  n \in Where(p, told) <=> n \in Known /\ Belongs(p, told) /\ Host[p] = n
BY DEF Where, Belongs, IsOwner

(* Only the requests for ports change what is recorded of them.                  *)
LEMMA PortsDoneStep ==
    ASSUME PortsInv, [Next]_vars
    PROVE  PortsDone'
<1> USE DEF ctlVars
<1>1. /\ PortsDone /\ PoolInv
      /\ ml2Ports \in [Port -> PortRecord \union {None}]
      /\ vPorts \in [Port -> (SUBSET Fields) \union {None}]
    BY DEF PortsInv, PoolInv, TypeOK
<1>2. ASSUME UNCHANGED <<ml2Ports, vPorts>> PROVE PortsDone'
    BY <1>1, <1>2 DEF PortsDone
<1>3. ASSUME NEW p \in Port, NEW fields \in Tell[p], PostPort(p, fields) PROVE PortsDone'
  <2>1. PICK told \in SUBSET Fields, done \in BOOLEAN :
             /\ ml2Ports' = [ml2Ports EXCEPT ![p] = [told |-> told, flow_exec |-> done]]
             /\ \/ CreatePortFlow(p, told) /\ done
                \/ /\ vPorts' = vPorts
                   /\ ml2Ports[p] # None /\ ml2Ports[p].flow_exec => done
    BY <1>1, <1>3, PostPortIs
  <2>2. ml2Ports'[p].flow_exec = done /\ ml2Ports'[p] # None
    <3>1. ml2Ports'[p] = [told |-> told, flow_exec |-> done]
      BY <1>1, <2>1
    <3>2. ml2Ports'[p] \in PortRecord
      BY <3>1 DEF PortRecord
    <3> QED BY <3>1, <3>2, OverlayAssumptions
  <2>3. \A q \in Port \ {p} : ml2Ports'[q] = ml2Ports[q]
    BY <1>1, <2>1
  <2>4. CASE CreatePortFlow(p, told) /\ done
    <3>1. vPorts' = [vPorts EXCEPT ![p] = told]
      BY <1>1, <2>4, CreatePortFlowDoes
    <3>2. \A q \in Port \ {p} : vPorts'[q] = vPorts[q]
      BY <1>1, <3>1
    <3> QED BY <1>1, <2>2, <2>3, <2>4, <3>2 DEF PortsDone
  <2>5. CASE vPorts' = vPorts /\ (ml2Ports[p] # None /\ ml2Ports[p].flow_exec => done)
    BY <1>1, <2>2, <2>3, <2>5 DEF PortsDone
  <2> QED BY <2>1, <2>4, <2>5
<1>4. ASSUME NEW p \in Port, DeletePort(p) PROVE PortsDone'
  <2>1. \/ UNCHANGED <<ml2Ports, vPorts>>
        \/ /\ vPorts' = [vPorts EXCEPT ![p] = None]
           /\ ml2Ports' = [ml2Ports EXCEPT ![p] = None]
        \/ /\ vPorts' = [vPorts EXCEPT ![p] = None]
           /\ \E n : ml2Ports' = [ml2Ports EXCEPT ![p] = IF DeletePortFails(p, n) THEN @ ELSE None]
    BY <1>4 DEF DeletePort
  <2>2. ASSUME vPorts' = [vPorts EXCEPT ![p] = None], \A q \in Port \ {p} : ml2Ports'[q] = ml2Ports[q]
        PROVE  PortsDone'
    BY <1>1, <2>2 DEF PortsDone
  <2> QED BY <1>1, <1>2, <2>1, <2>2
<1>5. CASE Restart
    BY <1>5 DEF Restart, PortsDone
<1>6. CASE \/ \E k \in Net : PostNetwork(k) \/ DeleteNetwork(k)
           \/ \E p \in Port : TagRead(p) \/ TagSet(p) \/ TagGiveUp(p) \/ Unplug(p)
           \/ \E n \in Node : \/ AddTunnel(n) \/ DelTunnel(n)
                              \/ AgentFails(n) \/ AgentAnswers(n) \/ AgentRestart(n)
           \/ UNCHANGED vars
    BY <1>2, <1>6 DEF PostNetwork, DeleteNetwork, TagRead, TagSet, TagGiveUp, Unplug, AddTunnel,
        DelTunnel, AgentFails, AgentAnswers, AgentRestart, vars
<1> QED BY <1>3, <1>4, <1>5, <1>6 DEF Next

(* Ports stay where they are while their records, and the networks that Neutron  *)
(* has ports of, stay.                                                           *)
LEMMA PortsPlacedStep ==
    ASSUME PortsInv, [Next]_vars
    PROVE  PortsPlaced'
<1> USE DEF ctlVars, neutron
<1>1. /\ PortsPlaced /\ PoolInv /\ PortsDone
      /\ nodes \in [Node -> NodeRecord \union {None}]
      /\ vPorts \in [Port -> (SUBSET Fields) \union {None}]
      /\ vms \subseteq Port /\ alive \subseteq Port
    BY DEF PortsInv, PoolInv, TypeOK
<1>2. \A n \in Node : nodes[n] # None =>
        nodes[n].ports \subseteq Port /\ \A p \in nodes[n].ports : Placed(n, p)
    BY <1>1 DEF NodeRecord, PortsPlaced, Known
<1>3. ASSUME UNCHANGED <<vPorts, vms, alive>>,
             \A p \in alive : NetOf[p] \in nets => NetOf[p] \in nets',
             \A n \in Node : nodes'[n] # None =>
                \/ nodes'[n].ports = {}
                \/ /\ nodes[n] # None /\ nodes'[n].ports = nodes[n].ports
                   /\ nodes[n].maps => nodes'[n].maps
      PROVE  PortsPlaced'
    BY <1>2, <1>3 DEF PortsPlaced, Placed, Known
<1>4. ASSUME NEW k \in Net, PostNetwork(k) PROVE PortsPlaced'
  <2>1. UNCHANGED <<vPorts, vms, alive>> /\ nets' = nets \union {k}
    BY <1>4 DEF PostNetwork
  <2>2. \A n \in Node : nodes'[n] # None =>
                 /\ nodes[n] # None /\ nodes'[n].ports = nodes[n].ports
                 /\ nodes[n].maps => nodes'[n].maps
    BY <1>1, <1>4, PostNetworkDoes DEF NotServed, Served
  <2> QED BY <1>3, <2>1, <2>2
<1>5. ASSUME NEW k \in Net, DeleteNetwork(k) PROVE PortsPlaced'
  <2>1. /\ UNCHANGED <<vPorts, vms, alive>> /\ nets' = nets \ {k}
        /\ \A p \in alive : NetOf[p] # k
    BY <1>5 DEF DeleteNetwork
  <2>2. \A n \in Node : nodes'[n] # None =>
                 /\ nodes[n] # None /\ nodes'[n].ports = nodes[n].ports
                 /\ nodes[n].maps => nodes'[n].maps
    BY <1>1, <1>5, DeleteNetworkDoes DEF NotServed, Served
  <2> QED BY <1>3, <2>1, <2>2
<1>6. ASSUME NEW p \in Port, NEW fields \in Tell[p], PostPort(p, fields) PROVE PortsPlaced'
  <2>1. alive' = alive \union {p} /\ nets' = nets
    BY <1>6 DEF PostPort
  <2>2. PICK told \in SUBSET Fields :
             \/ /\ CreatePortFlow(p, told)
                /\ ml2Ports[p] = None \/ ~ml2Ports[p].flow_exec
             \/ Nowhere /\ UNCHANGED <<vPorts, vms>>
    BY <1>1, <1>6, PostPortIs
  <2>3. CASE CreatePortFlow(p, told) /\ (ml2Ports[p] = None \/ ~ml2Ports[p].flow_exec)
    <3>1. vPorts[p] = None
      BY <1>1, <2>3 DEF PortsDone
    <3>2. /\ vPorts' = [vPorts EXCEPT ![p] = told] /\ vms \subseteq vms'
          /\ \A n \in Node :
                \/ NotServed(n)
                \/ /\ Served(n)
                   /\ \/ nodes'[n].ports = nodes[n].ports
                      \/ /\ nodes'[n].ports = nodes[n].ports \union {p}
                         /\ n \in Where(p, told)
                         /\ Owner[p] = "compute" => /\ p \in vms' /\ nodes'[n].maps
                                                    /\ NetOf[p] \in nets
      BY <1>1, <2>3, CreatePortFlowDoes
    <3>3. told # None
      BY OverlayAssumptions
    <3>4. vPorts'[p] = told /\ \A q \in Port \ {p} : vPorts'[q] = vPorts[q]
      BY <1>1, <3>2
    <3> SUFFICES ASSUME NEW n \in Node, nodes'[n] # None, NEW q \in nodes'[n].ports
                 PROVE  Placed(n, q)'
      BY DEF PortsPlaced, Known
    <3>5. nodes[n] # None /\ (nodes[n].maps => nodes'[n].maps)
      BY <3>2 DEF NotServed, Served
    <3>6. CASE q \in nodes[n].ports
      <4>1. Placed(n, q) /\ q \in Port
        BY <1>2, <3>5, <3>6
      <4>2. q # p
        BY <3>1, <4>1 DEF Placed
      <4> QED BY <2>1, <3>2, <3>4, <3>5, <4>1, <4>2 DEF Placed
    <3>7. CASE q \notin nodes[n].ports
      <4>1. /\ q = p /\ n \in Where(p, told)
            /\ Owner[p] = "compute" => /\ p \in vms' /\ nodes'[n].maps /\ NetOf[p] \in nets
        BY <3>2, <3>7 DEF NotServed
      <4>2. Belongs(p, told) /\ Host[p] = n
        BY <4>1, WhereBelongs
      <4> QED BY <2>1, <3>3, <3>4, <4>1, <4>2 DEF Placed, Belongs, IsOwner
    <3> QED BY <3>6, <3>7
  <2>4. CASE Nowhere /\ UNCHANGED <<vPorts, vms>>
    BY <1>2, <2>1, <2>4 DEF PortsPlaced, Placed, Nowhere, Known
  <2> QED BY <2>2, <2>3, <2>4
<1>7. ASSUME NEW p \in Port, DeletePort(p) PROVE PortsPlaced'
  <2>1. /\ alive' = alive \ {p} /\ nets' = nets
        /\ vPorts' = vPorts \/ vPorts' = [vPorts EXCEPT ![p] = None]
    BY <1>7 DEF DeletePort
  <2>2. \A q \in Port \ {p} : vPorts'[q] = vPorts[q]
    BY <1>1, <2>1
  <2>3. /\ vms \ {p} \subseteq vms'
        /\ \A n \in Node :
              \/ NotServed(n)
              \/ Served(n) /\ nodes'[n].ports = nodes[n].ports \ {p}
        /\ \/ ml2Ports[p] = None \/ vPorts[p] = None
           \/ \A n \in Where(p, vPorts[p]) :
                 \/ nodes'[n].ports = nodes[n].ports \ {p}
                 \/ Owner[p] = "compute" /\ (~nodes[n].maps \/ NetOf[p] \notin nets)
    BY <1>1, <1>7, DeletePortDoes
  <2> SUFFICES ASSUME NEW n \in Node, nodes'[n] # None, NEW q \in nodes'[n].ports
               PROVE  Placed(n, q)'
    BY DEF PortsPlaced, Known
  <2>4. /\ nodes[n] # None /\ (nodes[n].maps => nodes'[n].maps) /\ q \in nodes[n].ports
    BY <2>3 DEF NotServed, Served
  <2>5. Placed(n, q) /\ q \in Port
    BY <1>2, <2>4
  <2>6. q # p
    <3> SUFFICES ASSUME q = p PROVE FALSE
      OBVIOUS
    <3>1. vPorts[p] # None /\ ml2Ports[p] # None
      BY <1>1, <2>5 DEF Placed, PortsDone
    <3>2. n \in Where(p, vPorts[p])
      BY <2>4, <2>5, WhereBelongs DEF Placed, Known
    <3>3. Owner[p] = "compute" => nodes[n].maps /\ NetOf[p] \in nets
      BY <2>5 DEF Placed
    <3>4. nodes'[n].ports = nodes[n].ports \ {p}
      BY <2>3, <3>1, <3>2, <3>3
    <3> QED BY <3>4
  <2> QED BY <2>1, <2>2, <2>3, <2>4, <2>5, <2>6 DEF Placed
<1>8. ASSUME NEW n \in Node, AddTunnel(n) PROVE PortsPlaced'
  <2>1. UNCHANGED <<vPorts, vms, alive, nets>>
    BY <1>8 DEF AddTunnel
  <2>2. nodes'[n].ports = {}
    BY <1>1, <1>8, AddTunnelDoes
  <2>3. \A m \in Node \ {n} : nodes'[m] # None =>
                 /\ nodes[m] # None /\ nodes'[m].ports = nodes[m].ports
                 /\ nodes[m].maps => nodes'[m].maps
    BY <1>1, <1>8, AddTunnelDoes DEF NotServed, Peers
  <2> QED BY <1>3, <2>1, <2>2, <2>3
<1>9. ASSUME NEW n \in Node, DelTunnel(n) PROVE PortsPlaced'
  <2>1. UNCHANGED <<vPorts, vms, alive, nets>>
    BY <1>9 DEF DelTunnel
  <2>2. nodes'[n] = None
    BY <1>1, <1>9, DelTunnelDoes
  <2>3. \A m \in Node \ {n} : nodes'[m] # None =>
                 /\ nodes[m] # None /\ nodes'[m].ports = nodes[m].ports
                 /\ nodes[m].maps => nodes'[m].maps
    BY <1>1, <1>9, DelTunnelDoes DEF NotServed, Peers
  <2> QED BY <1>3, <2>1, <2>2, <2>3
<1>10. CASE \/ \E p \in Port : TagRead(p) \/ TagSet(p) \/ TagGiveUp(p) \/ Unplug(p)
            \/ \E n \in Node : AgentFails(n) \/ AgentAnswers(n) \/ AgentRestart(n)
            \/ UNCHANGED vars
    BY <1>3, <1>10 DEF TagRead, TagSet, TagGiveUp, Unplug, AgentFails, AgentAnswers, AgentRestart,
        vars
<1>11. CASE Restart
    BY <1>11 DEF Restart, PortsPlaced, Known
<1> QED BY <1>4, <1>5, <1>6, <1>7, <1>8, <1>9, <1>10, <1>11 DEF Next

(* What is said of the ports, with the first part, always holds.                 *)
LEMMA PortsAlways == Spec => []PortsInv
<1>1. Init => PortsInv
    BY PoolInit DEF Init, PortsInv, PortsPlaced, PortsDone, Known
<1>2. PortsInv /\ [Next]_vars => PortsInv'
    BY PoolStep, PortsPlacedStep, PortsDoneStep DEF PortsInv
<1> QED BY <1>1, <1>2, PTL DEF Spec

(* The connector, the tunnel manager and the nodes tell of the same ports.       *)
THEOREM PortRecordsHolds == Spec => []PortRecords
<1>1. PortsInv => PortRecords
    BY DEF PortsInv, PortsPlaced, PortsDone, Placed, PortRecords
<1> QED BY <1>1, PortsAlways, PTL
-----------------------------------------------------------------------------
(* A node that lost its last tunnel is marked.                                   *)
LonelyMarked == \A n \in Known : nodes[n].ofports = {} => n \in lonely

(* On a followed node, only a port of the node has a tag or a thread that tags   *)
(* it; and if the node never lost its last tunnel, the tag is that of the VLAN   *)
(* the network of the port has there now, though the thread read it earlier.     *)
TagTrue(p) ==
    /\ Host[p] \notin Sound => tag[p] = None
    /\ p \in alive /\ Host[p] \in Sound =>
          /\ tag[p] # None \/ tagging[p] # Idle => p \in nodes[Host[p]].ports
          /\ Host[p] \notin lonely =>
                /\ tag[p] # None => nodes[Host[p]].vlan[NetOf[p]] = tag[p]
                /\ tagging[p] \in Vlan => nodes[Host[p]].vlan[NetOf[p]] = tagging[p]
TagsTrue == \A p \in Port : TagTrue(p)

(* delTunnel marks the nodes it leaves without a tunnel, and nothing unmarks one *)
(* while it is known.                                                            *)
LEMMA LonelyStep ==
    ASSUME PoolInv, LonelyMarked, [Next]_vars
    PROVE  LonelyMarked'
<1> USE DEF ctlVars, history
<1>1. \A n \in Node : nodes[n] # None /\ nodes[n].ofports = {} => n \in lonely
    BY DEF LonelyMarked, Known
<1>2. ASSUME lonely' = lonely,
             \A n \in Node : nodes'[n] # None => nodes[n] # None /\ nodes'[n].ofports = nodes[n].ofports
      PROVE  LonelyMarked'
    BY <1>1, <1>2 DEF LonelyMarked, Known
<1>3. CASE \/ \E k \in Net : PostNetwork(k) \/ DeleteNetwork(k)
           \/ \E p \in Port : DeletePort(p) \/ \E fields \in Tell[p] : PostPort(p, fields)
  <2>1. Mapped /\ \A n \in Node : NotServed(n) \/ Served(n)
    BY <1>3, RequestsServe
  <2>2. \A n \in Node : nodes'[n] # None => nodes[n] # None
    BY <2>1, ServedKnown
  <2>3. lonely' = lonely
    BY <1>3 DEF PostNetwork, DeleteNetwork, PostPort, DeletePort
  <2> QED BY <1>2, <2>1, <2>2, <2>3, ServedTunnels
<1>4. CASE \/ \E p \in Port : TagRead(p) \/ TagSet(p) \/ TagGiveUp(p) \/ Unplug(p)
           \/ \E n \in Node : AgentAnswers(n) \/ AgentFails(n) \/ AgentRestart(n)
           \/ UNCHANGED vars
    BY <1>2, <1>4 DEF TagRead, TagSet, TagGiveUp, Unplug, AgentAnswers, AgentFails, AgentRestart,
        vars
<1>5. ASSUME NEW n \in Node, AddTunnel(n) PROVE LonelyMarked'
  <2>1. lonely' = lonely
    BY <1>5 DEF AddTunnel
  <2>2. nodes'[n].ofports # {}
    BY <1>5, AddTunnelDoes
  <2>3. \A m \in Node \ {n} : NotServed(m) \/ nodes'[m].ofports = More(nodes[m].ofports, n)
    BY <1>5, AddTunnelDoes DEF Peers
  <2> QED BY <1>1, <2>1, <2>2, <2>3 DEF LonelyMarked, Known, NotServed, More
<1>6. ASSUME NEW n \in Node, DelTunnel(n) PROVE LonelyMarked'
  <2>1. nodes'[n] = None
    BY <1>6, DelTunnelDoes
  <2>2. PICK done \in SUBSET (Known \ {n}) :
          /\ lonely' = (lonely \ {n}) \union {m \in done : nodes'[m].ofports = {}}
          /\ \A m \in Node \ {n} : \/ m \notin done /\ NotServed(m)
                                   \/ /\ m \in done /\ Peers(m, n, Less(nodes[m].ofports, n))
                                      /\ bridge[m] # None
                                            => bridge'[m].tunnels = bridge[m].tunnels \ {n}
    BY <1>6, DelTunnelDoes
  <2> QED BY <1>1, <2>1, <2>2 DEF LonelyMarked, Known, NotServed
<1>7. CASE Restart
    BY <1>7 DEF Restart, LonelyMarked, Known
<1> QED BY <1>3, <1>4, <1>5, <1>6, <1>7 DEF Next

(* What leaves the tag of a port true: its node keeps it, and keeps the VLAN of  *)
(* its network, or is marked.                                                    *)
LEMMA TagStays ==
    ASSUME NEW p \in Port, TagTrue(p), tag'[p] = tag[p], tagging'[p] = tagging[p],
           p \in alive' => p \in alive, Host[p] \in Sound' <=> Host[p] \in Sound,
           p \in alive /\ Host[p] \in Sound /\ p \in nodes[Host[p]].ports
              => /\ p \in nodes'[Host[p]].ports
                 /\ Host[p] \notin lonely' =>
                       /\ Host[p] \notin lonely
                       /\ nodes[Host[p]].vlan[NetOf[p]] # None
                             => nodes'[Host[p]].vlan[NetOf[p]] = nodes[Host[p]].vlan[NetOf[p]]
    PROVE  TagTrue(p)'
<1>1. Idle \notin Vlan /\ None \notin Vlan
    BY OverlayAssumptions
<1>2. CASE Host[p] \notin Sound
    BY <1>2 DEF TagTrue
<1>3. CASE p \notin alive
    BY <1>3 DEF TagTrue
<1>4. CASE Host[p] \in Sound /\ p \in alive /\ (tag[p] # None \/ tagging[p] # Idle)
    BY <1>1, <1>4 DEF TagTrue
<1>5. CASE tag[p] = None /\ tagging[p] = Idle
    BY <1>1, <1>5 DEF TagTrue
<1> QED BY <1>2, <1>3, <1>4, <1>5

(* PortTagging reads before it sets: what it read stays the VLAN of the network  *)
(* while its port is on the node.                                                *)
LEMMA TagsStep ==
    ASSUME PortsInv, PortsInv', LonelyMarked, TagsTrue, [Next]_vars
    PROVE  TagsTrue'
<1> USE DEF ctlVars, history, neutron
<1>1. /\ PoolInv /\ PortsPlaced /\ PortsDone
      /\ Sound \subseteq Known /\ Known \subseteq Node
      /\ tagging \in [Port -> {Idle, Unread} \union Vlan] /\ tag \in [Port -> Vlan \union {None}]
      /\ nodes \in [Node -> NodeRecord \union {None}] /\ bridge \in [Node -> BridgeRecord \union {None}]
    BY DEF PortsInv, PoolInv, TypeOK, Known
<1>2. /\ Idle \notin Vlan /\ None \notin Vlan /\ Unread \notin Vlan /\ Idle # Unread
      /\ \A p \in Port : Host[p] \in Node /\ NetOf[p] \in Net
    BY OverlayAssumptions
<1>3. \A p \in Port : TagTrue(p)
    BY DEF TagsTrue
<1>4. \A n \in Sound : /\ nodes[n] # None
                       /\ n \notin lonely => nodes[n].ofports # {}
                       /\ Used(nodes[n]) \subseteq nets
                       /\ \A k \in Net : nodes[n].vlan[k] # None => k \in nets
    BY <1>1 DEF LonelyMarked, Known, PoolInv, NetsKnown, Used
<1>5. ASSUME NEW k \in Net, PostNetwork(k) PROVE TagsTrue'
  <2>1. UNCHANGED <<tag, tagging, alive, lonely>> /\ k \notin nets
    BY <1>5 DEF PostNetwork
  <2>2. Sound' = Sound
    BY <1>1, <1>5, RequestsServe, ServedKnown
  <2>3. \A n \in Sound :
           /\ nodes'[n].ports = nodes[n].ports
           /\ n \notin lonely => \A l \in Net \ {k} : nodes'[n].vlan[l] = nodes[n].vlan[l]
    BY <1>1, <1>4, <1>5, PostNetworkDoes DEF NotServed
  <2>4. ASSUME NEW p \in Port PROVE TagTrue(p)'
    BY <1>2, <1>3, <1>4, <2>1, <2>2, <2>3, TagStays
  <2> QED BY <2>4 DEF TagsTrue
<1>6. ASSUME NEW k \in Net, DeleteNetwork(k) PROVE TagsTrue'
  <2>1. UNCHANGED <<tag, tagging, alive, lonely>> /\ \A p \in alive : NetOf[p] # k
    BY <1>6 DEF DeleteNetwork
  <2>2. Sound' = Sound
    BY <1>1, <1>6, RequestsServe, ServedKnown
  <2>3. \A n \in Sound :
           /\ nodes'[n].ports = nodes[n].ports
           /\ \A l \in Net \ {k} : nodes'[n].vlan[l] = nodes[n].vlan[l]
    BY <1>1, <1>4, <1>6, DeleteNetworkDoes DEF NotServed
  <2>4. ASSUME NEW p \in Port PROVE TagTrue(p)'
    BY <1>2, <1>3, <2>1, <2>2, <2>3, TagStays
  <2> QED BY <2>4 DEF TagsTrue
<1>7. ASSUME NEW p \in Port, NEW fields \in Tell[p], PostPort(p, fields) PROVE TagsTrue'
  <2>1. UNCHANGED <<tag, lonely>> /\ alive' = alive \union {p} /\ (p \in alive \/ NoTrace(p))
    BY <1>7 DEF PostPort
  <2>2. Sound' = Sound
    BY <1>1, <1>7, RequestsServe, ServedKnown
  <2>3. PICK told \in SUBSET Fields :
             \/ /\ CreatePortFlow(p, told)
                /\ ml2Ports[p] = None \/ ~ml2Ports[p].flow_exec
             \/ Nowhere /\ UNCHANGED tagging
    BY <1>1, <1>7, PostPortIs
  <2>4. /\ \A n \in Sound :
           /\ nodes[n].ports \subseteq nodes'[n].ports
           /\ n \notin lonely => \A l \in Used(nodes[n]) : nodes'[n].vlan[l] = nodes[n].vlan[l]
    <3>1. CASE CreatePortFlow(p, told)
      BY <1>1, <1>4, <3>1, CreatePortFlowDoes DEF NotServed
    <3>2. CASE Nowhere
      BY <3>2 DEF Nowhere
    <3> QED BY <2>3, <3>1, <3>2
  <2>5. \/ tagging' = tagging
        \/ /\ tagging' = [tagging EXCEPT ![p] = Unread]
           /\ p \in nodes'[Host[p]].ports
           /\ vPorts[p] = None
    <3>1. CASE CreatePortFlow(p, told) /\ (ml2Ports[p] = None \/ ~ml2Ports[p].flow_exec)
      <4>1. vPorts[p] = None
        BY <1>1, <3>1 DEF PortsDone
      <4>2. \/ tagging' = tagging
            \/ /\ tagging' = [tagging EXCEPT ![p] = Unread]
               /\ \E n \in Where(p, told) : p \in nodes'[n].ports
        BY <1>1, <3>1, CreatePortFlowDoes
      <4> QED BY <4>1, <4>2, WhereIs
    <3> QED BY <2>3, <3>1
  <2>6. ASSUME NEW q \in Port, q # p PROVE TagTrue(q)'
    <3>1. tagging'[q] = tagging[q]
      BY <1>1, <2>5, <2>6
    <3> QED BY <1>2, <1>3, <2>1, <2>2, <2>4, <2>6, <3>1, TagStays DEF Used
  <2>7. TagTrue(p)'
    <3>1. CASE p \in alive /\ tagging' = tagging
      BY <1>2, <1>3, <2>1, <2>2, <2>4, <3>1, TagStays DEF Used
    <3>2. CASE p \notin alive /\ tagging' = tagging
      <4>1. tag'[p] = None /\ tagging'[p] = Idle
        BY <2>1, <3>2 DEF NoTrace
      <4> QED BY <1>2, <4>1 DEF TagTrue
    <3>3. CASE tagging' = [tagging EXCEPT ![p] = Unread] /\ p \in nodes'[Host[p]].ports
               /\ vPorts[p] = None
      <4>1. tagging'[p] = Unread
        BY <1>1, <3>3
      <4>2. ASSUME p \in alive, Host[p] \in Sound PROVE tag[p] = None
        <5>1. p \notin nodes[Host[p]].ports
          BY <1>1, <3>3, <4>2 DEF PortsPlaced, Placed
        <5> QED BY <1>3, <4>2, <5>1 DEF TagTrue
      <4>3. tag'[p] = None
        BY <1>3, <2>1, <4>2 DEF NoTrace, TagTrue
      <4> QED BY <1>2, <3>3, <4>1, <4>3 DEF TagTrue
    <3> QED BY <2>5, <3>1, <3>2, <3>3
  <2> QED BY <2>6, <2>7 DEF TagsTrue
<1>8. ASSUME NEW p \in Port, DeletePort(p) PROVE TagsTrue'
  <2>1. UNCHANGED <<tag, tagging, lonely>> /\ alive' = alive \ {p}
    BY <1>8 DEF DeletePort
  <2>2. Sound' = Sound
    BY <1>1, <1>8, RequestsServe, ServedKnown
  <2>3. \A n \in Sound :
           \/ nodes'[n] = nodes[n]
           \/ /\ nodes'[n].ports = nodes[n].ports \ {p}
              /\ nodes'[n].ports # {} => nodes'[n].vlan = nodes[n].vlan
    BY <1>1, <1>8, DeletePortDoes DEF NotServed
  <2>4. ASSUME NEW q \in Port, q # p PROVE TagTrue(q)'
    <3>1. Host[q] \in Sound /\ q \in nodes[Host[q]].ports =>
            /\ q \in nodes'[Host[q]].ports
            /\ nodes'[Host[q]].vlan = nodes[Host[q]].vlan
      BY <2>3, <2>4
    <3> QED BY <1>3, <2>1, <2>2, <3>1, TagStays
  <2>5. TagTrue(p)'
    BY <1>3, <2>1, <2>2 DEF TagTrue
  <2> QED BY <2>4, <2>5 DEF TagsTrue
(* The threads: one port at a time. *)
<1>9. ASSUME UNCHANGED <<nodes, bridge, alive, lonely>>, NEW p \in Port,
             \A q \in Port \ {p} : tag'[q] = tag[q] /\ tagging'[q] = tagging[q],
             TagTrue(p)'
      PROVE  TagsTrue'
  <2>1. Sound' = Sound
    BY <1>9 DEF Sound
  <2>2. ASSUME NEW q \in Port, q # p PROVE TagTrue(q)'
    BY <1>3, <1>9, <2>1, <2>2, TagStays
  <2> QED BY <1>9, <2>2 DEF TagsTrue
<1>10. ASSUME NEW p \in Port, TagRead(p) PROVE TagsTrue'
  <2>1. UNCHANGED <<nodes, bridge, alive, lonely, tag>> /\ tagging[p] = Unread
    BY <1>10 DEF TagRead
  <2>2. /\ \A q \in Port \ {p} : tagging'[q] = tagging[q]
        /\ tagging'[p] = Idle \/ tagging'[p] = nodes[Host[p]].vlan[NetOf[p]]
    BY <1>1, <1>10 DEF TagRead
  <2>3. Sound' = Sound /\ TagTrue(p)
    BY <1>3, <2>1 DEF Sound
  <2>4. TagTrue(p)'
    BY <1>2, <2>1, <2>2, <2>3 DEF TagTrue
  <2> QED BY <1>9, <2>1, <2>2, <2>4
<1>11. ASSUME NEW p \in Port, TagSet(p) PROVE TagsTrue'
  <2>1. UNCHANGED <<nodes, bridge, alive, lonely>> /\ tagging[p] \in Vlan
    BY <1>11 DEF TagSet
  <2>2. /\ \A q \in Port \ {p} : tagging'[q] = tagging[q] /\ tag'[q] = tag[q]
        /\ tagging'[p] = Idle
        /\ tag'[p] = IF Host[p] \in Sound THEN tagging[p] ELSE None
    BY <1>1, <1>11 DEF TagSet
  <2>3. Sound' = Sound /\ TagTrue(p)
    BY <1>3, <2>1 DEF Sound
  <2>4. TagTrue(p)'
    BY <1>2, <2>1, <2>2, <2>3 DEF TagTrue
  <2> QED BY <1>9, <2>1, <2>2, <2>4
<1>12. ASSUME NEW p \in Port, TagGiveUp(p) PROVE TagsTrue'
  <2>1. UNCHANGED <<nodes, bridge, alive, lonely, tag>>
    BY <1>12 DEF TagGiveUp
  <2>2. (\A q \in Port \ {p} : tagging'[q] = tagging[q]) /\ tagging'[p] = Idle
    BY <1>1, <1>12 DEF TagGiveUp
  <2>3. Sound' = Sound /\ TagTrue(p)
    BY <1>3, <2>1 DEF Sound
  <2>4. TagTrue(p)'
    BY <1>2, <2>1, <2>2, <2>3 DEF TagTrue
  <2> QED BY <1>9, <2>1, <2>2, <2>4
<1>13. ASSUME NEW p \in Port, Unplug(p) PROVE TagsTrue'
  <2>1. UNCHANGED <<nodes, bridge, alive, lonely, tagging>>
    BY <1>13 DEF Unplug
  <2>2. (\A q \in Port \ {p} : tag'[q] = tag[q]) /\ tag'[p] = None
    BY <1>1, <1>13 DEF Unplug
  <2>3. Sound' = Sound /\ TagTrue(p)
    BY <1>3, <2>1 DEF Sound
  <2>4. TagTrue(p)'
    BY <1>2, <2>1, <2>2, <2>3 DEF TagTrue
  <2> QED BY <1>9, <2>1, <2>2, <2>4
<1>14. ASSUME UNCHANGED <<nodes, bridge, alive, lonely, tag, tagging>> PROVE TagsTrue'
  <2>1. Sound' = Sound
    BY <1>14 DEF Sound
  <2>2. ASSUME NEW q \in Port PROVE TagTrue(q)'
    BY <1>3, <1>14, <2>1, TagStays
  <2> QED BY <2>2 DEF TagsTrue
<1>15. CASE (\E n \in Node : AgentAnswers(n)) \/ UNCHANGED vars
    BY <1>14, <1>15 DEF AgentAnswers, vars
<1>16. ASSUME NEW n \in Node, AddTunnel(n) PROVE TagsTrue'
  <2>1. UNCHANGED <<tag, tagging, alive, lonely>>
    BY <1>16 DEF AddTunnel
  <2>2. n \notin Known /\ (bridge'[n] # None => \A p \in Port : Host[p] = n => tagging[p] = Idle)
    <3>1. CASE n \in up /\ Effect([m \in Known \union {n} |-> Mesh(n, m)])
      <4> DEFINE sites == [m \in Known \union {n} |-> Mesh(n, m)]
      <4>1. DOMAIN sites = Known \union {n} /\ sites[n] = Join(n)
        BY DEF Mesh
      <4>2. Effect(sites)
        BY <3>1
      <4> HIDE DEF sites
      <4>3. bridge'[n] = Join(n).bridge
        BY <4>1, <4>2, EffectAt
      <4> QED BY <1>16, <4>3 DEF Join, AddTunnel
    <3>2. CASE Effect([m \in {n} |-> [node |-> NewNode, bridge |-> None]])
      <4> DEFINE r == [node |-> NewNode, bridge |-> None]
                 sites == [m \in {n} |-> r]
      <4>1. DOMAIN sites = {n} /\ sites[n] = r /\ r.bridge = None
        OBVIOUS
      <4>2. Effect(sites)
        BY <3>2
      <4> HIDE DEF sites, r
      <4>3. bridge'[n] = None
        BY <4>1, <4>2, EffectAt
      <4> QED BY <1>16, <4>3 DEF AddTunnel
    <3> QED BY <1>16, <3>1, <3>2 DEF AddTunnel
  <2>3. ASSUME NEW m \in Node, m # n
        PROVE  /\ (bridge'[m] = None <=> bridge[m] = None)
               /\ nodes[m] # None =>
                     nodes'[m].ports = nodes[m].ports /\ nodes'[m].vlan = nodes[m].vlan
    <3>1. More(nodes[m].ofports, n) # {}
      BY DEF More
    <3>2. NotServed(m) \/ Peers(m, n, More(nodes[m].ofports, n))
      BY <1>1, <1>16, <2>3, AddTunnelDoes
    <3>3. CASE NotServed(m)
      BY <3>3 DEF NotServed
    <3>4. CASE Peers(m, n, More(nodes[m].ofports, n))
      BY <3>1, <3>4 DEF Peers
    <3> QED BY <3>2, <3>3, <3>4
  <2>4. ASSUME NEW p \in Port, Host[p] # n PROVE TagTrue(p)'
    <3>1. Host[p] \in Sound' <=> Host[p] \in Sound
      BY <1>2, <2>3, <2>4 DEF Sound
    <3>2. Host[p] \in Sound => /\ nodes'[Host[p]].ports = nodes[Host[p]].ports
                               /\ nodes'[Host[p]].vlan = nodes[Host[p]].vlan
      BY <1>1, <1>2, <1>4, <2>3, <2>4
    <3> QED BY <1>3, <2>1, <3>1, <3>2, TagStays
  <2>5. ASSUME NEW p \in Port, Host[p] = n PROVE TagTrue(p)'
    <3>1. tag'[p] = None
      BY <1>1, <1>3, <2>1, <2>2, <2>5 DEF TagTrue
    <3>2. Host[p] \in Sound' => tagging'[p] = Idle
      BY <2>1, <2>2, <2>5 DEF Sound
    <3> QED BY <1>2, <3>1, <3>2 DEF TagTrue
  <2> QED BY <2>4, <2>5 DEF TagsTrue
<1>17. ASSUME NEW n \in Node, DelTunnel(n) PROVE TagsTrue'
  <2>1. UNCHANGED <<tagging, alive>> /\ Forget({n})
    BY <1>17 DEF DelTunnel
  <2>2. \A p \in Port : tag'[p] = IF Host[p] = n THEN None ELSE tag[p]
    BY <2>1 DEF Forget
  <2>3. bridge'[n] = None
    BY <1>1, <1>17, DelTunnelDoes
  <2>4. PICK done \in SUBSET (Known \ {n}) :
          /\ lonely' = (lonely \ {n}) \union {m \in done : nodes'[m].ofports = {}}
          /\ \A m \in Node \ {n} : \/ m \notin done /\ NotServed(m)
                                   \/ /\ m \in done /\ Peers(m, n, Less(nodes[m].ofports, n))
                                      /\ bridge[m] # None
                                            => bridge'[m].tunnels = bridge[m].tunnels \ {n}
    BY <1>1, <1>17, DelTunnelDoes
  <2>5. ASSUME NEW m \in Node, m # n
        PROVE  /\ (bridge'[m] = None <=> bridge[m] = None)
               /\ nodes[m] # None =>
                     /\ nodes'[m].ports = nodes[m].ports
                     /\ m \notin lonely' => m \notin lonely /\ nodes'[m].vlan = nodes[m].vlan
    <3>1. CASE m \notin done /\ NotServed(m)
      BY <2>4, <2>5, <3>1 DEF NotServed
    <3>2. CASE m \in done /\ Peers(m, n, Less(nodes[m].ofports, n))
      BY <2>4, <2>5, <3>2 DEF Peers
    <3> QED BY <2>4, <2>5, <3>1, <3>2
  <2>6. ASSUME NEW p \in Port, Host[p] # n PROVE TagTrue(p)'
    <3>1. Host[p] \in Sound' <=> Host[p] \in Sound
      BY <1>2, <2>5, <2>6 DEF Sound
    <3>2. Host[p] \in Sound => /\ nodes'[Host[p]].ports = nodes[Host[p]].ports
                               /\ Host[p] \notin lonely' =>
                                     /\ Host[p] \notin lonely
                                     /\ nodes'[Host[p]].vlan = nodes[Host[p]].vlan
      BY <1>1, <1>2, <1>4, <2>5, <2>6
    <3> QED BY <1>3, <2>1, <2>2, <2>6, <3>1, <3>2, TagStays
  <2>7. ASSUME NEW p \in Port, Host[p] = n PROVE TagTrue(p)'
    BY <2>2, <2>3, <2>7 DEF TagTrue, Sound
  <2> QED BY <2>6, <2>7 DEF TagsTrue
<1>18. ASSUME NEW n \in Node, AgentFails(n) \/ AgentRestart(n) PROVE TagsTrue'
  <2>1. /\ UNCHANGED <<nodes, tagging, alive, lonely>> /\ Forget({n})
        /\ bridge' = [bridge EXCEPT ![n] = None]
    BY <1>18 DEF AgentFails, AgentRestart
  <2>2. \A p \in Port : tag'[p] = IF Host[p] = n THEN None ELSE tag[p]
    BY <2>1 DEF Forget
  <2>3. Sound' = Sound \ {n}
    BY <1>1, <2>1 DEF Sound
  <2>4. ASSUME NEW p \in Port, Host[p] # n PROVE TagTrue(p)'
    BY <1>3, <2>1, <2>2, <2>3, <2>4, TagStays
  <2>5. ASSUME NEW p \in Port, Host[p] = n PROVE TagTrue(p)'
    BY <2>2, <2>3, <2>5 DEF TagTrue
  <2> QED BY <2>4, <2>5 DEF TagsTrue
<1>19. CASE Restart
  <2>1. Sound' = {} /\ \A p \in Port : tag'[p] = None
    BY <1>2, <1>19 DEF Restart, Sound, Forget
  <2> QED BY <2>1 DEF TagsTrue, TagTrue
<1> QED BY <1>5, <1>6, <1>7, <1>8, <1>10, <1>11, <1>12, <1>13, <1>15, <1>16, <1>17, <1>18, <1>19
        DEF Next

(* Two ports of different networks never carry the same VLAN tag on a node that  *)
(* is followed and never lost its last tunnel.                                   *)
THEOREM TenantsApartHolds == Spec => []TenantsApart
<1>1. Init => LonelyMarked /\ TagsTrue
    BY DEF Init, LonelyMarked, TagsTrue, TagTrue, Known, Sound
<1>2. /\ PortsInv /\ PortsInv' /\ LonelyMarked /\ TagsTrue /\ [Next]_vars
      => LonelyMarked' /\ TagsTrue'
    BY LonelyStep, TagsStep DEF PortsInv
<1>3. PortsInv /\ TagsTrue => TenantsApart
  <2> SUFFICES ASSUME PortsInv, TagsTrue, NEW p \in alive, NEW q \in alive,
                      Host[p] = Host[q], Host[p] \in Sound \ lonely,
                      tag[p] # None, tag[p] = tag[q]
               PROVE  NetOf[p] = NetOf[q]
    BY DEF TenantsApart
  <2> DEFINE n == Host[p]
  <2>1. p \in Port /\ q \in Port /\ n \in Known /\ PoolInv
    BY DEF PortsInv, PoolInv, TypeOK
  <2>2. nodes[n].vlan[NetOf[p]] = tag[p] /\ nodes[n].vlan[NetOf[q]] = tag[p]
    BY <2>1 DEF TagsTrue, TagTrue
  <2>3. NetOf[p] \in Used(nodes[n]) /\ NetOf[q] \in Used(nodes[n])
    BY <2>1, <2>2, OverlayAssumptions DEF Used
  <2> HIDE DEF n
  <2>4. Pool(nodes[n], leaked[n])
    BY <2>1, SiteOf DEF RawSite
  <2> QED BY <2>2, <2>3, <2>4 DEF Pool
<1> QED BY <1>1, <1>2, <1>3, PortsAlways, PTL DEF Spec
=============================================================================
