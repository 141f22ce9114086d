--------------------------- MODULE TopologyProofs ---------------------------
(***************************************************************************)
(* Proofs about TopologyManager, for every set of switches, ports and      *)
(* links, and with no bound on the queue of updates.                       *)
(***************************************************************************)
EXTENDS TopologyManager, TLAPS

(* What addLinkToStructure and removeLinkFromStructure do to a structure that   *)
(* files every link under both ports: the result files every link under both    *)
(* ports, and exactly the link in question has been added or removed.           *)
LEMMA AddToStructure ==
    ASSUME NEW S \in PortLinks, NEW l \in Link, TwoSided(S)
    PROVE  /\ AddTo(S, l) \in PortLinks
           /\ TwoSided(AddTo(S, l))
           /\ \A n \in NodePort, k \in Link :
                 k \in AddTo(S, l)[n] <=> k \in S[n] \/ (k = l /\ n \in Ends(l))
<1>1. l.src \in NodePort /\ l.dst \in NodePort
    BY TopologyAssumptions
<1>2. AddTo(S, l) \in PortLinks
    BY <1>1 DEF AddTo, PortLinks
<1>3. \A n \in NodePort, k \in Link :
         k \in AddTo(S, l)[n] <=> k \in S[n] \/ (k = l /\ n \in Ends(l))
    BY DEF AddTo, PortLinks
<1>4. TwoSided(AddTo(S, l))
  <2> SUFFICES ASSUME NEW n \in NodePort, NEW k \in AddTo(S, l)[n], NEW m \in Ends(k)
               PROVE  n \in Ends(k) /\ k \in AddTo(S, l)[m]
      BY <1>2, TopologyAssumptions DEF TwoSided, Ends, PortLinks
  <2>1. k \in Link
      BY <1>2 DEF PortLinks
  <2>2. m \in NodePort
      BY <2>1, TopologyAssumptions DEF Ends
  <2> QED BY <1>3, <2>1, <2>2 DEF TwoSided
<1> QED BY <1>2, <1>3, <1>4

LEMMA RemoveFromStructure ==
    ASSUME NEW S \in PortLinks, NEW l \in Link, TwoSided(S)
    PROVE  /\ RemoveFrom(S, l) \in PortLinks
           /\ TwoSided(RemoveFrom(S, l))
           /\ \A n \in NodePort, k \in Link :
                 k \in RemoveFrom(S, l)[n] <=> k \in S[n] /\ k # l
<1>1. RemoveFrom(S, l) \in PortLinks
    BY DEF RemoveFrom, PortLinks
<1>2. \A n \in NodePort, k \in Link :
         k \in RemoveFrom(S, l)[n] <=> k \in S[n] /\ k # l
    BY DEF RemoveFrom, PortLinks, TwoSided
<1>3. TwoSided(RemoveFrom(S, l))
  <2> SUFFICES ASSUME NEW n \in NodePort, NEW k \in RemoveFrom(S, l)[n], NEW m \in Ends(k)
               PROVE  n \in Ends(k) /\ k \in RemoveFrom(S, l)[m]
      BY <1>1, TopologyAssumptions DEF TwoSided, Ends, PortLinks
  <2>1. k \in Link
      BY <1>1 DEF PortLinks
  <2>2. m \in NodePort
      BY <2>1, TopologyAssumptions DEF Ends
  <2> QED BY <1>2, <2>1, <2>2 DEF TwoSided
<1> QED BY <1>1, <1>2, <1>3

(* addOrUpdateLink keeps the structures in agreement: afterwards the link is    *)
(* filed under its kind and under no other, and nothing else has changed.       *)
LEMMA AddAgrees ==
    ASSUME TopoTypeOK, StructuresAgree,
           NEW l \in Link, NEW type \in LinkType, AddOrUpdateLink(l, type)
    PROVE  /\ StructuresAgree'
           /\ switchPorts' \in [Switch -> SUBSET NodePort]
           /\ switchPortLinks' \in PortLinks /\ directLinks' \in PortLinks
           /\ portBroadcastDomainLinks' \in PortLinks /\ tunnelLinks' \in PortLinks
           /\ linksUpdated' = TRUE /\ dtLinksUpdated' \in BOOLEAN
<1> DEFINE Filed(S, T, kind) ==
        \A n \in NodePort, k \in Link :
            k \in T[n] <=> IF k = l THEN type = kind /\ n \in Ends(l) ELSE k \in S[n]
<1>1. ASSUME NEW S \in PortLinks, NEW T, NEW kind \in LinkType, TwoSided(S),
             T = IF type = kind THEN AddTo(S, l) ELSE RemoveFrom(S, l)
      PROVE  T \in PortLinks /\ TwoSided(T) /\ Filed(S, T, kind)
  <2>1. CASE type = kind
      BY <1>1, <2>1, AddToStructure DEF TwoSided, PortLinks
  <2>2. CASE type # kind
      BY <1>1, <2>2, RemoveFromStructure
  <2> QED BY <2>1, <2>2
<1>2. /\ directLinks' \in PortLinks /\ TwoSided(directLinks')
      /\ Filed(directLinks, directLinks', "DIRECT_LINK")
  <2>1. directLinks' = IF type = "DIRECT_LINK" THEN AddTo(directLinks, l) ELSE RemoveFrom(directLinks, l)
      BY DEF AddOrUpdateLink
  <2>2. directLinks \in PortLinks /\ TwoSided(directLinks) /\ "DIRECT_LINK" \in LinkType
      BY DEF TopoTypeOK, StructuresAgree, LinkType
  <2> HIDE DEF Filed
  <2> QED BY <1>1, <2>1, <2>2
<1>3. /\ tunnelLinks' \in PortLinks /\ TwoSided(tunnelLinks')
      /\ Filed(tunnelLinks, tunnelLinks', "TUNNEL")
  <2>1. tunnelLinks' = IF type = "TUNNEL" THEN AddTo(tunnelLinks, l) ELSE RemoveFrom(tunnelLinks, l)
      BY DEF AddOrUpdateLink
  <2>2. tunnelLinks \in PortLinks /\ TwoSided(tunnelLinks) /\ "TUNNEL" \in LinkType
      BY DEF TopoTypeOK, StructuresAgree, LinkType
  <2> HIDE DEF Filed
  <2> QED BY <1>1, <2>1, <2>2
<1>4. /\ portBroadcastDomainLinks' \in PortLinks /\ TwoSided(portBroadcastDomainLinks')
      /\ Filed(portBroadcastDomainLinks, portBroadcastDomainLinks', "MULTIHOP_LINK")
  <2>1. portBroadcastDomainLinks' = IF type = "MULTIHOP_LINK" THEN AddTo(portBroadcastDomainLinks, l) ELSE RemoveFrom(portBroadcastDomainLinks, l)
      BY DEF AddOrUpdateLink
  <2>2. portBroadcastDomainLinks \in PortLinks /\ TwoSided(portBroadcastDomainLinks) /\ "MULTIHOP_LINK" \in LinkType
      BY DEF TopoTypeOK, StructuresAgree, LinkType
  <2> HIDE DEF Filed
  <2> QED BY <1>1, <2>1, <2>2
<1>5. /\ switchPortLinks' \in PortLinks /\ TwoSided(switchPortLinks')
      /\ \A n \in NodePort, k \in Link :
            k \in switchPortLinks'[n] <=> k \in switchPortLinks[n] \/ (k = l /\ n \in Ends(l))
    BY AddToStructure DEF TopoTypeOK, StructuresAgree, AddOrUpdateLink
<1>6. \A n \in NodePort, k \in Link :
         /\ k \in switchPortLinks'[n] <=>
              \/ k \in directLinks'[n] \/ k \in portBroadcastDomainLinks'[n]
              \/ k \in tunnelLinks'[n]
         /\ ~(k \in directLinks'[n] /\ k \in portBroadcastDomainLinks'[n])
         /\ ~(k \in directLinks'[n] /\ k \in tunnelLinks'[n])
         /\ ~(k \in portBroadcastDomainLinks'[n] /\ k \in tunnelLinks'[n])
  <2> SUFFICES ASSUME NEW n \in NodePort, NEW k \in Link
               PROVE  /\ k \in switchPortLinks'[n] <=>
                           \/ k \in directLinks'[n] \/ k \in portBroadcastDomainLinks'[n]
                           \/ k \in tunnelLinks'[n]
                      /\ ~(k \in directLinks'[n] /\ k \in portBroadcastDomainLinks'[n])
                      /\ ~(k \in directLinks'[n] /\ k \in tunnelLinks'[n])
                      /\ ~(k \in portBroadcastDomainLinks'[n] /\ k \in tunnelLinks'[n])
      OBVIOUS
  <2>1. CASE k = l
    <3>1. k \in switchPortLinks[n] => n \in Ends(l)
        BY <2>1 DEF StructuresAgree, TwoSided
    <3> QED BY <2>1, <3>1, <1>2, <1>3, <1>4, <1>5 DEF LinkType
  <2>2. CASE k # l
      BY <2>2, <1>2, <1>3, <1>4, <1>5 DEF StructuresAgree
  <2> QED BY <2>1, <2>2
<1>9. switchPorts' \in [Switch -> SUBSET NodePort]
    BY TopologyAssumptions DEF AddOrUpdateLink, TopoTypeOK, Ends
<1>7. \A s \in Switch :
         switchPorts'[s] = {n \in NodePort : Node(n) = s /\ switchPortLinks'[n] # {}}
  <2> SUFFICES ASSUME NEW s \in Switch, NEW n \in NodePort
               PROVE  n \in switchPorts'[s] <=> Node(n) = s /\ switchPortLinks'[n] # {}
      BY <1>9
  <2>1. n \in switchPorts'[s] <=> n \in switchPorts[s] \/ (n \in Ends(l) /\ Node(n) = s)
      BY DEF AddOrUpdateLink
  <2>2. n \in switchPorts[s] <=> Node(n) = s /\ switchPortLinks[n] # {}
      BY DEF StructuresAgree
  <2>3. switchPortLinks'[n] # {} <=> switchPortLinks[n] # {} \/ n \in Ends(l)
      BY <1>5 DEF TopoTypeOK, PortLinks
  <2> QED BY <2>1, <2>2, <2>3
<1>8. \A n \in NodePort :
         /\ switchPortLinks'[n] =
              directLinks'[n] \union portBroadcastDomainLinks'[n] \union tunnelLinks'[n]
         /\ directLinks'[n] \intersect portBroadcastDomainLinks'[n] = {}
         /\ directLinks'[n] \intersect tunnelLinks'[n] = {}
         /\ portBroadcastDomainLinks'[n] \intersect tunnelLinks'[n] = {}
    BY <1>2, <1>3, <1>4, <1>5, <1>6 DEF PortLinks
<1>10. StructuresAgree'
    BY <1>2, <1>3, <1>4, <1>5, <1>7, <1>8 DEF StructuresAgree, TwoSided
<1>11. linksUpdated' = TRUE /\ dtLinksUpdated' \in BOOLEAN
    BY DEF AddOrUpdateLink, TopoTypeOK
<1> QED BY <1>2, <1>3, <1>4, <1>5, <1>9, <1>10, <1>11

(* removeLink keeps the structures in agreement: the link is gone from all of   *)
(* them, and a port that is left without links is gone from its switch.         *)
LEMMA RemoveAgrees ==
    ASSUME TopoTypeOK, StructuresAgree, NEW l \in Link, RemoveLink(l)
    PROVE  /\ StructuresAgree'
           /\ switchPorts' \in [Switch -> SUBSET NodePort]
           /\ switchPortLinks' \in PortLinks /\ directLinks' \in PortLinks
           /\ portBroadcastDomainLinks' \in PortLinks /\ tunnelLinks' \in PortLinks
           /\ linksUpdated' = TRUE /\ dtLinksUpdated' \in BOOLEAN
<1> DEFINE Without(S, T) ==
        \A n \in NodePort, k \in Link : k \in T[n] <=> k \in S[n] /\ k # l
<1>1. ASSUME NEW S \in PortLinks, NEW T, TwoSided(S), T = RemoveFrom(S, l)
      PROVE  T \in PortLinks /\ TwoSided(T) /\ Without(S, T)
    BY <1>1, RemoveFromStructure
<1>2. /\ directLinks' = RemoveFrom(directLinks, l)
      /\ tunnelLinks' = RemoveFrom(tunnelLinks, l)
      /\ portBroadcastDomainLinks' = RemoveFrom(portBroadcastDomainLinks, l)
      /\ switchPortLinks' = RemoveFrom(switchPortLinks, l)
    BY DEF RemoveLink
<1>3. /\ directLinks \in PortLinks /\ TwoSided(directLinks)
      /\ tunnelLinks \in PortLinks /\ TwoSided(tunnelLinks)
      /\ portBroadcastDomainLinks \in PortLinks /\ TwoSided(portBroadcastDomainLinks)
      /\ switchPortLinks \in PortLinks /\ TwoSided(switchPortLinks)
    BY DEF TopoTypeOK, StructuresAgree
<1>4. /\ directLinks' \in PortLinks /\ TwoSided(directLinks')
      /\ tunnelLinks' \in PortLinks /\ TwoSided(tunnelLinks')
      /\ portBroadcastDomainLinks' \in PortLinks /\ TwoSided(portBroadcastDomainLinks')
      /\ switchPortLinks' \in PortLinks /\ TwoSided(switchPortLinks')
  <2> HIDE DEF Without
  <2> QED BY <1>1, <1>2, <1>3
<1>5. /\ Without(directLinks, directLinks') /\ Without(tunnelLinks, tunnelLinks')
      /\ Without(portBroadcastDomainLinks, portBroadcastDomainLinks')
      /\ Without(switchPortLinks, switchPortLinks')
  <2> HIDE DEF Without
  <2> QED BY <1>1, <1>2, <1>3
<1>6. \A n \in NodePort :
         /\ switchPortLinks'[n] =
              directLinks'[n] \union portBroadcastDomainLinks'[n] \union tunnelLinks'[n]
         /\ directLinks'[n] \intersect portBroadcastDomainLinks'[n] = {}
         /\ directLinks'[n] \intersect tunnelLinks'[n] = {}
         /\ portBroadcastDomainLinks'[n] \intersect tunnelLinks'[n] = {}
    BY <1>4, <1>5 DEF PortLinks, StructuresAgree
<1>7. switchPorts' \in [Switch -> SUBSET NodePort]
    BY DEF RemoveLink, TopoTypeOK
<1>8. \A s \in Switch :
         switchPorts'[s] = {n \in NodePort : Node(n) = s /\ switchPortLinks'[n] # {}}
  <2> SUFFICES ASSUME NEW s \in Switch, NEW n \in NodePort
               PROVE  n \in switchPorts'[s] <=> Node(n) = s /\ switchPortLinks'[n] # {}
      BY <1>7
  <2>1. n \in switchPorts'[s] <=>
           n \in switchPorts[s] /\ ~(n \in Ends(l) /\ switchPortLinks'[n] = {})
      BY DEF RemoveLink
  <2>2. n \in switchPorts[s] <=> Node(n) = s /\ switchPortLinks[n] # {}
      BY DEF StructuresAgree
  <2>3. n \notin Ends(l) => switchPortLinks'[n] = switchPortLinks[n]
      BY <1>2 DEF RemoveFrom
  <2>4. switchPortLinks'[n] # {} => switchPortLinks[n] # {}
      BY <1>4, <1>5 DEF PortLinks
  <2> QED BY <2>1, <2>2, <2>3, <2>4
<1>9. StructuresAgree'
    BY <1>4, <1>6, <1>8 DEF StructuresAgree, TwoSided
<1>10. linksUpdated' = TRUE /\ dtLinksUpdated' \in BOOLEAN
    BY DEF RemoveLink, TopoTypeOK, Has
<1> QED BY <1>4, <1>7, <1>9, <1>10

(* What createNewInstance takes from the structures is of the right type. *)
LEMMA OpenflowLinksType ==
    ASSUME TopoTypeOK PROVE OpenflowLinks \in PortLinks
BY DEF TopoTypeOK, OpenflowLinks, PortLinks

LEMMA TopoInitInv == TopoInit => TopoInv
<1> SUFFICES ASSUME TopoInit PROVE TopoInv
    OBVIOUS
<1>1. TopoTypeOK
  <2>1. Empty \in PortLinks /\ switchPorts \in [Switch -> SUBSET NodePort]
      BY DEF TopoInit, PortLinks, Empty
  <2>2. instance \in [ports : [Switch -> SUBSET NodePort], links : PortLinks]
      BY <2>1 DEF TopoInit
  <2>3. ldUpdates \in Seq(LDUpdate) /\ scheduled \in Nat
      BY DEF TopoInit
  <2>4. /\ linksUpdated \in BOOLEAN /\ dtLinksUpdated \in BOOLEAN
        /\ working \in BOOLEAN
      BY Zenon DEF TopoInit
  <2> QED BY <2>1, <2>2, <2>3, <2>4 DEF TopoInit, TopoTypeOK
<1>2. StructuresAgree
    BY DEF TopoInit, StructuresAgree, TwoSided, Empty
<1>3. ScheduledWhenNeeded
    BY DEF TopoInit, ScheduledWhenNeeded
<1>4. FlaggedWhenBehind
  <2>1. OpenflowLinks = Empty
      BY DEF TopoInit, OpenflowLinks, Empty
  <2> QED BY <2>1 DEF TopoInit, FlaggedWhenBehind
<1> QED BY <1>1, <1>2, <1>3, <1>4 DEF TopoInv

(* Every step preserves the inductive invariant. *)
LEMMA TopoStepInv == TopoInv /\ [Next]_topoVars => TopoInv'
<1> SUFFICES ASSUME TopoInv, [Next]_topoVars PROVE TopoInv'
    OBVIOUS
<1>t. TopoTypeOK /\ StructuresAgree /\ ScheduledWhenNeeded /\ FlaggedWhenBehind
    BY DEF TopoInv
<1>1. ASSUME NEW u \in LDUpdate, LinkDiscoveryUpdate(u) PROVE TopoInv'
  <2>1. ldUpdates' \in Seq(LDUpdate) /\ ldUpdates' # <<>> /\ scheduled' = 1
      BY <1>t, <1>1 DEF TopoTypeOK, LinkDiscoveryUpdate, ScheduledWhenNeeded
  <2>2. TopoTypeOK'
      BY <1>t, <1>1, <2>1 DEF TopoTypeOK, LinkDiscoveryUpdate, structVars, flagVars
  <2>3. StructuresAgree'
      BY <1>t, <1>1 DEF StructuresAgree, TwoSided, LinkDiscoveryUpdate, structVars
  <2>4. ScheduledWhenNeeded'
      BY <1>1, <2>1 DEF ScheduledWhenNeeded, LinkDiscoveryUpdate
  <2>5. FlaggedWhenBehind'
      BY <1>t, <1>1 DEF FlaggedWhenBehind, OpenflowLinks, LinkDiscoveryUpdate, structVars, flagVars
  <2> QED BY <2>2, <2>3, <2>4, <2>5 DEF TopoInv
<1>2. ASSUME StartUpdateTopology PROVE TopoInv'
  <2>1. scheduled' = 0 /\ working' = TRUE
      BY <1>t, <1>2 DEF StartUpdateTopology, ScheduledWhenNeeded
  <2>2. TopoTypeOK'
    <3>1. /\ linksUpdated' \in BOOLEAN /\ dtLinksUpdated' \in BOOLEAN
          /\ working' \in BOOLEAN
        BY <1>2, Zenon DEF StartUpdateTopology
    <3> QED BY <1>t, <1>2, <2>1, <3>1 DEF TopoTypeOK, StartUpdateTopology, structVars
  <2>3. StructuresAgree'
      BY <1>t, <1>2 DEF StructuresAgree, TwoSided, StartUpdateTopology, structVars
  <2>4. ScheduledWhenNeeded'
      BY <2>1 DEF ScheduledWhenNeeded
  <2>5. FlaggedWhenBehind'
    <3>1. ~working /\ instance' = instance /\ switchPorts' = switchPorts
          /\ OpenflowLinks' = OpenflowLinks
        BY <1>2 DEF StartUpdateTopology, OpenflowLinks, structVars
    <3> QED BY <1>t, <3>1 DEF FlaggedWhenBehind
  <2> QED BY <2>2, <2>3, <2>4, <2>5 DEF TopoInv
<1>3. ASSUME ApplyUpdate PROVE TopoInv'
  <2> DEFINE u == Head(ldUpdates)
  <2>1. u \in LDUpdate /\ ldUpdates' \in Seq(LDUpdate)
      BY <1>t, <1>3 DEF TopoTypeOK, ApplyUpdate
  <2>2. /\ working /\ working' = working /\ scheduled' = scheduled
        /\ instance' = instance
      BY <1>3 DEF ApplyUpdate
  <2>3. ScheduledWhenNeeded'
      BY <1>t, <2>2 DEF ScheduledWhenNeeded
  <2>4. CASE u.op = "LINK_UPDATED"
    <3>1. u.link \in Link /\ u.type \in LinkType /\ AddOrUpdateLink(u.link, u.type)
        BY <1>3, <2>1, <2>4 DEF ApplyUpdate, LDUpdate
    <3> HIDE DEF u
    <3>2. /\ StructuresAgree'
          /\ switchPorts' \in [Switch -> SUBSET NodePort]
          /\ switchPortLinks' \in PortLinks /\ directLinks' \in PortLinks
          /\ portBroadcastDomainLinks' \in PortLinks /\ tunnelLinks' \in PortLinks
          /\ linksUpdated' = TRUE /\ dtLinksUpdated' \in BOOLEAN
        BY <1>t, <3>1, AddAgrees
    <3>3. TopoTypeOK'
        BY <1>t, <3>2, <2>1, <2>2 DEF TopoTypeOK
    <3>4. FlaggedWhenBehind'
        BY <3>2, <2>2 DEF FlaggedWhenBehind
    <3> QED BY <2>3, <3>2, <3>3, <3>4 DEF TopoInv
  <2>5. CASE u.op = "LINK_REMOVED"
    <3>1. u.link \in Link /\ RemoveLink(u.link)
        BY <1>3, <2>1, <2>5 DEF ApplyUpdate, LDUpdate
    <3> HIDE DEF u
    <3>2. /\ StructuresAgree'
          /\ switchPorts' \in [Switch -> SUBSET NodePort]
          /\ switchPortLinks' \in PortLinks /\ directLinks' \in PortLinks
          /\ portBroadcastDomainLinks' \in PortLinks /\ tunnelLinks' \in PortLinks
          /\ linksUpdated' = TRUE /\ dtLinksUpdated' \in BOOLEAN
        BY <1>t, <3>1, RemoveAgrees
    <3>3. TopoTypeOK'
        BY <1>t, <3>2, <2>1, <2>2 DEF TopoTypeOK
    <3>4. FlaggedWhenBehind'
        BY <3>2, <2>2 DEF FlaggedWhenBehind
    <3> QED BY <2>3, <3>2, <3>3, <3>4 DEF TopoInv
  <2>6. CASE u.op # "LINK_UPDATED" /\ u.op # "LINK_REMOVED"
    <3>1. UNCHANGED <<structVars, flagVars>>
        BY <1>3, <2>6 DEF ApplyUpdate
    <3>2. TopoTypeOK'
        BY <1>t, <3>1, <2>1, <2>2 DEF TopoTypeOK, structVars, flagVars
    <3>3. StructuresAgree'
        BY <1>t, <3>1 DEF StructuresAgree, TwoSided, structVars
    <3>4. FlaggedWhenBehind'
        BY <1>t, <3>1, <2>2 DEF FlaggedWhenBehind, OpenflowLinks, structVars, flagVars
    <3> QED BY <2>3, <3>2, <3>3, <3>4 DEF TopoInv
  <2> QED BY <2>4, <2>5, <2>6
<1>4. ASSUME CreateNewInstance PROVE TopoInv'
  <2>1. /\ working /\ ldUpdates = <<>> /\ working' = FALSE
        /\ UNCHANGED <<structVars, flagVars, ldUpdates, scheduled>>
      BY <1>4 DEF CreateNewInstance
  <2>2. instance' = [ports |-> switchPorts, links |-> OpenflowLinks]
      BY <1>t, <1>4 DEF CreateNewInstance, FlaggedWhenBehind, TopoTypeOK
  <2>3. OpenflowLinks \in PortLinks /\ OpenflowLinks' = OpenflowLinks
      BY <1>t, <2>1, OpenflowLinksType DEF OpenflowLinks, structVars
  <2>4. TopoTypeOK'
      BY <1>t, <2>1, <2>2, <2>3 DEF TopoTypeOK, structVars, flagVars
  <2>5. StructuresAgree'
      BY <1>t, <2>1 DEF StructuresAgree, TwoSided, structVars
  <2>6. ScheduledWhenNeeded'
      BY <1>t, <2>1 DEF ScheduledWhenNeeded
  <2>7. FlaggedWhenBehind'
      BY <2>1, <2>2, <2>3 DEF FlaggedWhenBehind, structVars
  <2> QED BY <2>4, <2>5, <2>6, <2>7 DEF TopoInv
<1>5. CASE UNCHANGED topoVars
  <2>1. TopoTypeOK' /\ ScheduledWhenNeeded'
      BY <1>t, <1>5 DEF TopoTypeOK, ScheduledWhenNeeded, topoVars, structVars, flagVars
  <2>2. StructuresAgree'
      BY <1>t, <1>5 DEF StructuresAgree, TwoSided, topoVars, structVars
  <2>3. FlaggedWhenBehind'
      BY <1>t, <1>5 DEF FlaggedWhenBehind, OpenflowLinks, topoVars, structVars, flagVars
  <2> QED BY <2>1, <2>2, <2>3 DEF TopoInv
<1> QED BY <1>1, <1>2, <1>3, <1>4, <1>5 DEF Next, UpdateTopology

LEMMA TopoInvariant == TopoSpec => []TopoInv
<1>1. TopoInit => TopoInv
    BY TopoInitInv
<1>2. TopoInv /\ [Next]_topoVars => TopoInv'
    BY TopoStepInv
<1> QED BY <1>1, <1>2, PTL DEF TopoSpec

(* The variables of the topology manager keep their types. *)
THEOREM TopologyTypeCorrect == TopoSpec => []TopoTypeOK
<1>1. TopoInv => TopoTypeOK
    BY DEF TopoInv
<1> QED BY <1>1, TopoInvariant, PTL

(* The five structures of OFMTopologyManager agree after any sequence of        *)
(* updates, for networks of any size.                                           *)
THEOREM StructuresAlwaysAgree == TopoSpec => []StructuresAgree
<1>1. TopoInv => StructuresAgree
    BY DEF TopoInv
<1> QED BY <1>1, TopoInvariant, PTL

(* An update that linkDiscoveryUpdate has queued always has a run of            *)
(* updateTopology coming.                                                       *)
THEOREM NoUpdateIsLost == TopoSpec => []NoLostUpdate
<1>1. TopoInv => NoLostUpdate
    BY DEF TopoInv, ScheduledWhenNeeded, NoLostUpdate, TopoTypeOK
<1> QED BY <1>1, TopoInvariant, PTL

(* Between two runs of updateTopology the current instance is the picture of    *)
(* the structures.                                                              *)
THEOREM InstanceAlwaysCurrent == TopoSpec => []InstanceIsCurrent
<1>1. TopoInv => InstanceIsCurrent
    BY DEF TopoInv, FlaggedWhenBehind, InstanceIsCurrent
<1> QED BY <1>1, TopoInvariant, PTL
=============================================================================
