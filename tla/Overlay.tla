------------------------------ MODULE Overlay ------------------------------
(***************************************************************************)
(* OFMOpenstackML2Connector and OFMTunnelManager: the virtual networks     *)
(* OpenStack asks for.  Neutron creates and deletes networks and ports;    *)
(* the agents of the nodes report every so often; the controller meshes    *)
(* the nodes with tunnels and gives every network on a node a local VLAN.  *)
(* Commands go to the agents over REST: a command to an agent that does    *)
(* not answer is lost without notice, a question to it throws.             *)
(*                                                                         *)
(* A request runs to its end before the next one is served.  (Nothing in   *)
(* the code keeps two of them apart; see the hazards.)  Only the threads   *)
(* that tag ports run beside them.  Networks have a segmentation id.       *)
(***************************************************************************)
EXTENDS Naturals, FiniteSets

CONSTANTS
    Node,           \* nodes with an agent, by management address
    NetworkNode,    \* the one with node_type "network"
    Net,            \* networks, by id; the segmentation id is as good
    Port,           \* ports, by id
    NetOf,          \* port -> network_id
    Owner,          \* port -> device_owner, once Neutron tells it
    Host,           \* port -> binding_host_id, once Neutron tells it
    Tell,           \* port -> what the requests for it may tell: owner, host
    Vlan,           \* MIN_VLAN_TAG .. MAX_VLAN_TAG
    Unreliable,     \* the nodes whose agents fail and restart
    MaxFaults,      \* bound on the faults: an agent or the controller fails
    None,           \* Java's null
    Idle, Unread    \* no thread; a thread that has not read its tag yet

(* NodeInfos, the br-tun of a node, and what is kept of a port. *)
NodeRecord == [avail : SUBSET Vlan, vlan : [Net -> Vlan \union {None}], maps : BOOLEAN,
               ports : SUBSET Port, ofports : (SUBSET Node) \union {None}]
Flow == [net : Net, out : SUBSET Node]
BridgeRecord == [tunnels : SUBSET Node, toLv : [Net -> Vlan \union {None}],
                 flood : [Vlan -> Flow \union {None}]]
Fields == {"owner", "host"}     \* what a request may tell of a port besides its network
PortRecord == [told : SUBSET Fields, flow_exec : BOOLEAN]

ASSUME OverlayAssumptions ==
    /\ NetworkNode \in Node /\ NetOf \in [Port -> Net]
    /\ Owner \in [Port -> {"compute", "network"}]
    /\ Host \in [Port -> Node]
    /\ \A p \in Port : Owner[p] = "network" => Host[p] = NetworkNode
    /\ Tell \in [Port -> SUBSET SUBSET {"owner", "host"}]
    /\ Vlan \subseteq Nat /\ Unreliable \subseteq Node /\ MaxFaults \in Nat
    /\ {None, Idle, Unread} \intersect (Node \union Vlan \union Net) = {}
    /\ Idle # Unread /\ None \notin {Idle, Unread}
    /\ None \notin NodeRecord /\ None \notin BridgeRecord /\ None \notin Flow
    /\ None \notin PortRecord
    /\ \A N \in SUBSET Node : N # None
    /\ \A F \in SUBSET Fields : F # None

VARIABLES
    nodes,      \* nodesByIp: [avail, vlan, maps, ports, ofports] or None
    nets,       \* vNetsByGuid, of both modules
    ml2Ports,   \* vPortsByGuid of the connector: [told, flow_exec] or None
    vPorts,     \* vPortsByGuid of the tunnel manager: what was told, or None
    vms,        \* vmByGuid
    tagging,    \* port -> its PortTagging thread: Idle, Unread or the tag it read
    up,         \* the nodes whose agents answer
    bridge,     \* node -> its br-tun, [tunnels, flood, toLv]: the peers it has tunnel
                \* ports to, VLAN -> the flow in FLOOD_TO_TUN, network -> the VLAN
                \* set in VXLAN_TUN_TO_LV; or None: see Sound
    tag,        \* port -> the VLAN tag it has on the br-int of a sound host, or None
    aliveNets, alive,   \* the networks and the ports Neutron has
    faults,     \* how many there were
    fresh,      \* history: nodes whose bridges are as create_bridge made them
    lonely,     \* history: nodes that lost their last tunnel
    leaked      \* history: node -> VLANs an exception took out of the pool

ctlVars == <<nodes, nets, ml2Ports, vPorts, vms, tagging>>
neutron == <<aliveNets, alive>>
history == <<fresh, lonely, leaked>>
vars == <<ctlVars, up, bridge, tag, neutron, faults, history>>

Known == {n \in Node : nodes[n] # None}
NoFlows == [v \in Vlan |-> None]
NoVlans == [k \in Net |-> None]

(* A node is sound, and its bridges are followed, from its join with fresh       *)
(* bridges to the first failure of its agent.  A sound node gets every command.  *)
Sound == {n \in Node : bridge[n] # None}

NewNode == [avail |-> Vlan, vlan |-> NoVlans, maps |-> FALSE, ports |-> {}, ofports |-> None]
NewBridge == [tunnels |-> {}, flood |-> NoFlows, toLv |-> NoVlans]

Init ==
    /\ nodes = [n \in Node |-> None] /\ nets = {}
    /\ ml2Ports = [p \in Port |-> None] /\ vPorts = [p \in Port |-> None]
    /\ vms = {} /\ tagging = [p \in Port |-> Idle]
    /\ up = Node
    /\ bridge = [n \in Node |-> None]
    /\ tag = [p \in Port |-> None]
    /\ aliveNets = {} /\ alive = {} /\ faults = 0
    /\ fresh = Node /\ lonely = {} /\ leaked = [n \in Node |-> {}]
-----------------------------------------------------------------------------
(* What a request does to one node: its record and its bridge, together.         *)
Site(n) == [node |-> nodes[n], bridge |-> bridge[n]]

(* Mutant: nobody asks whether the network has a VLAN on the node. *)
UsedAll(r) == DOMAIN r.vlan

Used(r) == {k \in Net : r.vlan[k] # None}
VlansOf(r) == {r.vlan[k] : k \in Used(r)}
NetOn(r, v) == CHOOSE k \in Used(r) : r.vlan[k] = v

Flush(b, K, V) ==
    IF b = None THEN None
    ELSE [b EXCEPT !.flood = [v \in Vlan |-> IF v \in V THEN None ELSE @[v]],
                   !.toLv = [k \in Net |-> IF k \in K THEN None ELSE @[k]]]

(* Mutant: the VLAN does not go back to the pool. *)
ReleaseKeeping(s, K) ==
    [node |-> [s.node EXCEPT !.vlan = [k \in Net |-> IF k \in K THEN None ELSE @[k]]],
     bridge |-> Flush(s.bridge, K, {s.node.vlan[k] : k \in K})]

(* Give up the VLANs of the networks in K, with their flows.                     *)
Release(s, K) ==
    [node |-> [s.node EXCEPT !.vlan = [k \in Net |-> IF k \in K THEN None ELSE @[k]],
                             !.avail = @ \union {s.node.vlan[k] : k \in K}],
     bridge |-> Flush(s.bridge, K, {s.node.vlan[k] : k \in K})]

(* Mutant: the flood flows are left as they were. *)
OfportsFlowLate(s) == IF s.node.ofports = {} THEN Release(s, Used(s.node)) ELSE s

(* ofports_flow: flood every network on the node to its tunnels.  A node that    *)
(* has had tunnels and has none left gives up the VLANs of all its networks.     *)
OfportsFlow(s) ==
    CASE s.node.ofports = None -> s
      [] s.node.ofports = {} -> Release(s, Used(s.node))
      [] OTHER ->
           LET flood == [v \in Vlan |-> IF v \in VlansOf(s.node)
                                        THEN [net |-> NetOn(s.node, v), out |-> s.node.ofports]
                                        ELSE s.bridge.flood[v]]
           IN  [node |-> s.node,
                bridge |-> IF s.bridge = None THEN None
                           ELSE [s.bridge EXCEPT !.flood = flood]]

Lowest(S) == CHOOSE v \in S : \A w \in S : v <= w

(* Mutant: the lowest VLAN is taken without being removed from the pool. *)
AllocateShared(s, k) ==
    LET v == Lowest(s.node.avail)
    IN  [node |-> [s.node EXCEPT !.vlan[k] = v, !.maps = TRUE],
         bridge |-> IF s.bridge = None THEN None ELSE [s.bridge EXCEPT !.toLv[k] = v]]

(* Give network k the lowest VLAN that is free, and let traffic in to it.        *)
Allocate(s, k) ==
    LET v == Lowest(s.node.avail)
    IN  [node |-> [s.node EXCEPT !.avail = @ \ {v}, !.vlan[k] = v, !.maps = TRUE],
         bridge |-> IF s.bridge = None THEN None ELSE [s.bridge EXCEPT !.toLv[k] = v]]

(* setup_tunnel_port: nothing is recorded if the agent does not tell the ofport. *)
SetupTunnelPort(s, peer, answers) ==
    IF ~answers THEN s
    ELSE OfportsFlow([node |-> [s.node EXCEPT !.ofports = (IF @ = None THEN {} ELSE @) \union {peer}],
                      bridge |-> IF s.bridge = None THEN None
                                 ELSE [s.bridge EXCEPT !.tunnels = @ \union {peer}]])

(* The effect of a request: what becomes of the nodes it changes.                *)
Effect(sites) ==
    /\ nodes' = [n \in Node |-> IF n \in DOMAIN sites THEN sites[n].node ELSE nodes[n]]
    /\ bridge' = [n \in Node |-> IF n \in DOMAIN sites THEN sites[n].bridge ELSE bridge[n]]

Nowhere == UNCHANGED <<nodes, bridge>>
-----------------------------------------------------------------------------
(* POST of a network, by Neutron or by NeutronInfoInitialize: createNetwork and  *)
(* create_network_flow.  A network it knows only gets new names.                 *)
PostNetwork(k) ==
    /\ k \notin nets
    /\ aliveNets' = aliveNets \union {k} /\ nets' = nets \union {k}
    /\ \/ /\ NetworkNode \in Known /\ nodes[NetworkNode].avail # {}
          /\ Effect([n \in {NetworkNode} |-> OfportsFlow(Allocate(Site(n), k))])
       \/ /\ NetworkNode \in Known => nodes[NetworkNode].avail = {}
          /\ Nowhere
    /\ UNCHANGED <<ml2Ports, vPorts, vms, tagging, up, tag, alive, faults, history>>

(* deleteNetwork and delete_network_flow.  Neutron does not delete a network     *)
(* with ports.                                                                   *)
DeleteNetwork(k) ==
    /\ k \in aliveNets /\ \A p \in alive : NetOf[p] # k
    /\ aliveNets' = aliveNets \ {k} /\ nets' = nets \ {k}
    /\ Effect([n \in {m \in Known : k \in Used(nodes[m])} |-> Release(Site(n), {k})])
    /\ UNCHANGED <<ml2Ports, vPorts, vms, tagging, up, tag, alive, faults, history>>
-----------------------------------------------------------------------------
IsOwner(p, told, o) == "owner" \in told /\ Owner[p] = o
Where(p, told) ==               \* the node a port belongs to, if it is known
    IF \/ IsOwner(p, told, "network")
       \/ IsOwner(p, told, "compute") /\ "host" \in told
    THEN Known \intersect {Host[p]} ELSE {}

AddPort(s, p) == [s EXCEPT !.node.ports = @ \union {p}]

(* create_port_flow.  A VLAN taken for a network nobody has told of is lost: the *)
(* exception comes before it is recorded, and before the port is.                *)
CreatePortFlow(p, told) ==
    /\ vPorts' = [vPorts EXCEPT ![p] = told]
    /\ \/ /\ Where(p, told) = {}
          /\ Nowhere /\ UNCHANGED <<vms, tagging, leaked>>
       \/ /\ IsOwner(p, told, "network")
          /\ Where(p, told) # {}
          /\ Effect([n \in Where(p, told) |-> AddPort(Site(n), p)])
          /\ tagging' = [tagging EXCEPT ![p] = Unread]
          /\ UNCHANGED <<vms, leaked>>
       \/ \E n \in Where(p, told) :
            LET k == NetOf[p]
                r == nodes[n]
                new == k \notin Used(r)
            IN  /\ IsOwner(p, told, "compute")
                /\ \/ /\ new /\ r.avail = {}
                      /\ Nowhere /\ UNCHANGED <<vms, tagging, leaked>>
                   \/ /\ new /\ r.avail # {} /\ k \notin nets
                      /\ nodes' = [nodes EXCEPT ![n].avail = @ \ {Lowest(r.avail)}]
                      /\ leaked' = [leaked EXCEPT ![n] = @ \union {Lowest(r.avail)}]
                      /\ UNCHANGED <<bridge, vms, tagging>>
                   \/ /\ new => r.avail # {} /\ k \in nets
                      /\ Effect([m \in {n} |-> OfportsFlow(AddPort(
                              IF new THEN Allocate(Site(m), k) ELSE Site(m), p))])
                      /\ vms' = vms \union {p}
                      /\ tagging' = [tagging EXCEPT ![p] = Unread]
                      /\ UNCHANGED leaked

NoTrace(p) ==
    /\ ml2Ports[p] = None /\ vPorts[p] = None /\ tagging[p] = Idle /\ tag[p] = None
    /\ p \notin vms

(* POST or PUT of a port, by Neutron or by NeutronInfoInitialize: createPort.    *)
(* Port ids are never used again: a new port takes one without a trace.  (The    *)
(* ports of gateways and floating ips, which createPort drops, are left out.)    *)
PostPort(p, fields) ==
    LET told == fields \union (IF ml2Ports[p] = None THEN {} ELSE ml2Ports[p].told)
        run == IF ml2Ports[p] = None THEN fields = Fields ELSE ~ml2Ports[p].flow_exec
    IN  /\ p \in alive \/ NoTrace(p)
        /\ NetOf[p] \in aliveNets
        /\ alive' = alive \union {p}
        /\ ml2Ports' = [ml2Ports EXCEPT ![p] =
             [told |-> told, flow_exec |-> run \/ (@ # None /\ @.flow_exec)]]
        /\ \/ run /\ CreatePortFlow(p, told)
           \/ ~run /\ Nowhere /\ UNCHANGED <<vPorts, vms, tagging, leaked>>
        /\ UNCHANGED <<nets, up, tag, aliveNets, faults, fresh, lonely>>

(* Mutant: delete_port_flow leaves the port on its node. *)
RemovePortLate(s, p) == s

RemovePort(s, p) == [s EXCEPT !.node.ports = @ \ {p}]

(* delete_port_flow on the node of a compute port.  The three exceptions: no     *)
(* network ever had a VLAN on the node; the network is unknown; it has no VLAN   *)
(* to give up.  The last one strikes when the port has been removed.             *)
DeletePortFails(p, n) ==
    \/ ~nodes[n].maps
    \/ NetOf[p] \notin nets
    \/ nodes[n].vlan[NetOf[p]] = None /\ nodes[n].ports \ {p} = {}

DeleteComputePort(p, n) ==
    LET k == NetOf[p]
        s == RemovePort(Site(n), p)
        noVlan == s.node.vlan[k] = None
    IN  \/ /\ ~nodes[n].maps \/ k \notin nets
          /\ Nowhere /\ UNCHANGED vms
       \/ /\ nodes[n].maps /\ k \in nets
          /\ Effect([m \in {n} |-> IF s.node.ports # {} THEN s
                                 ELSE IF noVlan THEN [s EXCEPT !.bridge = Flush(@, {k}, {})]
                                 ELSE Release(s, {k})])
          /\ vms' = IF p \in nodes[n].ports THEN vms \ {p} ELSE vms

(* DELETE of a port: deletePort and delete_port_flow.  An exception leaves the   *)
(* port with the connector.                                                      *)
DeletePort(p) ==
    LET told == vPorts[p]
    IN  /\ p \in alive /\ alive' = alive \ {p}
        /\ \/ /\ ml2Ports[p] = None \/ told = None
              /\ Nowhere /\ UNCHANGED <<ml2Ports, vPorts, vms>>
           \/ /\ ml2Ports[p] # None /\ told # None
              /\ vPorts' = [vPorts EXCEPT ![p] = None]
              /\ \/ /\ ~IsOwner(p, told, "compute") \/ Where(p, told) = {}
                    /\ Effect([n \in Where(p, told) |-> RemovePort(Site(n), p)])
                    /\ ml2Ports' = [ml2Ports EXCEPT ![p] = None]
                    /\ UNCHANGED vms
                 \/ \E n \in Where(p, told) :
                      /\ IsOwner(p, told, "compute")
                      /\ DeleteComputePort(p, n)
                      /\ ml2Ports' = [ml2Ports EXCEPT ![p] =
                           IF DeletePortFails(p, n) THEN @ ELSE None]
        /\ UNCHANGED <<nets, tagging, up, tag, aliveNets, faults, history>>
-----------------------------------------------------------------------------
(* The thread PortTagging: it reads the VLAN of the port's network once; without *)
(* one, ovs-vsctl refuses the empty tag.  It then looks for the port on br-int   *)
(* ten times, a second apart, and tags it, or gives up: it calls a connector     *)
(* that is null.                                                                 *)
TagRead(p) ==
    /\ tagging[p] = Unread
    /\ tagging' = [tagging EXCEPT ![p] =
         IF nodes[Host[p]] = None \/ nodes[Host[p]].vlan[NetOf[p]] = None THEN Idle
         ELSE nodes[Host[p]].vlan[NetOf[p]]]
    /\ UNCHANGED <<nodes, nets, ml2Ports, vPorts, vms, up, bridge, tag, neutron, faults, history>>

TagSet(p) ==
    /\ tagging[p] \in Vlan /\ Host[p] \in up
    /\ tag' = [tag EXCEPT ![p] = IF Host[p] \in Sound THEN tagging[p] ELSE None]
    /\ tagging' = [tagging EXCEPT ![p] = Idle]
    /\ UNCHANGED <<nodes, nets, ml2Ports, vPorts, vms, up, bridge, neutron, faults, history>>

TagGiveUp(p) ==
    /\ tagging[p] \in Vlan
    /\ tagging' = [tagging EXCEPT ![p] = Idle]
    /\ UNCHANGED <<nodes, nets, ml2Ports, vPorts, vms, up, bridge, tag, neutron, faults, history>>
-----------------------------------------------------------------------------
(* addTunnel, when the agent of a new node reports: the node is meshed with the  *)
(* others.  The record is kept if the agent then does not answer.  (The reports  *)
(* of a known node only set current_time.)                                       *)
Join(n) ==
    [node |-> [NewNode EXCEPT !.ofports = IF Known = {} THEN None ELSE Known],
     bridge |-> IF n \in fresh /\ \A p \in Port : Host[p] = n => tagging[p] = Idle
                THEN [NewBridge EXCEPT !.tunnels = Known] ELSE None]

(* Mutant: the tunnel is only set up on the new node. *)
MeshOneWay(n, m) == IF m = n THEN Join(n) ELSE Site(m)

Mesh(n, m) == IF m = n THEN Join(n) ELSE SetupTunnelPort(Site(m), n, m \in up)

AddTunnel(n) ==
    /\ n \notin Known
    /\ \/ n \in up /\ Effect([m \in Known \union {n} |-> Mesh(n, m)])
       \/ n \notin up /\ Effect([m \in {n} |-> [node |-> NewNode, bridge |-> None]])
    /\ fresh' = fresh \ {n}
    /\ UNCHANGED <<nets, ml2Ports, vPorts, vms, tagging, up, tag, neutron, faults, lonely, leaked>>

(* External: something fails. *)
Fault == faults < MaxFaults /\ faults' = faults + 1

(* Nothing is known any more of the bridges of N, nor of VLANs lost there. *)
Forget(N) ==
    /\ tag' = [p \in Port |-> IF Host[p] \in N THEN None ELSE tag[p]]
    /\ leaked' = [n \in Node |-> IF n \in N /\ nodes'[n] = None THEN {} ELSE leaked[n]]

DropTunnel(s, peer) ==
    OfportsFlow([node |-> [s.node EXCEPT !.ofports = IF @ = None THEN None ELSE @ \ {peer}],
                 bridge |-> IF s.bridge = None THEN None
                            ELSE [s.bridge EXCEPT !.tunnels = @ \ {peer}]])

(* delTunnel, for a node that was silent for DELETE_TIME_GAP minutes: the        *)
(* tunnels to it are removed peer by peer, up to the first peer that does not    *)
(* answer or has no such tunnel.                                                 *)
DelTunnel(n) ==
    LET peers == Known \ {n}
        willing == {m \in peers \intersect Sound : n \in bridge[m].tunnels}
        perhaps == (peers \intersect up) \ Sound
    IN  /\ Fault /\ n \in Known
        /\ \E done \in SUBSET (willing \union perhaps) :
             /\ willing = peers => done = peers
             /\ Effect([m \in done \union {n} |->
                  IF m = n THEN [node |-> None, bridge |-> None] ELSE DropTunnel(Site(m), n)])
             /\ lonely' = (lonely \ {n}) \union {m \in done : nodes'[m].ofports = {}}
        /\ Forget({n})
        /\ UNCHANGED <<nets, ml2Ports, vPorts, vms, tagging, up, neutron, fresh>>
-----------------------------------------------------------------------------
(* External: the agents, the ports on br-int. *)
AgentFails(n) ==
    /\ Fault /\ n \in up \intersect Unreliable
    /\ up' = up \ {n} /\ bridge' = [bridge EXCEPT ![n] = None]
    /\ UNCHANGED nodes /\ Forget({n})
    /\ UNCHANGED <<nets, ml2Ports, vPorts, vms, tagging, neutron, fresh, lonely>>

AgentAnswers(n) ==
    /\ n \in Node \ up /\ up' = up \union {n}
    /\ UNCHANGED <<ctlVars, bridge, tag, neutron, faults, history>>

(* An agent that starts deletes the bridges and creates them again. *)
AgentRestart(n) ==
    /\ Fault /\ n \in Unreliable
    /\ up' = up \union {n} /\ bridge' = [bridge EXCEPT ![n] = None]
    /\ fresh' = IF n \in Known THEN fresh ELSE fresh \union {n}
    /\ UNCHANGED nodes /\ Forget({n})
    /\ UNCHANGED <<nets, ml2Ports, vPorts, vms, tagging, neutron, lonely>>

(* A port leaves br-int, with its tag. *)
Unplug(p) ==
    /\ tag[p] # None /\ tag' = [tag EXCEPT ![p] = None]
    /\ UNCHANGED <<ctlVars, up, bridge, neutron, faults, history>>

(* The controller restarts with empty maps; NeutronInfoInitialize posts again    *)
(* what Neutron has, in PostNetwork and PostPort.                                *)
Restart ==
    /\ Fault /\ Known # {}
    /\ nodes' = [n \in Node |-> None] /\ nets' = {}
    /\ ml2Ports' = [p \in Port |-> None] /\ vPorts' = [p \in Port |-> None]
    /\ vms' = {} /\ tagging' = [p \in Port |-> Idle]
    /\ bridge' = [n \in Node |-> None] /\ Forget(Node) /\ lonely' = {}
    /\ UNCHANGED <<up, neutron, fresh>>

Next ==
    \/ \E k \in Net : PostNetwork(k) \/ DeleteNetwork(k)
    \/ \E p \in Port : \/ \E fields \in Tell[p] : PostPort(p, fields)
                       \/ DeletePort(p) \/ TagRead(p) \/ TagSet(p) \/ TagGiveUp(p) \/ Unplug(p)
    \/ \E n \in Node : \/ AddTunnel(n) \/ DelTunnel(n)
                       \/ AgentFails(n) \/ AgentAnswers(n) \/ AgentRestart(n)
    \/ Restart

Spec == Init /\ [][Next]_vars
-----------------------------------------------------------------------------
(* Every variable has its type. *)
TypeOK ==
    /\ nodes \in [Node -> NodeRecord \union {None}]
    /\ bridge \in [Node -> BridgeRecord \union {None}]
    /\ nets \subseteq aliveNets /\ aliveNets \subseteq Net
    /\ alive \subseteq Port /\ vms \subseteq Port
    /\ ml2Ports \in [Port -> PortRecord \union {None}]
    /\ vPorts \in [Port -> (SUBSET Fields) \union {None}]
    /\ tagging \in [Port -> {Idle, Unread} \union Vlan]
    /\ tag \in [Port -> Vlan \union {None}]
    /\ faults \in 0 .. MaxFaults
    /\ Sound \subseteq Known \intersect up /\ fresh \subseteq Node \ Known
    /\ lonely \subseteq Known /\ leaked \in [Node -> SUBSET Vlan]

(* A VLAN of a node is in the pool, or it is the VLAN of exactly one network, or *)
(* an exception in create_port_flow has lost it: no path through joins, port and *)
(* network deletions, lost tunnels and failing agents gives one to two networks  *)
(* or puts one back twice.                                                       *)
VlanPool ==
    \A n \in Known :
        LET r == nodes[n]
        IN  /\ r.avail \union VlansOf(r) \union leaked[n] = Vlan
            /\ r.avail \intersect VlansOf(r) = {}
            /\ leaked[n] \intersect (r.avail \union VlansOf(r)) = {}
            /\ \A k, l \in Used(r) : r.vlan[k] = r.vlan[l] => k = l

(* The flows on the br-tun of a sound node are those its record implies: traffic *)
(* of a network comes in to its VLAN, and its broadcasts go out of every tunnel  *)
(* the record has; no flow is left of a VLAN that ofports_flow or a deletion     *)
(* gave up.                                                                      *)
BridgeFollows ==
    \A n \in Sound :
        LET r == nodes[n]
        IN  /\ bridge[n].toLv = r.vlan
            /\ \A v \in Vlan :
                 bridge[n].flood[v] = IF v \in VlansOf(r) /\ r.ofports \notin {None, {}}
                                      THEN [net |-> NetOn(r, v), out |-> r.ofports] ELSE None

(* Any two sound nodes have tunnels to each other, whatever else joined, failed  *)
(* or timed out (addTunnel, delTunnel) between their joins, and the record of a  *)
(* sound node lists the tunnels its br-tun has.                                  *)
MeshIsComplete ==
    \A n \in Sound :
        /\ bridge[n].tunnels = IF nodes[n].ofports = None THEN {} ELSE nodes[n].ofports
        /\ Sound \ {n} \subseteq bridge[n].tunnels

(* Two ports of different networks never carry the same VLAN tag on a node that  *)
(* is sound and never lost its last tunnel, although PortTagging reads each tag  *)
(* before it sets it.                                                            *)
TenantsApart ==
    \A p, q \in alive :
        (/\ Host[p] = Host[q] /\ Host[p] \in Sound \ lonely
         /\ tag[p] # None /\ tag[p] = tag[q]) => NetOf[p] = NetOf[q]

(* The connector, the tunnel manager and the nodes tell of the same ports: a     *)
(* port on a node is one the tunnel manager has, of that host, and a VM if it is *)
(* a compute port; one the tunnel manager has, the connector has as done         *)
(* (createPort, deletePort and the exceptions of delete_port_flow).              *)
PortRecords ==
    /\ \A n \in Known : \A p \in nodes[n].ports :
         /\ vPorts[p] # None /\ Host[p] = n
         /\ Owner[p] = "compute" => p \in vms
    /\ \A p \in Port : vPorts[p] # None => ml2Ports[p] # None /\ ml2Ports[p].flow_exec
=============================================================================
