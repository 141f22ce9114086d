# iNaaS: a verification project in TLA+

iNaaS builds virtual networks for OpenStack on top of an OpenFlow controller.
The repository holds the controller (Torpedo, the IRIS controller, in
`src/Torpedo`), the agent that runs on every compute and network node
(`src/IRIS-agent`), and vendored libraries and web assets. This project models
the parts of the controller that carry state and concurrency, checks them with
TLC on small instances, and proves the central facts about eight of them with
TLAPS for instances of any size.

`PROJECT.json` is the index: components, runs, the map from definitions to
source lines, hazards, findings and theorems.

To check a run: `tlc -workers 2 -config <run>.cfg <module>` (the pairs are in
the table below). To check the proofs: `tlapm TopologyInstanceProofs.tla`,
`tlapm TopologyProofs.tla`, `tlapm LinkTopologyProofs.tla`,
`tlapm SwitchSessionProofs.tla`, `tlapm SwitchPageProofs.tla`,
`tlapm StaticFlowsProofs.tla`, `tlapm OverlayProofs.tla` and
`tlapm DevicesProofs.tla`.

In what follows source paths are relative to
`src/Torpedo/src/etri/sdn/controller/` unless they start with `src/`.

## 1. The system

### Threads

* **Watchers** (`ClientChannelWatcher`) select over the sockets of the switches
  assigned to them, read batches of messages and hand each batch over with
  `TransferQueue.transfer`, which blocks until it is taken.
* **QP threads** (`OFController.QP`) take batches and run
  `OFProtocol.process` and, for each message, the handlers of the modules. A
  connection always uses the same QP thread, the next connection of the same
  switch perhaps another one. A throwable ends the thread.
  When a message is answered with false, the rest of its batch is dropped.
* **The Timer** of the controller (`OFController.scheduleTask`) is a single
  `java.util.Timer` thread: periodic link discovery, the delivery of queued link
  updates and one-shot topology updates run on it, one at a time, and an exception
  ends it.
* **REST threads** (Restlet) run requests of operators, Neutron and agents;
  nothing serialises them.
* **PortTagging threads** of the tunnel manager, one per port being plugged in.
* **The browser** of an operator: one thread, a timer that asks every five seconds,
  and callbacks when answers come.

### Components

| component | state | operations | how it interacts | what makes it correct |
|---|---|---|---|---|
| Controller core, `OFController` | the map of switches, one queue per QP thread | hand over a batch, add a switch, handle a disconnection, schedule a task | called by watchers; calls `OFProtocol` and the modules | a connected switch is in the map, under its live connection; a handover ends |
| OpenFlow session, `protocol/OFProtocol` | hosts whose 1.3 HELLO waits for an answer, port tables, lists of statistics replies | HELLO, FEATURES_REPLY, PACKET_IN, statistics request and reply | QP threads process, REST threads wait for replies | version negotiation converges; a notified caller has what was not dropped of its reply |
| Connection I/O, `protocol/io` | connections, their status | accept, read, close | closes a connection while a QP thread may be working for it | close and processing never contradict each other |
| Message streams, `src/Torpedo/src/org/openflow/io` | read and write buffers | frame, write | below the connections | framing survives partial reads; writes end |
| Link discovery, `module/linkdiscovery` | link table, index by switch, index by port, update queue, disconnections | probe received, port status, switch lost, timeouts | QP threads and the Timer over one lock, part of the work outside it; feeds the listeners | indexes agree with the table; dead links disappear |
| Topology manager, `module/topologymanager/OFMTopologyManager` | update queue, five link structures, current instance | receive an update, apply updates, create an instance | fed and run by the Timer, read by forwarding | no update lost, structures agree, the instance is current |
| Topology instance, `module/topologymanager/TopologyInstance` | clusters, a tree per switch, broadcast ports, route cache | identify clusters, compute trees, choose broadcast ports, build routes | created by the topology manager | clusters partition; routes end, without loops; a broadcast reaches each switch of a cluster once |
| Static flow entries, `module/staticentrymanager` | entries by name, two indexes, documents in the database, flows in the switches | post, delete, clear, reload, load at start | REST thread to switch to database, any of which may fail | the copies agree, or the disagreement is bounded |
| Storage manager, `module/storagemanager` | a MongoDB connection | insert, update, delete, query | used by static entries and the firewall | a failure is visible to its caller |
| ML2 connector, `module/ml2` | networks, subnets, ports | create, update, delete | called by Neutron over REST; calls the tunnel manager | its records agree with the tunnel manager's |
| Tunnel manager, `module/tunnelmanager` | nodes, a VLAN pool per node, tunnels, ports, VMs | join and loss of a node, flows of networks and ports, port tagging | commands the agents over REST | tenants keep apart; the mesh of tunnels is complete |
| Agent, `src/IRIS-agent` | none; the bridges of its node | report, create bridges, run a command | reports to the tunnel manager | it does what it is told or does not answer |
| Device manager, `module/devicemanager` | device map, index by MAC and VLAN, attachment points of each device | learn, clean up, switch lost, topology changed | every QP thread, every watcher, both timers, and forwarding, without a common lock | a learnt device is found, and located where it was seen |
| Forwarding and message damper | timed cache of messages | route or flood a packet | reads devices and topology, writes flows | a flow the switch lost is written again |
| Firewall | ordered rules, mode | decide on a packet, manage rules | before forwarding in the pipeline | the first matching rule decides |
| VXLAN flow mapper, learning switch, network failover, connection monitor | maps of flows and addresses; a bounded queue | see their sources | independent of each other | see section 6 |
| State manager, `module/statemanager` | none | list the switches, ask one for statistics | REST threads; reads the map of switches, calls `OFProtocol` | an answer is of its own request, in order |
| Web pages, `src/Torpedo/web/js` | rows, known ids, what other pages share | poll, rebuild the rows, fill them | asks the state manager over HTTP | the page ends up showing what the controller has |
| iNaaS topology, REST server, start-up | none of their own | views and wiring | - | - |
| Packet classes | headers | serialise | - | data layout only |

### What is hard to test

The list is in `PROJECT.json` under "hazards", each at its line. The themes:

* *reads outside a lock*: `Links.deleteLinksOnPort` reads the port index without
  the lock its writers hold;
* *check, then act*: `handleLldp` checks two ports and adds the link later;
  `PortTagging` reads a VLAN and sets it up to ten seconds later; FEATURES_REPLY
  puts a switch into the map whose connection may be gone, and another one there;
* *late events*: the loss of an old connection after the new one has registered,
  parts of a statistics reply after the timeout, a probe after a link timed out,
  the answer to an old poll of a page after that to a newer one;
* *two maps without a lock*: the index of devices names ids and the device map
  holds objects; four kinds of threads change both, one map after the other;
* *dropped messages*: one message of a batch that is answered with false takes the
  others with it, a FEATURES_REPLY or a part of a statistics reply;
* *half-done operations*: a static entry is a flow, a document and three map
  entries; deleting a port can throw after half of its records are gone;
* *unanswered commands*: an agent that does not answer is ignored when it is
  commanded and fatal to the request when it is asked;
* *algorithms that look wrong*: `dijkstra` polls the farthest node first, and
  `dfsTraverse` identifies components on graphs with one-way links.

## 2. Modules

| module | models | composed from |
|---|---|---|
| `OpenflowDomains` | `identifyOpenflowDomains`, `dfsTraverse` | |
| `RouteTree` | `dijkstra`, `buildroute` | |
| `TopologyInstance`, `TopologyInstanceProofs` | `compute`: domains, links of a cluster, tree, broadcast ports, routes | extends `RouteTree`, instantiates `OpenflowDomains` |
| `Devices`, `DevicesProofs` | `learnDeviceByEntity`, `cleanupEntities`, `updateAttachmentPoints`, `deleteDevice`, and `Device` | |
| `LinkDiscovery` | link discovery and the `Links` model | |
| `TopologyManager`, `TopologyProofs` | `OFMTopologyManager` | |
| `LinkTopology`, `LinkTopologyProofs` | the path from a probe to the topology instance | extends `LinkDiscovery`, instantiates `TopologyManager` |
| `LinkView` | what the path from a probe to the topology promises (abstract) | implemented by `LinkTopology` |
| `SwitchSession`, `SwitchSessionProofs` | accept, watcher, QP thread, handshake, registration, loss | |
| `StatsRequest` | `getSwitchStatistics` and the delivery of replies | |
| `SwitchPage`, `SwitchPageProofs` | `switches.js`, its two REST handlers, the map of switches | extends `StatsRequest` |
| `StaticFlows`, `StaticFlowsProofs` | static flow entries with database and switches | |
| `Overlay`, `OverlayProofs` | ML2 connector, tunnel manager, agents | |

Every `MC...` module names the constants of the runs. Definitions described
as *Mutant* are deliberately wrong variants, used nowhere in the specifications:
they exist so that every property can be seen to fail on a plausible bug.

### Correspondence with the code

**OpenflowDomains.** `stack` holds the activations of the recursive
`dfsTraverse`; each frame has the switch and the links its loop has yet to look
at, taken in any order because they come from hash sets. `IgnoreLink`,
`BackLink`, `TreeLink` are the three branches of the loop, `Return` the code
after it, where the cluster is closed or handed to the caller. The dfs index,
low point and parent index are the fields of `ClusterDFS`; `LONG_MAX` stands for
`Long.MAX_VALUE`, larger than every index.

**RouteTree.** `nodeq` is the priority queue as a set of node and distance;
`Poll` takes *a* head of it, the largest distance first as
`NodeDist.compareTo` has it, and tells an already seen node from one to expand.
`Relax` is one round of the inner loop, links in any order. `StartRoute`,
`WalkHop`, `EndRoute` are `buildroute`, from the switches `getRoute` lets through.

**TopologyInstance.** `compute` in the order of its calls: the actions of
`OpenflowDomains` over the graph of all links, then one step that gives the
cluster of `Root` the links inside it (`addLinksToOpenflowDomains`), then the
actions of `RouteTree` over those links. `Root` is the smallest switch, whose
tree is the broadcast tree of its cluster; since every graph is tried, this is
the tree of any switch. `broadcastNodePorts` are both ports of every link of
the tree, and `FloodFrom` is the way a packet takes when every switch that is
allowed to receive it floods it on. The fields of `ClusterDFS` are local to the
first phase and are reset at its end.

**Devices.** The number of a packet stands for the `Entity` and the
`AttachmentPoint` made from it; its time stamp is not earlier than the one before and
may be the same, as `new Date()` counts milliseconds. `index` is `primaryIndex`, `map` is
`deviceIdToDeviceMap`, `objs` the `Device` objects: the map compares by key and
entities, so two objects may be equal, and an object that has been replaced may
still be written to by a thread that has it. A call of `learnDeviceByEntity` is
split at every access to one of the two maps and inside `updateAttachmentPoint`,
between reading the attachment points (`ReadAPs`) and writing them (`WriteAPs`);
every `continue` goes back to "find". The clean-up, the topology update and
`deleteDevice` are split in the same way; an iterator of the map shows every
device that was there when it was made and may show others. `deleteDevice` runs in
the thread of the lost switch's watcher (`leaver`: `Disconnect`, `Collect` to
`Drop`, and `Forget`, which takes the switch out of the controller's map), beside
the QP threads, which may still be at packets of that switch (`Receive` asks only
that the thread be one of a connection the switch has or had, `QueuesOf`), and
beside other watchers. `solo` and `learnt` are history: the QP thread whose current
call no other thread has stepped into, and the call that ended last if that was
so until its end. Left out: IPv4
addresses (entities of a host differ by port), ports that are disabled,
suppressed attachment points, reclassification, the secondary indexes, listeners.

**LinkDiscovery.** `links`, `switchLinks`, `portLinks` are the maps of `Links`;
`task` says what each QP thread and the Timer are in the middle of. A handler is
split where another thread can interfere: `ReceiveLldp`, `ReadPortStates`,
`AddOrUpdateLink` for a probe; `LockStatus`, `RestateLink`, `EndStatus` for
a port status; `PurgePort`, `ReadPortLinks` (or `ReadPortLinksFails`: the set
vanished between two unlocked reads), `DeleteLink`, `EndDelete` for a port or
switch lost; `CleanDisconnected`, `LockTimeout`, `ExpireLink`, `ReapLink`,
`EndTimeout` for the periodic job. While a thread is between a lock and its
unlock, `MayLock` holds back every other one. Time is abstracted to
*fresh/stale* for links and *old* for disconnections, made true by `AgeLink` and
`AgeDisconnection`. The network may deliver a probe at any time, late, twice or
never. Only LLDP is modelled: the PACKET_IN filter admits nothing else, so BDDP
branches never run.

**TopologyManager.** The five structures are functions from ports to sets of
links, where a key that is absent is the empty set. `LinkDiscoveryUpdate` is the
listener (queue, and schedule if the queue was empty), `StartUpdateTopology`,
`ApplyUpdate`, `CreateNewInstance` the task, one poll per step.

**LinkTopology.** The queue of `LinkDiscovery` feeds the listener of
`TopologyManager`; the single Timer thread excludes the discovery job while the
topology task is running and the other way round.

**LinkView.** The abstract specification of that path, with neither queue nor threads:
`known` is what link discovery knows, `up` what it records with both ports up, and
`view` what the topology is headed for. `Show`, `Hide` and `Forget` change one link in
all three at once. In `LinkTopology` they are `Known`, the links of which `Up` holds
and those of which `WillHave` holds: the last of all pending updates about a link
decides, or the topology itself when there is none.

**SwitchSession.** `watcher` and `qp` are the program counters of the threads. A
watcher that has read a batch waits in "transfer" until its QP thread takes it
(`Poll`, `Take`, `Drained`: `poll` of the first batch and `drainTo` of the
others). The QP thread processes message by message; between the steps of
FEATURES_REPLY (`ProcessFeaturesReply`, `GetSwitch`, `AddSwitch`, `Handshaked`) the
watcher may close the connection, after which `getSwitch()` is null and the
thread ends (`Dies`), except that a switch that `GetSwitch` has read is put into the
map all the same. `DropItem` is the end of `QP.process` at a message that was
answered with false. `Connected` chooses the version of the HELLO by the mark
of the host, `ProcessHello` clears it. The switch (`SwitchSends`, `HangUp`) is
external.

**StatsRequest.** A call is a thread in `getSwitchStatistics`: it puts a list
into the cache, writes the request, waits a second, removes the list. The QP
thread looks up the list of a part and, in a second step, appends the part and
notifies; between the two, the caller may time out. A part may instead be dropped
with the rest of its batch (`DropRest`), any part at any time, since the messages
before it are not followed and the watcher cuts the batches anyhow. `wait` outside of a
condition loop is modelled as it is: a notification before it is lost.

**SwitchPage.** One switch, `registered` in the map or not and `connected` or
not: `Expire` takes the connection away and leaves the switch in the map,
because closing it there keeps the disconnection from being noticed. `lists` are
the answers to `/switches/json` on their way, of three kinds (with the switch,
without it, an error) and in no order; `ids`, `row` and `iris` are
`$scope.switch_dpids`, the row of the switch in `$scope.switches` and what
`$iris` shares with the topology page. `GotList` is the whole callback: ids, rows
and the call it makes for the row. A row that is dropped and made anew is a new
object, so the answer to an older call goes nowhere ("gone"). A call of
`StatsRequest` that has been answered is used again as a call with a new xid, when
nothing of its reply is under way.

**StaticFlows.** `job` is the request being served, as a list of operations
(a reload is a sequence of posts). One step per effect: the flow is deleted from
the switch, the document from the database, the name from the maps; the new
flow is written, the document inserted, the maps filled. Each write may fail,
with the exception or the silent return that the code has. `stale` and `doubt`
are history: what the code cannot know to be right.

**Overlay.** `nodes[n]` is a `NodeDefinition` with its pool of VLANs, `bridge[n]`
the br-tun its flows and tunnels are in. A request is one step, because the
module claims nothing about concurrent requests; `TagRead`, `TagSet` are
separate since the thread runs beside the requests. A command to an agent that
does not answer is lost silently (`rest_post`), a question throws (`rest_get`);
both show in `SetupTunnelPort`, `AddTunnel`, `DelTunnel`. Bridges are followed
only for nodes that joined with fresh bridges and whose agent has answered ever
since (`Sound`): what an unanswered command leaves behind is unknown.

## 3. Runs

| run | module, cfg | instance | shows |
|---|---|---|---|
| `instance` | `MCTopologyInstance`, `instance.cfg` | all 4096 directed graphs of four switches, every order of iteration, weight 1 | the clusters partition the switches and equal the connected components if every cable is known both ways; the tree is closed, broadcasts reach each switch once, routes are loop free, never meet null and arrive |
| `routes_shortest` | `MCRouteTree`, `routes_shortest.cfg` | a ring of seven switches | *violated*: a route is longer than the shortest path |
| `links` | `MCLinkDiscovery`, `links.cfg` | two switches, one cable probed both ways, one flapping port, one restarting switch, queue bound 1 | indexes agree, work under the lock stays valid |
| `topology` | `MCTopologyManager`, `topology.cfg` | two switches, three links, three kinds of link, queue bound 2 | structures agree, no update is lost, the instance is current, updates are applied |
| `link_topology` | `MCLinkTopology`, `link_topology.cfg` | one link, flapping port, restarting switch, one update on its way | the system implements `LinkView`, hence no ghost links; no missing links, dead ports lose their links, the instance follows |
| `sessions` | `MCSwitchSession`, `sessions.cfg` | one switch, two connections one after the other, each with its own watcher and QP thread, two unread messages | a live switch is in the map, under its live connection unless a closed one was put late; the mark of the host is right |
| `sessions_live` | `MCSwitchSession`, `sessions_live.cfg` | two switches that insist on different versions, one watcher, one QP thread, two unread messages | handovers end, each switch gets registered unless its FEATURES_REPLY is dropped behind a PACKET_IN |
| `sessions_overlap` | `MCSwitchSession`, `sessions_overlap.cfg` | as `sessions`, but a switch may reconnect before the old loss is noticed | *violated*: the late disconnection removes the live switch |
| `switch_page` | `MCSwitchPage`, `switch_page.cfg` | one switch that comes, goes and expires, two calls under way, replies of one part and of two, any part may be dropped, two answers to list requests | a notified caller has all that was not dropped, in order; every call ends; the page catches up |
| `static_flows` | `MCStaticFlows`, `static_flows.cfg` | two names, two switches, two matches, four entries | map and indexes agree, no ghost documents, switches agree up to `doubt` |
| `overlay` | `MCOverlay`, `overlay.cfg` | two nodes, two networks, three ports, two VLANs, two faults | VLAN pool, bridges, mesh, tenants, records |
| `devices` | `MCDevices`, `devices.cfg` | one host, a port on each of two switches, one domain or two, a port that may get a link, both switches on both QP threads, three events in all (packets, topology changes, clean-ups, disconnections), three time stamps | a packet learnt undisturbed makes its host findable and located; every call ends |

### Why the bounds are enough to be interesting

* *Four switches*: two clusters joined by a one-way link, cycles of every length
  up to four, and a queue with more than one candidate. The wrong order of the
  queue costs hops only from seven switches in a ring on, so the finding uses
  those.
* *Links*: both ends of one cable give two links that share both ports, the case
  in which port index and table can part; a port goes down during a probe, a
  switch returns while its old disconnection is being cleaned up, and a timeout
  meets a late probe. `link_topology` probes the cable in one direction: whether a
  port loses a link does not depend on the other one. `MaxUpdates` limits *new
  input* while updates wait; work in progress is never held back, so the queue
  grows beyond the bound.
* *Topology*: one port with two links and a link back, and two queued updates, so
  a run of the task applies several and the second may undo the first.
* *Sessions*: a second connection object for the same datapath id is what the
  races need, and a QP thread of its own for each of the two what the late put needs;
  with two unread messages a batch holds a message after the one that ends it, in
  `sessions_live` a FEATURES_REPLY after a PACKET_IN.
* *Switch page*: parts of two calls interleave on one QP thread, a second part
  meets a call that timed out after the first, or comes when the first was dropped; two answers are enough for an old
  list to come after a newer one, and calls are used again without limit. A switch
  that had expired takes longer to come back than the second of a call. Requests
  themselves do not fail: an error is the handler's, at a switch without a
  connection. The descriptions of the switches are fetched in the same way as the
  statistics and decide nothing.
* *Devices*: a call works on what at most two others have left behind, or are in the
  middle of: two packets and a topology change, a disconnection or a clean-up, or one
  packet and two of these, in every interleaving; packets of a switch are learnt while
  its devices are deleted. `MaxDevices` and `MaxObjects` are never reached. A clean-up
  never removes what is being learnt, because an entity expires after an hour.
* *Static flows*: a name that moves between switches, and two names with the same
  match, so that deleting one removes the other's flow.
* *Overlay*: two networks compete on one node for a pool of the same size, which
  makes reuse immediate; with two faults a node is lost and lost again, or an
  agent fails and the controller restarts. Each history variable (`lonely`,
  `leaked`, `fresh`) marks an outcome of the code that the property excludes.

Deadlock checking is off in `links`, `link_topology`, `sessions*` and `devices`
only: there the network may fall silent, a thread may have died, or the last
packet has been learnt.

### Fairness

* `OpenflowDomains`, `RouteTree`, `TopologyInstance`: one thread that keeps running
  (weak fairness); a request for a route need not come.
* `Devices`: as long as some thread has work to do, one of them goes on with it (weak
  fairness of `Work`); none waits for another, and `LearningEnds` does not depend on
  which one it is. Packets, topology changes and disconnections need not come.
* `LinkDiscovery`, `LinkTopology`: strong fairness for each thread, because it
  may wait for a lock others take in between; the periodic jobs, the delivery of
  updates among them, come round again on the Timer. The
  network, including probes, is under no fairness. Liveness claims are stated
  for runs in which the Timer does not die, since an exception ends it, and
  (`DeadPortsLoseLinks`) in which time passes: the bound on new input holds the
  clock back too, so this is a premise (`TimePasses`) and not fairness of `AgeLink`.
* `TopologyManager`: the Timer runs what is scheduled.
* `SwitchSession`: watcher and QP threads run; the ready connections of a
  selector each get their turn; a switch without a connection tries again and
  answers what it accepts. Claims hold while no QP thread has died;
  `EverySwitchRegistered` besides for a switch whose FEATURES_REPLY is never dropped
  behind a PACKET_IN (`Swallows`), since neither side repeats it.
* `StatsRequest`, `SwitchPage`: callers and QP thread run and a second passes; the
  timer of the page fires and HTTP delivers each kind of answer; the switch owes
  no reply and need neither come nor stay.
* `StaticFlows`, `Overlay`: only safety is checked.

## 4. Findings

* **`routes_shortest`**. `TopologyInstance.dijkstra` calls its result shortest
  path trees (`TopologyInstance.java`, comment at 135-136), but the queue orders
  nodes by falling distance and never expands a node twice, so on a ring of
  seven a route takes more hops than needed. Routes are still loop free.
* **`sessions_overlap`**. `getSwitches` is documented to return all switches
  (`OFController.java:402`), but `handleDisconnectEvent` (`:443`) removes the datapath id
  whatever connection it stands for: a switch that reconnects before the
  controller notices the loss of its old connection vanishes from the map while
  it is connected.

## 5. Proofs

TLAPS proves the following for all values of the constants.

**TopologyInstanceProofs**, one tree at a time (from `RouteAssumptions`: links join
switches, weights are positive, `MAX_PATH_WEIGHT` is positive): `RouteTypeCorrect`,
`RouteNeverStuckHolds`, `RouteLoopFreeHolds`, each `Spec => []...` for any graph
and any positive weights, and `TreeClosedHolds` (below). Neither property is inductive. The strengthening is

    RouteInv == TypeOK /\ CostsDescend /\ WalkDescends /\ RouteNeverStuck

The argument does not need Dijkstra's order, which the code has upside down:
costs only fall, so the distance recorded in a queue entry may be stale but only
too large, and a node that takes a next hop always has a cost strictly above
that of the next hop *at the same moment*. Next hops descend in cost, so they
have no cycle, and a walk along them visits no switch twice (`WalkDescends`).
That the walk ends also needs the number of switches to be finite; it is checked
by TLC (`Arrives`).

`TreeClosedHolds` says that a finished tree leaves out no switch that a link joins
to one of its own. It needs one more assumption, and the code does: a distance
that reaches `MAX_PATH_WEIGHT` would not improve anything, and the switch would
be left out. `WeightsFit(W)` says that no weight is above W and that W times the
number of switches stays below `MAX_PATH_WEIGHT`. The strengthening `TreeInv`
says that every distance in the queue is at most W times the number of switches
seen so far, in whatever order they were; that a switch with a next hop has been
seen or waits in the queue; and that of a link into a seen switch either the far
end has a next hop or the link is still to be relaxed. The bound on the
distances is what makes `Improves` true when such a switch is met for the first
time (`SeenFits`).

**TopologyInstanceProofs**, the whole instance (from `InstanceAssumptions` besides:
there are finitely many switches, the index of the traversal never reaches
`Long.MAX_VALUE`, which marks a finished switch, and what is left of a network
when switches and links are taken away is a network): `ClustersPartitionHolds` and
`ClustersAreComponentsHolds` for the partition into OpenFlow domains;
`SysRouteTypeCorrect`, `SysRouteNeverStuck`, `SysRouteLoopFree` and `SysTreeClosed`,
the theorems of one tree for the tree that is computed over the links of a cluster;
and `BroadcastSpansHolds` for the flood tree read off it.

    DomInv  == DomType /\ Frames /\ Clusters
    CompInv == Numbered /\ LinkBack /\ Explored /\ ClustersClosed /\ Connected

`DomInv` gives the partition. `Frames` describes the stack of `dfsTraverse`: the
visits under way are of different switches, in no cluster yet. A root is called with `parentIndex` 0, which is below every
lowpoint, so a root always closes its cluster: nothing is left in `currSet` between
two roots, and every visited switch is in exactly one cluster, under way or finished.

That the clusters are the components needs to know that *only* roots close one. The
code's test `lowpoint > parentIndex` is the one for bridges and strong components, and what
makes it right here is that links come in both directions, and that a visit knows
the index of the one below it on the stack, which is smaller (`Numbered`): a visit that is not a
root either has its link back to the caller still to look at or has looked
at it, and then its lowpoint is at most the caller's index (`LinkBack`). `Explored`
says that the far end of a link that was looked at has been visited,
`ClustersClosed` that no link leaves a finished cluster, and `Connected` that no
part of a cluster that is not all of it is closed under links. The last two together
say what `ClustersAreComponents` does.

`SysInv` joins traversal and routes: the first two strengthenings until the
partition is finished, then the partition itself (`Answer`), together with
`RouteInv` and `TreeInv` of the tree over the cluster's links. The lemma is that
the links of a cluster again satisfy the assumptions on a network, so
what is proved of one tree applies. `BroadcastSpans` then follows by
`TreeClosed` and `CostsDescend`: the switches that have a route are closed under links,
so by connectedness they are all of the cluster; a set that contains the root, or any
other switch, and is closed under the ports that flood contains every switch, by descent in cost; and a
switch and its next hop are a cable that no other switch names, so the tree has one
cable fewer than switches.

**SwitchPageProofs** (from `StatsAssumptions`): `NotifiedHolds`, for any number of
calls and parts, `PageSpec => []NotifiedIsComplete`: a caller that was woken
returns, in order, exactly the parts of its reply that the QP thread did not drop
with the rest of a batch. The strengthening is

    PartsInv == StatsType /\ CallsInOrder /\ ListsInOrder /\ WireInOrder
                  /\ PartsAccounted /\ WokenHasLast

`ListsInOrder` says that a list grows in the order of the parts, and that the part
in the hands of the QP thread is a later one; `WireInOrder` that what is on its way is
later still, in order. `PartsAccounted` says that every part sent to a live call
is in its list, in the hands of the QP thread, on its way, or dropped: the QP thread
finds a list for each part it does not drop, because `getSwitchStatistics` files its
list before it writes the request (`CallsInOrder`). `WokenHasLast` says that the part
that woke the caller is in the list; everything before it has then left the way, and
only what was dropped is missing. Reusing a call for a new xid is
safe because nothing of its old reply is under way (`GotAggregate`). That the
page catches up (`ViewFollows`) is liveness and left to TLC.

**StaticFlowsProofs** (from `StaticAssumptions`): `IndexesAgreeHolds`,
`NoGhostDocsHolds` and `FlowsAgreeHolds`, for any names, switches, matches and
entries. One strengthening serves all three:

    StaticInv == StaticType /\ IndexesAgree /\ StepsInOrder /\ DocsFollow /\ TableFollows

`StepsInOrder` says that a deletion goes on only with an entry in the map and an
addition only without one, because `addFlow` deletes first. `DocsFollow` says at
each step of an operation whether the document of its name is still, no longer
or not yet there, and that a name never has two: `deleteDBEntry` takes only one,
so a second one would be the ghost. `TableFollows` does the same for flows: the
flow being deleted is gone before its entry, the flow being added is there
before its entry, and every other flow not in doubt is there exactly if an entry
wants it. `FlowsAgree` is not inductive without it: it excuses every flow of the
operation under way, so it does not say what `Forget` and `Remember` find.

**LinkTopologyProofs** (from `LinkAssumptions`: ports have a switch, and `NoInfo`
is no `LinkInfo`): `LinkTypeCorrect`, `IndexesAgreeHolds` and
`LockedWorkIsKnownHolds` for link discovery, and on top of them
`NoGhostLinksHolds`, `NoMissingLinksHolds` and the refinement `LinkViewHolds` for the
whole path from a probe to the topology, for any ports, switches and threads.

    LinkInv == TypeOK /\ IndexesAgree /\ LockedWorkIsKnown /\ OneLocked

`IndexesAgree` is inductive only while no thread changes the table between the
snapshot that another one took inside the write lock and its use of it:
`OneLocked` says that at most one thread has such work, and `LockedWorkIsKnown`
that the links it still has to visit are in the table. The two properties of the
topology need, besides, one fact about a step (lemma `Announced`): link discovery
either changes nothing the topology cares about, or one link and, in the same
step, the queue of updates, by the update that says what it did. The queue is then
read from its end: the last update about a link decides, and an update about
another link does not matter.

`LinkViewHolds` (`SysSpec => ImplementsLinkView`) goes step by step: the initial state
maps to the initial state of `LinkView`; a step that is `Announced` maps to `Show`,
`Hide` or `Forget` of its link (`ViewMoves`), or to a stutter when a thread removes
a link from an old list that another thread has removed already; the steps that deliver
or apply an update map to stutters (`DeliverKeeps`, `ApplyKeeps`). The mapping is
sound only together with the invariant: that such a late removal is a stutter needs
`NoGhostLinks`. `LinkViewPromises` is the converse question, whether the abstract
specification says enough: whatever implements it has no ghost and no missing links.

**SwitchSessionProofs** (from `SessionAssumptions`): `SessionTypeCorrect` for any
hosts, connections, switches, QP threads and watchers; `LiveSwitchRegisteredHolds`
under the hypothesis `~Overlap`, that a switch does not open a connection before
the controller has seen its last one go; and `MarkTellsUnansweredHolds` if besides
no two switches share a host (`OneSwitchPerHost`).

    SessionInv == TypeOK /\ ErrandsRun /\ BatchesStand /\ FreshUnknown

`ErrandsRun` says that a watcher at work is at a running connection of its own,
`BatchesStand` that what a QP thread has taken is not empty and comes from
connections that were running when they were read; `FreshUnknown` that a connection
that never ran is neither in the map nor asked for anything. With `~Overlap` two more
facts are inductive: `OneAtATime`, that a switch has at most one open connection, and
`QueuesInOrder`, that a QP thread is at nothing of a switch's older connection once
the switch has identified itself over a newer one of the same thread. The second one
is why a late put can hide the live connection only from another QP thread
(`conn.getSeq() % processors.length` chooses it): `LiveSwitchRegistered` has that
exception, and is false without it.
Both hypotheses are the point of the theorem, not a convenience: without `~Overlap`
the conclusion is false (run `sessions_overlap`, a finding above), and the mark of a
host that waits for a HELLO is kept by its address, so two switches behind one
address share it. `Overlap` is a constant, FALSE in the runs `sessions` and
`sessions_live`.

**OverlayProofs** (from `OverlayAssumptions`: VLANs are numbers, ports have a host
and a network, and `None` is neither a record nor a set): `OverlayTypeCorrect`,
`VlanPoolHolds`, `BridgeFollowsHolds`, `MeshIsCompleteHolds`, `PortRecordsHolds`
and `TenantsApartHolds`, each `Spec => []...`, for any nodes, networks, ports and
VLANs. The module first proves what each operator does to one node (a *site*: the
record of the node and its `br-tun`), then, request by request, that every node is
left alone or ends as a good site, and then four strengthenings on each other:

    PoolInv  == TypeOK /\ SitesGood /\ NetsKnown
    PortsInv == PoolInv /\ PortsPlaced /\ PortsDone
    PoolInv /\ MeshIsComplete
    PortsInv /\ LonelyMarked /\ TagsTrue

`SitesGood` joins the pool of VLANs and the flows, which neither `VlanPool` nor
`BridgeFollows` can do alone: a deletion removes the flows of the VLANs it returns,
so it must be known that no other network has them; and `ofports_flow` writes only
the flows of VLANs in use, so it must be known that the others have none.
In the middle of a request a site may be raw (`RawSite`): its flood flows are out of
date, but only those that `ofports_flow` is about to write. `PortsPlaced` says
that the network of a compute port is known as long as the port is on a node, which
is what keeps `delete_port_flow` from throwing half way. `TagsTrue` carries a
VLAN over the time between `PortTagging`'s read and its write: what a thread has
read stays the VLAN of its port's network while the port is on the node, because
only the last port of a network returns its VLAN. A node that loses its last tunnel
returns them all, ports or not; `lonely` marks it, and `TenantsApart` says nothing
of it.

**DevicesProofs** (from `DeviceAssumptions`: ports have a switch, and a topology
instance names its internal ports and the domains of the switches):
`DeviceTypeCorrect`, `LearntIsFoundHolds` and `LearntIsLocatedHolds`, each
`Spec => []...`, for any hosts, switches, ports, QP threads and topologies.

    TypeOK /\ Stamps /\ SoloFinds /\ LearntIsFound /\ SoloPlaces /\ LearntIsLocated

The type invariant is the part about races: an object stays when the map has lost
it, so a thread never holds one that is not there, whatever another thread, the
watcher of the same switch included, did to the map in between. The other two
theorems say nothing of the state that the races leave behind, and need nothing of
it: a call that is not disturbed reads all that it relies on. `SoloFinds` says, at each
of its steps, that the entry of the index and the object of the map are still what it
read or wrote, so that its `replace` does not fail and its last `updateIndices` finds
its own id; at its end it becomes what `LearntIsFound` says, until somebody takes the
next step. `SoloPlaces` says that its packet is the newest one until
`updateAttachmentPoint` writes the list; `Stamps`, that no other attachment point was
seen after that, so that the comparator lets the new one displace what the domain
had (`PlacePuts`). It does not if both have the same millisecond, because the
comparison is strict, nor need it if the new one comes from `oldAPs` with its old
`activeSince`: these are the two exceptions in `LearntIsLocated`. The lists
are proved about in `Kept`, what is left of a list at some of its positions, since
`SelectSeq` is recursive.

**Only model-checked.** Liveness (`Arrives`, `LearningEnds`, `ViewFollows`, `DeadPortsLoseLinks`,
`UpdatesApplied`, `InstanceFollowsLinks`, `TransferEnds`,
`EverySwitchRegistered`, `EveryCallEnds`): fairness and ENABLED are out of the
prover's reach. Every invariant of the passing runs is proved, those of
`sessions` under the hypotheses named above.
`RouteIsShortest` is false, a finding above, and speaks of a recursive function
(`WithinHops`), about which nothing is proved: induction over data is out of reach too.
Reachability is therefore stated by closed sets and not by recursion (`Closed`,
`Reach`, `FloodFrom`): what is reached from a switch is in every set that contains it and is
closed under links.

## 6. Plan

Built so far, in the order of importance: the topology from probe to route and
broadcast, the life of a session, what operators and OpenStack write into the
network, the devices, and the page an operator looks at.

Next, modelling:

1. `Forwarding` with `OFMessageDamper` and its timed cache, composed with
   `Devices` and an abstract topology. Properties: a flow a switch lost is written
   again; a packet is not flooded back; a cluster that has vanished.
2. `Firewall`: rule order and the wildcard pair against a reference decision; then
   the pipeline of modules in front of forwarding.
3. Message framing over partial reads and the write buffer; the timer of the core
   with the rest of the connection monitor.
4. Concurrent REST threads for `StaticFlows`, storage failures in full,
   `VxlanFlowMapping`, `NetFailover`.
5. The page of devices over `Devices`, as `SwitchPage` is over `StatsRequest`.

Another abstract specification worth stating, as `LinkView` is for the topology, is a
*key-value entry* with three copies, implemented by `StaticFlows`.

## 7. Not modelled, and why

* Serialisation of packets, JSON and REST plumbing and start-up: data layout and
  wiring, no control of their own.
* `src/Torpedo/web/lib` (jQuery, jQuery UI, Angular, D3, Underscore): nearly all of
  the JavaScript in the repository is these libraries; the program's own pages are
  some 1,500 lines in `src/Torpedo/web/js`, and its logic is in Java.
* The other web pages (devices, ports, flows, virtual networks, the drawing of the
  topology): they poll like the page of switches; what can go wrong in them is
  among the hazards, with notes.
* Forwarding, firewall, flow mapper, failover, learning switch, message streams: see
  the plan.
* The flow cache: interfaces without an implementation.
* BDDP and broadcast-domain links in link discovery: dead code behind the
  PACKET_IN filter. (The topology manager accepts such links and is modelled
  with all three kinds.)
* Concurrent requests in `StaticFlows` and `Overlay`: the code shares plain maps
  and lists without a lock; see the hazards.
* In `Overlay`, ports of gateways and floating ips, which the connector drops,
  and subnets, which nothing depends on.
* The bodies of the commands the agents run: external.
