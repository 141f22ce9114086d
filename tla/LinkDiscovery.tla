--------------------------- MODULE LinkDiscovery ---------------------------
(***************************************************************************)
(* OFMLinkDiscovery and its Links model: the links the controller believes *)
(* in, the two indexes over them, and the queue of updates for listeners.  *)
(*                                                                         *)
(* Threads: one QP thread per switch runs the handlers of that switch's    *)
(* messages; the controller's single Timer thread runs the periodic jobs.  *)
(* Links has a write lock: what runs under it is a run of steps of one     *)
(* thread that no other locked run interleaves with, what runs outside it  *)
(* (the reads of deleteLinksOnPort, the port checks of handleLldp) does.   *)
(*                                                                         *)
(* LLDP packets are the environment's: a probe may arrive over any link at *)
(* any time, late, twice or never.  Only standard LLDP is modelled: the    *)
(* PACKET_IN filter of initialize() admits ethertype 0x88cc alone, so the  *)
(* BDDP branches never run and every link is a DIRECT_LINK.                *)
(*                                                                         *)
(* A switch has one connection at a time here, and handles one message at  *)
(* a time; portState is what OFProtocol knows through that connection.     *)
(***************************************************************************)
EXTENDS Naturals, Sequences, FiniteSets

CONSTANTS
    Switch,        \* datapath ids
    NodePort,      \* NodePortTuples: pairs <<switch, port>>
    Link,          \* possible links: [src, dst], two NodePorts
    Flapping,      \* the NodePorts whose status changes
    Restarting,    \* the switches whose connection may break
    Version,       \* OpenFlow version of each switch, "OF_10" or "OF_13"
    Timer,         \* the Timer thread
    NoInfo,        \* Java's null among LinkInfos
    MaxUpdates     \* bound: no new input while the queue is this long

Node(n) == n[1]

(* The OFPortDesc of a port: no state bit, STP_BLOCK, not enabled (LINK_DOWN, *)
(* BLOCKED or PORT_DOWN); or no entry in portInformations, "unlearnt" while   *)
(* the port description of an OpenFlow 1.3 switch is still to come.           *)
LinkState == {"up", "stp", "down"}
PortState == LinkState \union {"none", "unlearnt"}
Info == [time : {"fresh", "stale"}, src : LinkState, dst : LinkState]

ASSUME LinkAssumptions ==
    /\ \A n \in NodePort : Node(n) \in Switch
    /\ \A l \in Link : /\ l.src \in NodePort /\ l.dst \in NodePort
                       /\ Node(l.src) # Node(l.dst)
    /\ Flapping \subseteq NodePort /\ Restarting \subseteq Switch
    /\ Version \in [Switch -> {"OF_10", "OF_13"}]
    /\ Timer \notin Switch /\ NoInfo \notin Info
    /\ MaxUpdates \in Nat

Thread == Switch \union {Timer}

VARIABLES
    portState,       \* OFProtocol.portInformations
    switches,        \* OFController.switches: the connected switches
    disconnections,  \* set of [sw, ports, old]; old: more than 10 s ago
    links, switchLinks, portLinks,
    updates,         \* the queue of LDUpdates
    task,            \* what each thread is doing
    cleaned          \* to_remove of cleanDisconnectedSwitches

linkVars == <<links, switchLinks, portLinks>>
netVars == <<portState, switches, disconnections>>
vars == <<netVars, linkVars, updates, task, cleaned>>

Idle == [pc |-> "idle"]
pc(t) == task[t].pc
Become(t, job) == task' = [task EXCEPT ![t] = job]

Known == {l \in Link : links[l] # NoInfo}
Ends(l) == {l.src, l.dst}

Init ==
    /\ portState = [n \in NodePort |-> "none"]
    /\ switches = {}
    /\ disconnections = {}
    /\ links = [l \in Link |-> NoInfo]
    /\ switchLinks = [s \in Switch |-> {}]
    /\ portLinks = [n \in NodePort |-> {}]
    /\ updates = <<>>
    /\ task = [t \in Thread |-> Idle]
    /\ cleaned = {}

(* The write lock of Links: held inside these jobs. *)
Locked == {"restate", "delete", "timeout"}
(* Mutant: nobody takes the lock. *)
NoLock(t) == TRUE

MayLock(t) == \A u \in Thread \ {t} : pc(u) \notin Locked

MayAccept == Len(updates) < MaxUpdates
-----------------------------------------------------------------------------
(* Mutant: the operation is not passed on. *)
LinkUpdateOnly(op, l) == [op |-> "LINK_UPDATED", link |-> l]

(* Updates.  Only LINK_ updates carry a link; the topology ignores the rest. *)
LinkUpdate(op, l) == [op |-> op, link |-> l]
Notice == [op |-> "NOTICE"]    \* PORT_UP, PORT_DOWN or SWITCH_UPDATED

(* Mutant: the two operations are swapped. *)
UpdateSwapped(info) ==
    IF info.src = "up" /\ info.dst = "up" THEN "LINK_REMOVED" ELSE "LINK_UPDATED"

(* getUpdateOperation(src, dst): STP_BLOCK and LINK_DOWN both take it down. *)
UpdateOperation(info) ==
    IF info.src = "up" /\ info.dst = "up" THEN "LINK_UPDATED" ELSE "LINK_REMOVED"

(* protocol.portEnabled ignores the STP state. *)
PortEnabled(n) == portState[n] \in {"up", "stp"}

(* Mutant: no null check. *)
RawStateOf(n) == portState[n]

(* The state LinkInfo is given: a missing OFPortDesc counts as no state. *)
StateOf(n) == IF portState[n] \in LinkState THEN portState[n] ELSE "up"
-----------------------------------------------------------------------------
(* FEATURES_REPLY in OFProtocol: OpenFlow 1.0 brings the ports along, 1.3 has   *)
(* to be asked for them.                                                        *)
PortsAfterFeatures(s) ==
    [n \in NodePort |-> IF Node(n) # s THEN portState[n]
                        ELSE IF Version[s] = "OF_10" THEN "up" ELSE "unlearnt"]

(* It goes on with OFController.addSwitch and handleHandshakedEvent.  The       *)
(* removeAll of a skip list set goes by switch id.                              *)
Handshake(s) ==
    /\ MayAccept /\ s \notin switches
    /\ portState' = PortsAfterFeatures(s)
    /\ switches' = switches \union {s}
    /\ disconnections' = {d \in disconnections : d.sw # s}
    /\ updates' = Append(updates, Notice)
    /\ UNCHANGED <<linkVars, task, cleaned>>

(* STATS_REPLY of type PORT_DESC: the ports of an OpenFlow 1.3 switch. *)
PortDescription(s) ==
    /\ s \in switches /\ pc(s) = "idle"
    /\ \E n \in NodePort : Node(n) = s /\ portState[n] = "unlearnt"
    /\ portState' = [n \in NodePort |-> IF Node(n) = s /\ portState[n] = "unlearnt"
                                       THEN "up" ELSE portState[n]]
    /\ UNCHANGED <<switches, disconnections, linkVars, updates, task, cleaned>>

(* handleDisconnect: the set holds one Disconnection per switch, the first. *)
WithDisconnection(s) ==
    IF \E d \in disconnections : d.sw = s THEN disconnections
    ELSE disconnections \union
           {[sw |-> s, old |-> FALSE,
             ports |-> {n \in NodePort : Node(n) = s /\ portState[n] \in LinkState}]}

(* handleDisconnectEvent: the modules, then the map of switches. *)
Disconnect(s) ==
    /\ s \in switches
    /\ disconnections' = WithDisconnection(s)
    /\ switches' = switches \ {s}
    /\ UNCHANGED <<portState, linkVars, updates, task, cleaned>>

(* Time: ten seconds after a disconnection (one that turns old during the       *)
(* discovery job is left to the next job), LINK_TIMEOUT after a probe.          *)
AgeDisconnection(d) ==
    /\ d \in disconnections /\ ~d.old /\ pc(Timer) \in {"idle", "drain"}
    /\ disconnections' = (disconnections \ {d}) \union {[d EXCEPT !.old = TRUE]}
    /\ UNCHANGED <<portState, switches, linkVars, updates, task, cleaned>>

AgeLink(l) ==
    /\ links[l] # NoInfo /\ links[l].time = "fresh"
    /\ links' = [links EXCEPT ![l].time = "stale"]
    /\ UNCHANGED <<netVars, switchLinks, portLinks, updates, task, cleaned>>
-----------------------------------------------------------------------------
(* handleLldp, in the thread of the switch that received the probe: first the  *)
(* checks ...                                                                  *)
ReceiveLldp(l) ==
    LET s == Node(l.dst)
    IN  /\ MayAccept /\ pc(s) = "idle" /\ s \in switches
        /\ Node(l.src) \in switches
        /\ PortEnabled(l.src) /\ PortEnabled(l.dst)
        /\ Become(s, [pc |-> "lldp", link |-> l])
        /\ UNCHANGED <<netVars, linkVars, updates, cleaned>>

(* ... then the port states the LinkInfo will record ...                       *)
ReadPortStates(s) ==
    /\ pc(s) = "lldp"
    /\ LET l == task[s].link
       IN  Become(s, [pc |-> "add", link |-> l,
                      src |-> StateOf(l.src), dst |-> StateOf(l.dst)])
    /\ UNCHANGED <<netVars, linkVars, updates, cleaned>>

(* ... then Links.addOrUpdateLink, under the lock.                             *)
AddOrUpdateLink(s) ==
    /\ pc(s) = "add" /\ MayLock(s)
    /\ LET l == task[s].link
           new == [time |-> "fresh", src |-> task[s].src, dst |-> task[s].dst]
           old == links[l]
       IN  /\ links' = [links EXCEPT ![l] = new]
           /\ IF old = NoInfo
              THEN /\ switchLinks' =
                        [x \in Switch |-> IF x \in {Node(l.src), Node(l.dst)}
                                          THEN switchLinks[x] \union {l}
                                          ELSE switchLinks[x]]
                   /\ portLinks' = [n \in NodePort |->
                                      IF n \in Ends(l) THEN portLinks[n] \union {l}
                                                       ELSE portLinks[n]]
                   /\ updates' = Append(updates, LinkUpdate("LINK_UPDATED", l))
              ELSE /\ updates' = IF old.src # new.src \/ old.dst # new.dst
                                 THEN Append(updates, LinkUpdate(UpdateOperation(new), l))
                                 ELSE updates
                   /\ UNCHANGED <<switchLinks, portLinks>>
    /\ Become(s, Idle)
    /\ UNCHANGED <<netVars, cleaned>>
-----------------------------------------------------------------------------
(* PORT_STATUS: OFProtocol stores the new description, then handlePortStatus.  *)
(* A down or deleted port goes to deleteLinksOnPort, a modified one to         *)
(* updatePortStatus; an added one is only probed.                              *)
PortDeleted(n) ==
    LET s == Node(n)
    IN  /\ MayAccept /\ pc(s) = "idle" /\ s \in switches
        /\ portState[n] \in LinkState
        /\ portState' = [portState EXCEPT ![n] = "none"]
        /\ Become(s, [pc |-> "purge", rest |-> {n}])
        /\ UNCHANGED <<switches, disconnections, linkVars, updates, cleaned>>

PortModified(n, st) ==
    LET s == Node(n)
    IN  /\ MayAccept /\ pc(s) = "idle" /\ s \in switches
        /\ portState[n] \in LinkState \ {st}
        /\ portState' = [portState EXCEPT ![n] = st]
        /\ Become(s, IF st = "down" THEN [pc |-> "purge", rest |-> {n}]
                     ELSE [pc |-> "status", npt |-> n, state |-> st])
        /\ UNCHANGED <<switches, disconnections, linkVars, updates, cleaned>>

PortAdded(n, st) ==
    LET s == Node(n)
    IN  /\ MayAccept /\ pc(s) = "idle" /\ s \in switches
        /\ portState[n] = "none"
        /\ portState' = [portState EXCEPT ![n] = st]
        /\ UNCHANGED <<switches, disconnections, linkVars, updates, task, cleaned>>

(* Links.updatePortStatus takes the lock and visits the links on the port. *)
LockStatus(s) ==
    /\ pc(s) = "status" /\ MayLock(s)
    /\ Become(s, [pc |-> "restate", npt |-> task[s].npt, state |-> task[s].state,
                  todo |-> portLinks[task[s].npt]])
    /\ UNCHANGED <<netVars, linkVars, updates, cleaned>>

RestateLink(s, l) ==
    /\ pc(s) = "restate" /\ l \in task[s].todo
    /\ links[l] # NoInfo      \* the source's assert(linkInfo != null)
    /\ LET st == task[s].state
           new == [links[l] EXCEPT !.src = IF l.src = task[s].npt THEN st ELSE @,
                                   !.dst = IF l.dst = task[s].npt THEN st ELSE @]
       IN  /\ links' = [links EXCEPT ![l] = new]
           /\ updates' = IF new # links[l]
                         THEN Append(updates, LinkUpdate(UpdateOperation(new), l))
                         ELSE updates
    /\ Become(s, [task[s] EXCEPT !.todo = @ \ {l}])
    /\ UNCHANGED <<netVars, switchLinks, portLinks, cleaned>>

EndStatus(s) ==
    /\ pc(s) = "restate" /\ task[s].todo = {}
    /\ updates' = Append(updates, Notice)
    /\ Become(s, Idle)
    /\ UNCHANGED <<netVars, linkVars, cleaned>>
-----------------------------------------------------------------------------
(* deleteLinksOnPort for the ports of job.rest, by a QP thread or the Timer.    *)
(* portLinks is tested, read and used without the lock.                         *)
PurgePort(t, n) ==
    /\ pc(t) = "purge" /\ n \in task[t].rest
    /\ IF portLinks[n] = {}
       THEN /\ Become(t, [task[t] EXCEPT !.rest = @ \ {n}])
            /\ updates' = Append(updates, Notice)
       ELSE /\ Become(t, [pc |-> "get", npt |-> n, rest |-> task[t].rest \ {n}])
            /\ UNCHANGED updates
    /\ UNCHANGED <<netVars, linkVars, cleaned>>

(* eraseList.addAll(portLinks.get(npt)) ... *)
ReadPortLinks(t) ==
    /\ pc(t) = "get" /\ portLinks[task[t].npt] # {}
    /\ Become(t, [pc |-> "erase", list |-> portLinks[task[t].npt],
                  rest |-> task[t].rest])
    /\ UNCHANGED <<netVars, linkVars, updates, cleaned>>

(* ... throws when the entry tested a moment ago is gone (NullPointerException) *)
(* or another thread is changing the set (ConcurrentModificationException).     *)
(* QP.run removes the controller and returns; a Timer thread ends, too.         *)
ReadPortLinksFails(t) ==
    /\ pc(t) = "get"
    /\ \/ portLinks[task[t].npt] = {}
       \/ \E u \in Thread \ {t} : pc(u) \in Locked \union {"add"}
    /\ Become(t, [pc |-> "dead"])
    /\ UNCHANGED <<netVars, linkVars, updates, cleaned>>

(* Mutant: the index of the far port is forgotten. *)
RemoveLinkOneEnd(l) ==
    /\ switchLinks' = [x \in Switch |-> IF x \in {Node(l.src), Node(l.dst)}
                                        THEN switchLinks[x] \ {l} ELSE switchLinks[x]]
    /\ portLinks' = [portLinks EXCEPT ![l.src] = @ \ {l}]
    /\ links' = [links EXCEPT ![l] = NoInfo]
    /\ updates' = Append(updates, LinkUpdate("LINK_REMOVED", l))

(* The body of deleteLinks for one link: both indexes, the link, the update.    *)
RemoveLink(l) ==
    /\ switchLinks' = [x \in Switch |-> IF x \in {Node(l.src), Node(l.dst)}
                                        THEN switchLinks[x] \ {l} ELSE switchLinks[x]]
    /\ portLinks' = [n \in NodePort |-> IF n \in Ends(l) THEN portLinks[n] \ {l}
                                                         ELSE portLinks[n]]
    /\ links' = [links EXCEPT ![l] = NoInfo]
    /\ updates' = Append(updates, LinkUpdate("LINK_REMOVED", l))

DeleteLink(t, l) ==
    /\ pc(t) \in {"erase", "delete"} /\ MayLock(t)
    /\ l \in task[t].list
    /\ RemoveLink(l)
    /\ Become(t, [pc |-> "delete", list |-> task[t].list \ {l}, rest |-> task[t].rest])
    /\ UNCHANGED <<netVars, cleaned>>

(* The lock is released and the PORT_DOWN notification goes out. *)
EndDelete(t) ==
    /\ pc(t) = "delete" /\ task[t].list = {}
    /\ updates' = Append(updates, Notice)
    /\ Become(t, [pc |-> "purge", rest |-> task[t].rest])
    /\ UNCHANGED <<netVars, linkVars, cleaned>>

EndPurge(s) ==
    /\ s # Timer
    /\ pc(s) = "purge" /\ task[s].rest = {}
    /\ Become(s, Idle)
    /\ UNCHANGED <<netVars, linkVars, updates, cleaned>>
-----------------------------------------------------------------------------
(* The periodic discovery job of the Timer: cleanDisconnectedSwitches, then     *)
(* discoverLinks with its timeoutLinks.                                         *)
StartDiscovery ==
    /\ pc(Timer) = "idle" /\ MayAccept
    /\ Become(Timer, [pc |-> "purge", rest |-> {}])
    /\ UNCHANGED <<netVars, linkVars, updates, cleaned>>

CleanDisconnected(d) ==
    /\ pc(Timer) = "purge" /\ task[Timer].rest = {}
    /\ d \in disconnections \ cleaned /\ d.old
    /\ cleaned' = cleaned \union {d}
    /\ Become(Timer, [pc |-> "purge", rest |-> d.ports])
    /\ UNCHANGED <<netVars, linkVars, updates>>

(* disconnections.removeAll(to_remove), by switch id: also a Disconnection that *)
(* replaced the cleaned one in the meantime.                                    *)
EndClean ==
    /\ pc(Timer) = "purge" /\ task[Timer].rest = {}
    /\ \A d \in disconnections : d.old => d \in cleaned
    /\ disconnections' = {d \in disconnections : \A c \in cleaned : c.sw # d.sw}
    /\ cleaned' = {}
    /\ Become(Timer, [pc |-> "clean"])
    /\ UNCHANGED <<portState, switches, linkVars, updates>>

LockTimeout ==
    /\ pc(Timer) = "clean" /\ MayLock(Timer)
    /\ Become(Timer, [pc |-> "timeout", todo |-> Known, changed |-> FALSE, list |-> {}])
    /\ UNCHANGED <<netVars, linkVars, updates, cleaned>>

(* Mutant: a stale link is not put on the erase list. *)
ExpireNothing(l) ==
    /\ pc(Timer) = "timeout" /\ l \in task[Timer].todo
    /\ Become(Timer, [task[Timer] EXCEPT !.todo = @ \ {l}])
    /\ UNCHANGED <<netVars, linkVars, updates, cleaned>>

(* timeoutLinks, under the lock.  linkChanged outlives its link, so links that  *)
(* come later in the iteration are announced again although nothing happened.   *)
ExpireLink(l) ==
    /\ pc(Timer) = "timeout" /\ l \in task[Timer].todo
    /\ LET stale == links[l].time = "stale"
       IN  /\ Become(Timer,
                     [pc |-> "timeout", todo |-> task[Timer].todo \ {l},
                      changed |-> stale \/ task[Timer].changed,
                      list |-> task[Timer].list \union (IF stale THEN {l} ELSE {})])
           /\ updates' = IF ~stale /\ task[Timer].changed
                         THEN Append(updates, LinkUpdate(UpdateOperation(links[l]), l))
                         ELSE updates
    /\ UNCHANGED <<netVars, linkVars, cleaned>>

ReapLink(l) ==
    /\ pc(Timer) = "timeout" /\ task[Timer].todo = {}
    /\ l \in task[Timer].list
    /\ RemoveLink(l)
    /\ Become(Timer, [task[Timer] EXCEPT !.list = @ \ {l}])
    /\ UNCHANGED <<netVars, cleaned>>

EndTimeout ==
    /\ pc(Timer) = "timeout"
    /\ task[Timer].todo = {} /\ task[Timer].list = {}
    /\ Become(Timer, Idle)
    /\ UNCHANGED <<netVars, linkVars, updates, cleaned>>

(* The Timer's update job takes the updates off the queue one by one, in order, *)
(* and calls the listeners; it ends when it finds the queue empty.              *)
DeliverUpdate ==
    /\ pc(Timer) \in {"idle", "drain"}
    /\ updates # <<>>
    /\ updates' = Tail(updates)
    /\ Become(Timer, IF Len(updates) = 1 THEN Idle ELSE [pc |-> "drain"])
    /\ UNCHANGED <<netVars, linkVars, cleaned>>
-----------------------------------------------------------------------------
Environment ==
    \/ \E s \in Switch :
          \/ Handshake(s) \/ PortDescription(s)
          \/ s \in Restarting /\ Disconnect(s)
    \/ \E d \in disconnections : AgeDisconnection(d)
    \/ \E l \in Link : AgeLink(l) \/ ReceiveLldp(l)
    \/ \E n \in Flapping :
          \/ PortDeleted(n)
          \/ \E st \in LinkState : PortModified(n, st) \/ PortAdded(n, st)

(* One step of the handler a thread is in; no other thread is needed for it     *)
(* except to release the lock.                                                  *)
Handler(s) ==
    \/ ReadPortStates(s) \/ AddOrUpdateLink(s)
    \/ LockStatus(s) \/ EndStatus(s) \/ EndPurge(s)
    \/ \E l \in Link : RestateLink(s, l)

Purge(t) ==
    \/ \E n \in NodePort : PurgePort(t, n)
    \/ ReadPortLinks(t) \/ ReadPortLinksFails(t) \/ EndDelete(t)
    \/ \E l \in Link : DeleteLink(t, l)

Discovery ==
    \/ StartDiscovery \/ EndClean \/ LockTimeout \/ EndTimeout
    \/ \E d \in disconnections : CleanDisconnected(d)
    \/ \E l \in Link : ExpireLink(l) \/ ReapLink(l)

Next ==
    \/ Environment
    \/ \E s \in Switch : Handler(s)
    \/ \E t \in Thread : Purge(t)
    \/ Discovery
    \/ DeliverUpdate

(* Threads run, and get the lock when it is free often enough (the Timer sleeps  *)
(* between its jobs); the two Timer jobs come round again and again (fixed-rate  *)
(* schedules on one thread).  The network owes nothing.                          *)
Fairness ==
    /\ \A s \in Switch : SF_vars(Handler(s) \/ Purge(s))
    /\ SF_vars(Discovery \/ Purge(Timer))
    /\ SF_vars(DeliverUpdate)

Spec == Init /\ [][Next]_vars /\ Fairness
-----------------------------------------------------------------------------
Job ==
    [pc : {"idle", "drain", "clean", "dead"}]
    \union [pc : {"lldp"}, link : Link]
    \union [pc : {"add"}, link : Link, src : LinkState, dst : LinkState]
    \union [pc : {"status"}, npt : NodePort, state : LinkState]
    \union [pc : {"restate"}, npt : NodePort, state : LinkState, todo : SUBSET Link]
    \union [pc : {"purge"}, rest : SUBSET NodePort]
    \union [pc : {"get"}, npt : NodePort, rest : SUBSET NodePort]
    \union [pc : {"erase", "delete"}, list : SUBSET Link, rest : SUBSET NodePort]
    \union [pc : {"timeout"}, todo : SUBSET Link, changed : BOOLEAN, list : SUBSET Link]

Update == [op : {"LINK_UPDATED", "LINK_REMOVED"}, link : Link] \union {Notice}
Disconnection == [sw : Switch, ports : SUBSET NodePort, old : BOOLEAN]

(* The types of the variables. *)
TypeOK ==
    /\ portState \in [NodePort -> PortState]
    /\ switches \subseteq Switch
    /\ disconnections \subseteq Disconnection
    /\ links \in [Link -> Info \union {NoInfo}]
    /\ switchLinks \in [Switch -> SUBSET Link]
    /\ portLinks \in [NodePort -> SUBSET Link]
    /\ updates \in Seq(Update)
    /\ task \in [Thread -> Job]
    /\ cleaned \subseteq Disconnection

(* The two indexes say exactly what the link table says, at every step of every *)
(* interleaving of LLDP, port status, disconnection and timeout handling.       *)
IndexesAgree ==
    /\ \A s \in Switch :
          switchLinks[s] = {l \in Known : s \in {Node(l.src), Node(l.dst)}}
    /\ \A n \in NodePort : portLinks[n] = {l \in Known : n \in Ends(l)}

(* What a thread works through under the lock cannot vanish under its hands:    *)
(* updatePortStatus never meets a link without LinkInfo (its assert), and       *)
(* timeoutLinks never removes a link somebody else already removed.             *)
LockedWorkIsKnown ==
    \A t \in Thread :
        /\ pc(t) = "restate" => task[t].todo \subseteq Known
        /\ pc(t) = "timeout" => task[t].todo \union task[t].list \subseteq Known

(* Time passes: no LinkInfo that stays in the table is fresh forever.           *)
TimePasses == \A l \in Link : []<>(l \in Known => links[l].time = "stale")

(* A port that stays down loses its links for good: even a link added by a      *)
(* handler that had checked the port before it went down is timed out, as long  *)
(* as the Timer lives and time passes.                                          *)
DeadPortsLoseLinks ==
    [](pc(Timer) # "dead") /\ TimePasses =>
        \A n \in Flapping :
            <>[](~PortEnabled(n)) => <>[](\A l \in Known : n \notin Ends(l))
=============================================================================
