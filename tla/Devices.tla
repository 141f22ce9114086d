------------------------------ MODULE Devices ------------------------------
(***************************************************************************)
(* The device manager: Devices.learnDeviceByEntity, updateAttachmentPoints,*)
(* cleanupEntities and deleteDevice, which share the primary entity index  *)
(* and the device map (two ConcurrentHashMaps) without a common lock, and  *)
(* the attachment points of a Device, which several threads change.        *)
(*                                                                         *)
(* The QP threads learn from packets; a watcher's thread deletes the       *)
(* devices of a switch that disconnects, whatever the QP threads are at;   *)
(* the Timer cleans up and, in another Timer of its own, the topology      *)
(* manager announces a new instance.  One step is one access to a shared   *)
(* map, or to the lists of a shared Device object.                         *)
(*                                                                         *)
(* A packet is its number.  It stands for the Entity that is made from it  *)
(* and for the AttachmentPoint that is made from that: an entity equals    *)
(* another one of the host on the same port, an attachment point another   *)
(* one with the same port.  Its time stamp is not its number: packets can  *)
(* come in during the same millisecond.  Device objects are numbered in    *)
(* the order of their creation, because the map compares them by key and   *)
(* entities and not by identity.                                           *)
(***************************************************************************)
EXTENDS Naturals, FiniteSets, Sequences, SequencesExt

CONSTANTS
    Host,                  \* keys of the index: MAC address and VLAN
    Queue,                 \* the QP threads
    Switch, Port,
    SwitchOf,              \* the switch of a port
    QueuesOf,              \* the QP threads of a switch's connections, past ones included
    Topologies,            \* instances: [internal : ports with links, domain : of a switch]
    INACTIVITY_INTERVAL,
    MaxPackets, MaxTime,   \* bounds on the packets and their time stamps
    MaxEvents,             \* bound on packets, topology changes, disconnections and clean-ups
    MaxDevices, MaxObjects \* bounds that are large enough never to be reached

ASSUME DeviceAssumptions ==
    /\ SwitchOf \in [Port -> Switch] /\ QueuesOf \in [Switch -> SUBSET Queue]
    /\ Topologies \subseteq [internal : SUBSET Port, domain : [Switch -> Switch]]
    /\ INACTIVITY_INTERVAL \in Nat
    /\ MaxPackets \in Nat /\ MaxTime \in Nat /\ MaxEvents \in Nat
    /\ MaxDevices \in Nat /\ MaxObjects \in Nat

VARIABLES
    topo, up,          \* the current topology instance; OFController.switches
    packets,           \* the packets so far: [host, port, time]
    lastSeen,          \* Entity.lastSeenTimestamp
    ap,                \* AttachmentPoint: [since, seen] (activeSince, lastSeen)
    index,             \* primaryIndex: device id of a host, 0 for none
    map,               \* deviceIdToDeviceMap: the object of a device id, 0 for none
    objs,              \* Device objects: [id, ents, aps, old]
    counter,           \* deviceKeyCounter
    qp,                \* what each QP thread is doing
    leaver,            \* what deleteDevice is doing for each switch
    cleaner, updater,  \* what cleanupEntities and updateAttachmentPoints are doing
    events,            \* how many packets, topology changes, disconnections and clean-ups
    solo,              \* the QP threads whose call nobody else has disturbed
    learnt             \* the call that ended last, if nobody has disturbed it

shared == <<topo, up, packets, lastSeen, ap, index, map, objs, counter>>
vars == <<shared, qp, leaver, cleaner, updater, events, solo, learnt>>

Resting == [pc |-> "idle", pkt |-> 0, id |-> 0, obj |-> 0, new |-> 0,
            view |-> {}, reused |-> FALSE, todo |-> {}]
Staying == [pc |-> "idle", obj |-> 0, todo |-> {}, visited |-> {}, upto |-> 0]
Idle == [pc |-> "idle", id |-> 0, obj |-> 0, new |-> 0, cutoff |-> 0,
         visited |-> {}, upto |-> 0]

Init ==
    /\ topo \in Topologies /\ up = Switch
    /\ packets = <<>>
    /\ lastSeen = [n \in 1..MaxPackets |-> 0]
    /\ ap = [n \in 1..MaxPackets |-> [since |-> 0, seen |-> 0]]
    /\ index = [h \in Host |-> 0]
    /\ map = [i \in 1..MaxDevices |-> 0]
    /\ objs = <<>> /\ counter = 0
    /\ qp = [q \in Queue |-> Resting]
    /\ leaver = [s \in Switch |-> Staying]
    /\ cleaner = Idle /\ updater = Idle
    /\ events = 0
    /\ solo = {} /\ learnt = {}

-----------------------------------------------------------------------------
(* Entities, attachment points and devices. *)

host(n) == packets[n].host
port(n) == packets[n].port
time(n) == packets[n].time
hostOf(o) == host(CHOOSE e \in objs[o].ents : TRUE)

(* The clock, as far as anybody has read it. *)
Now == IF packets = <<>> THEN 1 ELSE time(Len(packets))

(* isValidAttachmentPoint: a port without links, of a registered switch. *)
Valid(p) == p \notin topo.internal /\ SwitchOf[p] \in up

(* getL2DomainId *)
Domain(p) == topo.domain[SwitchOf[p]]

(* Mutant: the first one of each domain stays. *)
FirstAPs(aps) ==
    {aps[i] : i \in {j \in DOMAIN aps :
        /\ Valid(port(aps[j]))
        /\ \A k \in DOMAIN aps : k < j /\ Valid(port(aps[k]))
             => Domain(port(aps[k])) # Domain(port(aps[j]))}}

(* getAPMap: of the valid attachment points, the last one of each domain. *)
APMap(aps) ==
    {aps[i] : i \in {j \in DOMAIN aps :
        /\ Valid(port(aps[j]))
        /\ \A k \in DOMAIN aps : k > j /\ Valid(port(aps[k]))
             => Domain(port(aps[k])) # Domain(port(aps[j]))}}

(* What is left of a list when only the positions K are kept. *)
Kept(aps, K) ==
    [n \in 1..Cardinality(K) |-> aps[CHOOSE i \in K : Cardinality({j \in K : j <= i}) = n]]

(* CopyOnWriteArrayList's retainAll and addIfAbsent, by AttachmentPoint.equals. *)
RetainAll(aps, S) == Kept(aps, {i \in DOMAIN aps : \E b \in S : port(b) = port(aps[i])})
AddIfAbsent(aps, n) ==
    IF \E i \in DOMAIN aps : port(aps[i]) = port(n) THEN aps ELSE Append(aps, n)

(* AttachmentPoint.setLastSeen(t) on attachment point n. *)
SetLastSeen(n, t) ==
    [ap EXCEPT ![n] =
        [since |-> IF @.seen + INACTIVITY_INTERVAL < t THEN t ELSE @.since,
         seen  |-> IF @.seen < t THEN t ELSE @.seen]]

(* Device.equals: same key, equal entities. *)
Equal(o1, o2) ==
    /\ objs[o1].id = objs[o2].id
    /\ {port(e) : e \in objs[o1].ents} = {port(e) : e \in objs[o2].ents}

(* map.get, and remove(id, o) or replace(id, o, ...) would succeed. *)
InMap(i, o) == map[i] # 0 /\ Equal(map[i], o)

(* AttachmentPointComparator: is new later than old?  When old became active    *)
(* after new, the question is asked the other way round.                        *)
Later(old, new) ==
    \/ ap[new].since > ap[old].seen
    \/ ap[new].seen > ap[old].seen + INACTIVITY_INTERVAL
Displaces(old, new) ==
    IF ap[old].since > ap[new].since THEN ~Later(new, old) ELSE Later(old, new)

(* Where newAP is in oldAPs, if it is there. *)
Flagged(d, n) == {i \in DOMAIN d.old : port(d.old[i]) = port(n)}

(* updateAttachmentPoint(sw, port, lastSeen), first half: newAP is the one that *)
(* is in oldAPs already, and is taken out of there, or a new one ...            *)
NewAP(d, n) ==
    IF Flagged(d, n) = {} THEN n ELSE d.old[Min(Flagged(d, n))]
TakeNew(d, n) ==
    IF Flagged(d, n) = {} THEN d
    ELSE [d EXCEPT !.old = Kept(d.old, DOMAIN d.old \ {Min(Flagged(d, n))})]

SameDomain(view, n) == {a \in view : Domain(port(a)) = Domain(port(n))}

(* ... and second half: it takes its place among the attachment points `view'.  *)
Place(d, view, n, reused) ==
    LET found == SameDomain(view, n)
        old   == CHOOSE a \in found : TRUE
    IN  CASE view = {} -> [d EXCEPT !.aps = Append(@, n)]
          [] view # {} /\ found = {} ->
               [d EXCEPT !.aps = AddIfAbsent(SetToSeq(view), n)]
          [] found # {} /\ port(old) = port(n) -> [d EXCEPT !.aps = RetainAll(@, view)]
          [] found # {} /\ port(old) # port(n) /\ Displaces(old, n) ->
               [d EXCEPT !.aps = AddIfAbsent(RetainAll(@, view), n),
                         !.old = Append(@, old)]
          [] OTHER -> IF reused THEN [d EXCEPT !.old = Append(@, n)] ELSE d

(* Its result: has the device moved? *)
Moves(view, n) ==
    \A a \in SameDomain(view, n) : port(a) # port(n) /\ Displaces(a, n)

(* An attachment point that is there already has just been seen. *)
SeenAgain(view, n) ==
    {a \in SameDomain(view, n) : port(a) = port(n) /\ ap[n].seen > ap[a].seen}

-----------------------------------------------------------------------------
(* learnDeviceByEntity, run by QP thread q for packet qp[q].pkt. *)

(* A step of thread q: it goes on with record `next', or the call ends. *)
Step(q) ==
    /\ solo' = solo \intersect {q}
    /\ UNCHANGED <<topo, up, leaver, cleaner, updater, events>>
Go(q, next) ==
    /\ qp' = [qp EXCEPT ![q] = next] /\ learnt' = {}
    /\ Step(q)
Finish(q, r) ==
    /\ qp' = [qp EXCEPT ![q] = Resting]
    /\ learnt' = IF q \in solo THEN {[pkt |-> qp[q].pkt, reused |-> r]} ELSE {}
    /\ Step(q)
At(q, pc) == qp[q].pc = pc
To(q, pc) == [qp[q] EXCEPT !.pc = pc]
Restart(q) == [Resting EXCEPT !.pc = "find", !.pkt = qp[q].pkt]

(* QP thread q makes an entity of the next packet in its queue.  The connection  *)
(* it came by may be gone, and the switch be back on another thread's; the stamp *)
(* is taken now, and may be the one of the packet before.                        *)
Receive(q, h, p, t) ==
    LET n == Len(packets) + 1
    IN  /\ qp[q].pc = "idle" /\ q \in QueuesOf[SwitchOf[p]]
        /\ n <= MaxPackets /\ events < MaxEvents /\ events' = events + 1
        /\ t >= Now /\ t <= MaxTime /\ t >= cleaner.cutoff
        /\ packets' = Append(packets, [host |-> h, port |-> p, time |-> t])
        /\ lastSeen' = [lastSeen EXCEPT ![n] = t]
        /\ ap' = [ap EXCEPT ![n] = [since |-> t, seen |-> t]]
        /\ qp' = [qp EXCEPT ![q] = [Resting EXCEPT !.pc = "find", !.pkt = n]]
        /\ solo' = {q} /\ learnt' = {}
        /\ UNCHANGED <<topo, up, index, map, objs, counter, leaver, cleaner, updater>>

(* primaryIndex.findByEntity *)
Find(q) ==
    LET i == index[host(qp[q].pkt)]
    IN  /\ At(q, "find")
        /\ Go(q, [To(q, IF i = 0 THEN "create" ELSE "get") EXCEPT !.id = i])
        /\ UNCHANGED <<packets, lastSeen, ap, index, map, objs, counter>>

HasEntity(o, n) == \E e \in objs[o].ents : port(e) = port(n)

(* Mutant: without a device for the id it gives up. *)
GetOrGiveUp(q) ==
    LET o == map[qp[q].id]
    IN  /\ At(q, "get")
        /\ CASE o = 0 -> Finish(q, FALSE)
             [] o # 0 /\ HasEntity(o, qp[q].pkt) -> Go(q, [To(q, "touch") EXCEPT !.obj = o])
             [] OTHER -> Go(q, [To(q, "copy") EXCEPT !.obj = o])
        /\ UNCHANGED <<packets, lastSeen, ap, index, map, objs, counter>>

(* deviceIdToDeviceMap.get: the device has the entity, or not, or is missing. *)
Get(q) ==
    LET o == map[qp[q].id]
    IN  /\ At(q, "get")
        /\ Go(q, [To(q, CASE o = 0 -> "heal"
                          [] o # 0 /\ HasEntity(o, qp[q].pkt) -> "touch"
                          [] OTHER -> "copy") EXCEPT !.obj = o])
        /\ UNCHANGED <<packets, lastSeen, ap, index, map, objs, counter>>

(* Mutant: the dangling id is left in the index. *)
HealNothing(q) ==
    /\ At(q, "heal")
    /\ Go(q, Restart(q))
    /\ UNCHANGED <<packets, lastSeen, ap, index, map, objs, counter>>

(* A corrupted device id: primaryIndex.removeEntity, whatever is there by now. *)
Heal(q) ==
    /\ At(q, "heal")
    /\ index' = [index EXCEPT ![host(qp[q].pkt)] = 0]
    /\ Go(q, Restart(q))
    /\ UNCHANGED <<packets, lastSeen, ap, map, objs, counter>>

(* A new device, unless the port is not valid (allocateDevice returns null); its *)
(* key is put into the index if there is none, or else everything starts again.  *)
Create(q) ==
    LET n  == qp[q].pkt
        id == counter + 1
    IN  /\ At(q, "create") /\ counter < MaxDevices /\ Len(objs) < MaxObjects
        /\ counter' = id
        /\ IF ~Valid(port(n))
           THEN Finish(q, FALSE) /\ UNCHANGED <<index, objs>>
           ELSE IF index[host(n)] # 0
           THEN Go(q, Restart(q)) /\ UNCHANGED <<index, objs>>
           ELSE /\ index' = [index EXCEPT ![host(n)] = id]
                /\ objs' = Append(objs, [id |-> id, ents |-> {n}, aps |-> <<n>>, old |-> <<>>])
                /\ Go(q, [To(q, "put") EXCEPT !.id = id, !.obj = Len(objs) + 1])
        /\ UNCHANGED <<packets, lastSeen, ap, map>>

(* deviceIdToDeviceMap.putIfAbsent; nobody else has this key. *)
Put(q) ==
    /\ At(q, "put")
    /\ map' = [map EXCEPT ![qp[q].id] = qp[q].obj]
    /\ Finish(q, FALSE)
    /\ UNCHANGED <<packets, lastSeen, ap, index, objs, counter>>

(* The entity was known: its time stamp is renewed. *)
Touch(q) ==
    LET known == {e \in objs[qp[q].obj].ents : port(e) = port(qp[q].pkt)}
    IN  /\ At(q, "touch")
        /\ lastSeen' = [e \in DOMAIN lastSeen |-> IF e \in known THEN time(qp[q].pkt) ELSE lastSeen[e]]
        /\ Go(q, [To(q, "ap") EXCEPT !.new = qp[q].obj])
        /\ UNCHANGED <<packets, ap, index, map, objs, counter>>

(* The entity was not known: a copy of the device with the entity added. *)
Copy(q) ==
    LET d == objs[qp[q].obj]
    IN  /\ At(q, "copy") /\ Len(objs) < MaxObjects
        /\ objs' = Append(objs, [d EXCEPT !.ents = @ \union {qp[q].pkt}])
        /\ Go(q, [To(q, "ap") EXCEPT !.new = Len(objs) + 1])
        /\ UNCHANGED <<packets, lastSeen, ap, index, map, counter>>

(* Where a thread goes after updateAttachmentPoint. *)
AfterAP(q, r) ==
    IF qp[q].new = qp[q].obj THEN Finish(q, r)
    ELSE Go(q, [To(q, "replace") EXCEPT !.view = {}, !.todo = {}, !.reused = r])

(* updateAttachmentPoint on the device or on its copy: what is there ... *)
ReadAPs(q) ==
    LET o   == qp[q].new
        n   == qp[q].pkt
        nap == NewAP(objs[o], n)
    IN  /\ At(q, "ap")
        /\ IF Valid(port(n))
           THEN /\ objs' = [objs EXCEPT ![o] = TakeNew(objs[o], n)]
                /\ ap' = SetLastSeen(nap, time(n))
                /\ Go(q, [To(q, "place") EXCEPT !.view = APMap(objs[o].aps),
                                                !.todo = {nap}, !.reused = Flagged(objs[o], n) # {}])
           ELSE AfterAP(q, FALSE) /\ UNCHANGED <<objs, ap>>
        /\ UNCHANGED <<packets, lastSeen, index, map, counter>>

(* Device.toString, for the log, drops the expired ones from oldAPs. *)
DropExpired(d) ==
    [d EXCEPT !.old =
        Kept(d.old, {i \in DOMAIN d.old : ap[d.old[i]].seen + INACTIVITY_INTERVAL >= Now})]

(* ... and what becomes of it. *)
WriteAPs(q) ==
    LET o == qp[q].new
        n == CHOOSE a \in qp[q].todo : TRUE
        d == Place(objs[o], qp[q].view, n, qp[q].reused)
    IN  /\ At(q, "place")
        /\ objs' = [objs EXCEPT ![o] =
                      IF Moves(qp[q].view, n) /\ o = qp[q].obj THEN DropExpired(d) ELSE d]
        /\ ap' = [a \in DOMAIN ap |-> IF a \in SeenAgain(qp[q].view, n)
                                      THEN SetLastSeen(a, ap[n].seen)[a] ELSE ap[a]]
        /\ AfterAP(q, qp[q].reused)
        /\ UNCHANGED <<packets, lastSeen, index, map, counter>>

(* deviceIdToDeviceMap.replace, or everything starts again. *)
Replace(q) ==
    /\ At(q, "replace")
    /\ IF InMap(qp[q].id, qp[q].obj)
       THEN map' = [map EXCEPT ![qp[q].id] = qp[q].new] /\ Go(q, To(q, "reindex"))
       ELSE UNCHANGED map /\ Go(q, Restart(q))
    /\ UNCHANGED <<packets, lastSeen, ap, index, objs, counter>>

(* updateIndices: the key is put back, if the index has lost it ... *)
Reindex(q) ==
    LET i == index[host(qp[q].pkt)]
    IN  /\ At(q, "reindex")
        /\ index' = [index EXCEPT ![host(qp[q].pkt)] = IF i = 0 THEN qp[q].id ELSE i]
        /\ IF i \in {0, qp[q].id} THEN Finish(q, qp[q].reused) ELSE Go(q, Restart(q))
        /\ UNCHANGED <<packets, lastSeen, ap, map, objs, counter>>

Learn(q) ==
    \/ Find(q) \/ Get(q) \/ Heal(q) \/ Create(q) \/ Put(q) \/ Touch(q) \/ Copy(q)
    \/ ReadAPs(q) \/ WriteAPs(q) \/ Replace(q) \/ Reindex(q)

-----------------------------------------------------------------------------
(* deleteDevice(datapathid), run by the thread of the switch's watcher when its *)
(* connection is lost, beside the QP threads and those of other watchers.       *)

ReportedOn(o, s) == \E a \in APMap(objs[o].aps) : SwitchOf[port(a)] = s

(* A step of the watcher of s. *)
Depart(s, next) ==
    /\ leaver' = [leaver EXCEPT ![s] = next]
    /\ solo' = {} /\ learnt' = {}
    /\ UNCHANGED <<topo, packets, lastSeen, ap, counter, qp, cleaner, updater>>
Leaves(s, pc) == leaver[s].pc = pc

Disconnect(s) ==
    /\ Leaves(s, "idle") /\ s \in up
    /\ events < MaxEvents /\ events' = events + 1
    /\ Depart(s, [Staying EXCEPT !.pc = "collect", !.upto = counter])
    /\ UNCHANGED <<up, index, map, objs>>

(* The first loop: the devices that are reported on the switch ... *)
Collect(s, i) ==
    /\ Leaves(s, "collect") /\ map[i] # 0 /\ i \notin leaver[s].visited
    /\ Depart(s, [leaver[s] EXCEPT !.visited = @ \union {i},
                    !.todo = IF ReportedOn(map[i], s) THEN @ \union {map[i]} ELSE @])
    /\ UNCHANGED <<up, index, map, objs, events>>

(* ... whose iterator may or may not see the devices added since. *)
Collected(s) ==
    /\ Leaves(s, "collect")
    /\ \A i \in DOMAIN map : map[i] # 0 /\ i <= leaver[s].upto => i \in leaver[s].visited
    /\ Depart(s, [Staying EXCEPT !.pc = "lost", !.todo = leaver[s].todo])
    /\ UNCHANGED <<up, index, map, objs, events>>

(* Device.deleteAttachmentPoint(sw); without any left the device is deleted. *)
Detach(s, o) ==
    LET Elsewhere(l) == Kept(l, {i \in DOMAIN l : SwitchOf[port(l[i])] # s})
        aps == Elsewhere(objs[o].aps)
    IN  /\ Leaves(s, "lost") /\ o \in leaver[s].todo
        /\ objs' = [objs EXCEPT ![o] =
                      [objs[o] EXCEPT !.aps = aps, !.old = Elsewhere(objs[o].old)]]
        /\ Depart(s, [leaver[s] EXCEPT !.todo = @ \ {o}, !.obj = o,
                                       !.pc = IF aps = <<>> THEN "unindex" ELSE "lost"])
        /\ UNCHANGED <<up, index, map, events>>

(* removeEntity: the host's entry goes if it still names the device ... *)
WithoutEntry(o) ==
    [index EXCEPT ![hostOf(o)] = IF @ = objs[o].id THEN 0 ELSE @]

Unindex(s) ==
    /\ Leaves(s, "unindex")
    /\ index' = WithoutEntry(leaver[s].obj)
    /\ Depart(s, [leaver[s] EXCEPT !.pc = "drop"])
    /\ UNCHANGED <<up, map, objs, events>>

(* ... and the device goes if the map still has an equal one. *)
WithoutDevice(o) ==
    IF InMap(objs[o].id, o) THEN [map EXCEPT ![objs[o].id] = 0] ELSE map

Drop(s) ==
    /\ Leaves(s, "drop")
    /\ map' = WithoutDevice(leaver[s].obj)
    /\ Depart(s, [leaver[s] EXCEPT !.pc = "lost"])
    /\ UNCHANGED <<up, index, objs, events>>

(* After the modules OFController forgets the switch. *)
Forget(s) ==
    /\ Leaves(s, "lost") /\ leaver[s].todo = {}
    /\ up' = up \ {s}
    /\ Depart(s, Staying)
    /\ UNCHANGED <<index, map, objs, events>>

Leave(s) ==
    \/ (\E i \in DOMAIN map : Collect(s, i)) \/ Collected(s)
    \/ (\E o \in leaver[s].todo : Detach(s, o)) \/ Unindex(s) \/ Drop(s) \/ Forget(s)

(* The switch is back: addSwitch. *)
Reconnect(s) ==
    /\ Leaves(s, "idle") /\ s \notin up
    /\ up' = up \union {s}
    /\ solo' = {} /\ learnt' = {}
    /\ UNCHANGED <<topo, packets, lastSeen, ap, index, map, objs, counter, qp, leaver, cleaner,
                   updater, events>>

-----------------------------------------------------------------------------
(* cleanupEntities, run by the Timer. *)

Clean(next) ==
    /\ cleaner' = next
    /\ solo' = {} /\ learnt' = {}
    /\ UNCHANGED <<topo, up, packets, lastSeen, ap, counter, qp, leaver, updater>>
CleanerTo(pc) == [cleaner EXCEPT !.pc = pc]
Iterate == [cleaner EXCEPT !.pc = "iterate", !.id = 0, !.obj = 0, !.new = 0]

(* The stamps of packets that are being learnt: no call takes an hour. *)
InWork == {time(qp[q].pkt) : q \in {t \in Queue : qp[t].pc # "idle"}}

StartCleanup(c) ==
    /\ cleaner.pc = "idle" /\ events < MaxEvents /\ c <= Now + 1
    /\ \A t \in InWork : c <= t
    /\ events' = events + 1
    /\ Clean([Idle EXCEPT !.pc = "iterate", !.cutoff = c, !.upto = counter])
    /\ UNCHANGED <<index, map, objs>>

NextDevice(i) ==
    /\ cleaner.pc = "iterate" /\ map[i] # 0 /\ i \notin cleaner.visited
    /\ Clean([CleanerTo("scan") EXCEPT !.visited = @ \union {i}, !.id = i, !.obj = map[i]])
    /\ UNCHANGED <<index, map, objs, events>>

(* The iterator may or may not see devices that were added after it was made. *)
EndCleanup ==
    /\ cleaner.pc = "iterate"
    /\ \A i \in DOMAIN map : map[i] # 0 /\ i <= cleaner.upto => i \in cleaner.visited
    /\ Clean(Idle)
    /\ UNCHANGED <<index, map, objs, events>>

toKeep(o) == {e \in objs[o].ents : lastSeen[e] >= cleaner.cutoff}

(* toRemove and toKeep; a copy with the entities to keep is made at once. *)
Scan ==
    LET o == cleaner.obj
        d == objs[o]
    IN  /\ cleaner.pc = "scan" /\ Len(objs) < MaxObjects
        /\ CASE toKeep(o) = d.ents -> Clean(Iterate) /\ UNCHANGED objs
             [] toKeep(o) = {}     -> Clean(CleanerTo("unindex")) /\ UNCHANGED objs
             [] OTHER -> /\ objs' = Append(objs, [d EXCEPT !.ents = toKeep(o)])
                         /\ Clean([CleanerTo("replace") EXCEPT !.new = Len(objs) + 1])
        /\ UNCHANGED <<index, map, events>>

CleanIndex ==
    /\ cleaner.pc = "unindex"
    /\ index' = WithoutEntry(cleaner.obj)
    /\ Clean(CleanerTo("remove"))
    /\ UNCHANGED <<map, objs, events>>

(* The loop is left only when get finds nothing: after a success the same      *)
(* device is looked at once more.                                              *)
CleanRemove ==
    LET o == cleaner.obj
        i == cleaner.id
    IN  /\ cleaner.pc = "remove"
        /\ map' = WithoutDevice(o)
        /\ Clean(CASE InMap(i, o) -> CleanerTo("scan")
                   [] ~InMap(i, o) /\ map[i] # 0 -> [CleanerTo("scan") EXCEPT !.obj = map[i]]
                   [] OTHER -> Iterate)
        /\ UNCHANGED <<index, objs, events>>

CleanReplace ==
    LET o == cleaner.obj
        i == cleaner.id
    IN  /\ cleaner.pc = "replace"
        /\ map' = IF InMap(i, o) THEN [map EXCEPT ![i] = cleaner.new] ELSE map
        /\ Clean(IF ~InMap(i, o) /\ map[i] # 0
                 THEN [CleanerTo("scan") EXCEPT !.obj = map[i]] ELSE Iterate)
        /\ UNCHANGED <<index, objs, events>>

Cleanup ==
    \/ \E i \in DOMAIN map : NextDevice(i)
    \/ EndCleanup \/ Scan \/ CleanIndex \/ CleanRemove \/ CleanReplace

-----------------------------------------------------------------------------
(* updateAttachmentPoints, called when the topology has a new instance. *)

Update(next) ==
    /\ updater' = next
    /\ solo' = {} /\ learnt' = {}
    /\ UNCHANGED <<up, packets, lastSeen, ap, index, counter, qp, leaver, cleaner>>

ChangeTopology(t) ==
    /\ updater.pc = "idle" /\ events < MaxEvents
    /\ events' = events + 1
    /\ topo' = t
    /\ Update([Idle EXCEPT !.pc = "iterate", !.upto = counter])
    /\ UNCHANGED <<map, objs>>

(* Device.updateAttachmentPoint(): the map's values replace the list. *)
Refreshed(d) ==
    IF d.aps = <<>> THEN d
    ELSE [d EXCEPT !.old = <<>>,
            !.aps = IF Cardinality(APMap(d.aps)) # Len(d.aps)
                    THEN RetainAll(d.aps, APMap(d.aps)) ELSE d.aps]

VisitDevice(i) ==
    LET o == map[i]
    IN  /\ updater.pc = "iterate" /\ o # 0 /\ i \notin updater.visited
        /\ objs' = [objs EXCEPT ![o] = Refreshed(objs[o])]
        /\ Update([updater EXCEPT !.visited = @ \union {i}, !.id = i,
                      !.pc = IF APMap(Refreshed(objs[o]).aps) = {} THEN "remove" ELSE "iterate"])
        /\ UNCHANGED <<topo, map, events>>

(* diter.remove(): by key, whatever device is there by now; the index keeps it. *)
RemoveVisited ==
    /\ updater.pc = "remove"
    /\ map' = [map EXCEPT ![updater.id] = 0]
    /\ Update([updater EXCEPT !.pc = "iterate"])
    /\ UNCHANGED <<topo, objs, events>>

EndUpdate ==
    /\ updater.pc = "iterate"
    /\ \A i \in DOMAIN map : map[i] # 0 /\ i <= updater.upto => i \in updater.visited
    /\ Update(Idle)
    /\ UNCHANGED <<topo, map, objs, events>>

UpdateAttachmentPoints == (\E i \in DOMAIN map : VisitDevice(i)) \/ RemoveVisited \/ EndUpdate

-----------------------------------------------------------------------------
Environment ==
    \/ \E s \in Switch : Disconnect(s) \/ Reconnect(s)
    \/ \E q \in Queue, h \in Host, p \in Port, t \in 1..MaxTime : Receive(q, h, p, t)
    \/ \E c \in 2..MaxTime + 1 : StartCleanup(c)
    \/ \E t \in Topologies : ChangeTopology(t)

Work ==
    \/ \E q \in Queue : Learn(q)
    \/ \E s \in Switch : Leave(s)
    \/ Cleanup \/ UpdateAttachmentPoints

Next == Environment \/ Work

(* As long as a thread has work to do, one of them goes on.  Which one does not *)
(* matter: no thread waits for another.                                         *)
Spec == Init /\ [][Next]_vars /\ WF_vars(Work)
-----------------------------------------------------------------------------
(* Whatever a thread is about to use is there: packets that came in, ids that    *)
(* were given out, Device objects that were made (an object stays when the map   *)
(* has lost it); the map never has an object that is not there.                  *)
Device(n) == [id : 1..MaxDevices, ents : SUBSET (1..n), aps : Seq(1..n), old : Seq(1..n)]
Learning == {"find", "create", "get", "heal", "put", "touch", "copy", "ap", "place", "replace",
             "reindex"}
Call(n) == [pc : Learning \union {"idle"}, pkt : 0..n,
            id : 0..MaxDevices, obj : Nat, new : Nat, view : SUBSET (1..n),
            reused : BOOLEAN, todo : SUBSET (1..n)]
Parting == [pc : {"idle", "collect", "lost", "unindex", "drop"}, obj : Nat, todo : SUBSET Nat,
            visited : SUBSET (1..MaxDevices), upto : 0..MaxDevices]
Walk == [pc : {"idle", "iterate", "scan", "unindex", "remove", "replace"},
         id : 0..MaxDevices, obj : Nat, new : Nat, cutoff : Nat,
         visited : SUBSET (1..MaxDevices), upto : 0..MaxDevices]

(* What a call in state c, a deletion in state l, and a clean-up in state w need. *)
CallHolds(c, n, made) ==
    /\ c.pc \in Learning => c.pkt # 0
    /\ c.pc \in Learning \ {"find", "create"} => c.id # 0
    /\ c.pc \in Learning \ {"find", "create", "get", "heal"} => c.obj \in made
    /\ c.pc \in {"ap", "place", "replace", "reindex"} => c.new \in made
    /\ c.pc = "place" => \E a \in 1..n : c.todo = {a}
PartHolds(l, made) ==
    /\ l.todo \subseteq made
    /\ l.pc \in {"unindex", "drop"} => l.obj \in made
WalkHolds(w, made) ==
    /\ w.pc \notin {"idle", "iterate"} => w.id # 0
    /\ w.pc \in {"scan", "unindex", "remove", "replace"} => w.obj \in made
    /\ w.pc = "replace" => w.new \in made

TypeOK ==
    /\ topo \in Topologies /\ up \subseteq Switch
    /\ packets \in Seq([host : Host, port : Port, time : Nat]) /\ Len(packets) <= MaxPackets
    /\ lastSeen \in [1..MaxPackets -> Nat]
    /\ ap \in [1..MaxPackets -> [since : Nat, seen : Nat]]
    /\ index \in [Host -> 0..MaxDevices]
    /\ map \in [1..MaxDevices -> 0..Len(objs)]
    /\ objs \in Seq(Device(Len(packets)))
    /\ counter \in 0..MaxDevices /\ events \in 0..MaxEvents
    /\ qp \in [Queue -> Call(Len(packets))]
    /\ \A q \in Queue : CallHolds(qp[q], Len(packets), DOMAIN objs)
    /\ leaver \in [Switch -> Parting]
    /\ \A s \in Switch : PartHolds(leaver[s], DOMAIN objs)
    /\ cleaner \in Walk /\ WalkHolds(cleaner, DOMAIN objs)
    /\ updater \in Walk /\ updater.pc \in {"idle", "iterate", "remove"}
    /\ updater.pc = "remove" => updater.id # 0
    /\ solo \subseteq Queue
    /\ learnt \subseteq [pkt : 1..Len(packets), reused : BOOLEAN]

(* The device that findDestByEntity would return for the host of packet n. *)
FoundFor(n) == IF index[host(n)] = 0 THEN 0 ELSE map[index[host(n)]]

(* No thread has anything to do. *)
Rests ==
    /\ \A q \in Queue : qp[q].pc = "idle"
    /\ \A s \in Switch : leaver[s].pc = "idle"
    /\ cleaner.pc = "idle" /\ updater.pc = "idle"

(* Whatever races between learning, clean-up, topology changes and             *)
(* disconnections have left behind or are in the middle of (ids in the index   *)
(* without a device, devices without an entry in the index), a packet that is  *)
(* then learnt without disturbance makes its host findable: the index names a  *)
(* device of the map that has the packet's entity.                             *)
LearntIsFound ==
    \A c \in learnt : Valid(port(c.pkt)) =>
        LET o == FoundFor(c.pkt) IN o # 0 /\ HasEntity(o, c.pkt)

(* And it is located where the packet came in: of the attachment points in that *)
(* domain the reported one is the port of the packet, wherever the host was     *)
(* before, unless the host was seen there in the same millisecond, or has come  *)
(* back to a port it had left, which is in oldAPs and is suspected to be a      *)
(* duplicate.                                                                   *)
LearntIsLocated ==
    \A c \in learnt : Valid(port(c.pkt)) /\ ~c.reused =>
        LET o == FoundFor(c.pkt)
        IN  o # 0 => \E a \in APMap(objs[o].aps) :
                        \/ port(a) = port(c.pkt)
                        \/ Domain(port(a)) = Domain(port(c.pkt)) /\ ap[a].seen = time(c.pkt)

(* The comment of learnDeviceByEntity promises that its retries starve nobody.  *)
(* When no new packets come, every call ends, and so do the deletion of a        *)
(* switch's devices, the clean-up and the topology update that may have made it  *)
(* start again, and start again themselves.                                      *)
LearningEnds == []<>Rests
=============================================================================
