------------------------- MODULE LinkTopologyProofs -------------------------
(***************************************************************************)
(* Proofs about LinkDiscovery, and about LinkDiscovery and TopologyManager *)
(* together (LinkTopology), for any switches, ports and links.  They rest  *)
(* on the write lock of Links: while a thread is inside it, nobody else    *)
(* changes which links are known.                                          *)
(***************************************************************************)
EXTENDS LinkTopology, TLAPS

(* At most one thread is inside the write lock. *)
OneLocked == \A t, u \in Thread : pc(t) \in Locked /\ pc(u) \in Locked => t = u

LinkInv == TypeOK /\ IndexesAgree /\ LockedWorkIsKnown /\ OneLocked

(* The thread has the lock, or may take it. *)
HasLock(t) == pc(t) \in Locked \/ MayLock(t)

(* What a job promises of the links it works through. *)
WorksOn(j, known) ==
    /\ j.pc = "restate" => j.todo \subseteq known
    /\ j.pc = "timeout" => j.todo \union j.list \subseteq known
-----------------------------------------------------------------------------
(* A job tells by its pc what it consists of. *)
LEMMA JobShape ==
    ASSUME NEW j \in Job
    PROVE  /\ j.pc = "lldp" => j.link \in Link
           /\ j.pc = "add" => j.link \in Link /\ j.src \in LinkState /\ j.dst \in LinkState
           /\ j.pc = "status" => j.npt \in NodePort /\ j.state \in LinkState
           /\ j.pc = "restate" =>
                /\ j.npt \in NodePort /\ j.state \in LinkState /\ j.todo \subseteq Link
                /\ \A x : [j EXCEPT !.todo = j.todo \ {x}] \in Job
                /\ \A x : [j EXCEPT !.todo = j.todo \ {x}].pc = "restate"
                /\ \A x : [j EXCEPT !.todo = j.todo \ {x}].todo = j.todo \ {x}
           /\ j.pc = "purge" =>
                /\ j.rest \subseteq NodePort
                /\ \A x : [j EXCEPT !.rest = j.rest \ {x}] \in Job
                /\ \A x : [j EXCEPT !.rest = j.rest \ {x}].pc = "purge"
           /\ j.pc = "get" => j.npt \in NodePort /\ j.rest \subseteq NodePort
           /\ j.pc \in {"erase", "delete"} => j.list \subseteq Link /\ j.rest \subseteq NodePort
           /\ j.pc = "timeout" =>
                j.todo \subseteq Link /\ j.changed \in BOOLEAN /\ j.list \subseteq Link
BY DEF Job

(* Jobs that are made anew. *)
LEMMA NewJobs ==
    /\ Idle \in Job /\ [pc |-> "drain"] \in Job
    /\ [pc |-> "clean"] \in Job /\ [pc |-> "dead"] \in Job
    /\ \A l \in Link : [pc |-> "lldp", link |-> l] \in Job
    /\ \A l \in Link, a, b \in LinkState : [pc |-> "add", link |-> l, src |-> a, dst |-> b] \in Job
    /\ \A n \in NodePort, a \in LinkState : [pc |-> "status", npt |-> n, state |-> a] \in Job
    /\ \A n \in NodePort, a \in LinkState, L \in SUBSET Link :
          [pc |-> "restate", npt |-> n, state |-> a, todo |-> L] \in Job
    /\ \A N \in SUBSET NodePort : [pc |-> "purge", rest |-> N] \in Job
    /\ \A n \in NodePort, N \in SUBSET NodePort : [pc |-> "get", npt |-> n, rest |-> N] \in Job
    /\ \A p \in {"erase", "delete"}, L \in SUBSET Link, N \in SUBSET NodePort :
          [pc |-> p, list |-> L, rest |-> N] \in Job
    /\ \A L, M \in SUBSET Link, b \in BOOLEAN :
          [pc |-> "timeout", todo |-> L, changed |-> b, list |-> M] \in Job
BY DEF Job, Idle

(* The queue takes updates about links and notices. *)
LEMMA QueueType ==
    ASSUME updates \in Seq(Update)
    PROVE  /\ Append(updates, Notice) \in Seq(Update)
           /\ \A l \in Link, op \in {"LINK_UPDATED", "LINK_REMOVED"} :
                 Append(updates, LinkUpdate(op, l)) \in Seq(Update)
           /\ updates # <<>> => Tail(updates) \in Seq(Update) /\ Head(updates) \in Update
<1>1. Notice \in Update
    BY DEF Update
<1>2. \A l \in Link, op \in {"LINK_UPDATED", "LINK_REMOVED"} : LinkUpdate(op, l) \in Update
    BY DEF Update, LinkUpdate
<1> QED BY <1>1, <1>2

LEMMA OperationType ==
    \A info : UpdateOperation(info) \in {"LINK_UPDATED", "LINK_REMOVED"}
BY DEF UpdateOperation
-----------------------------------------------------------------------------
(* A step of thread t that is alone with the links, or leaves all known links    *)
(* known, keeps the work under the lock known, and the lock with one thread.     *)
LEMMA LockStep ==
    ASSUME LinkInv, NEW t \in Thread, NEW j, Become(t, j),
           Known \subseteq Known' \/ HasLock(t),
           j.pc \in Locked => HasLock(t),
           WorksOn(j, Known')
    PROVE  LockedWorkIsKnown' /\ OneLocked'
<1>1. task' = [task EXCEPT ![t] = j] /\ task \in [Thread -> Job]
    BY DEF Become, LinkInv, TypeOK
<1>2. /\ task'[t] = j
      /\ \A u \in Thread \ {t} : task'[u] = task[u]
    BY <1>1
<1>3. HasLock(t) => \A u \in Thread \ {t} : pc(u) \notin Locked
    BY DEF HasLock, MayLock, LinkInv, OneLocked
<1>4. LockedWorkIsKnown'
    BY <1>2, <1>3 DEF LinkInv, LockedWorkIsKnown, WorksOn, Locked, pc
<1>5. OneLocked'
    BY <1>2, <1>3 DEF LinkInv, OneLocked, pc
<1> QED BY <1>4, <1>5

(* The same for a step that changes no job. *)
LEMMA LockStay ==
    ASSUME LinkInv, UNCHANGED task, Known \subseteq Known'
    PROVE  LockedWorkIsKnown' /\ OneLocked'
BY DEF LinkInv, LockedWorkIsKnown, OneLocked, pc

(* Indexes and links that do not change go on agreeing. *)
LEMMA IndexStay ==
    ASSUME LinkInv, UNCHANGED <<switchLinks, portLinks>>, Known' = Known
    PROVE  IndexesAgree'
BY DEF LinkInv, IndexesAgree

(* RemoveLink takes the link out of all three. *)
LEMMA RemoveStep ==
    ASSUME LinkInv, NEW l \in Link, RemoveLink(l)
    PROVE  /\ Known' = Known \ {l}
           /\ IndexesAgree'
           /\ links' \in [Link -> Info \union {NoInfo}]
           /\ switchLinks' \in [Switch -> SUBSET Link]
           /\ portLinks' \in [NodePort -> SUBSET Link]
           /\ updates' \in Seq(Update)
<1>1. /\ links' \in [Link -> Info \union {NoInfo}]
      /\ switchLinks' \in [Switch -> SUBSET Link]
      /\ portLinks' \in [NodePort -> SUBSET Link]
    BY DEF RemoveLink, LinkInv, TypeOK
<1>2. updates' \in Seq(Update)
    BY QueueType DEF RemoveLink, LinkInv, TypeOK
<1>3. Known' = Known \ {l}
    BY DEF RemoveLink, LinkInv, TypeOK, Known
<1>4. \A s \in Switch : switchLinks'[s] = switchLinks[s] \ {l}
    BY DEF RemoveLink, LinkInv, IndexesAgree
<1>5. \A n \in NodePort : portLinks'[n] = portLinks[n] \ {l}
    BY DEF RemoveLink, LinkInv, IndexesAgree
<1>6. IndexesAgree'
    BY <1>3, <1>4, <1>5 DEF LinkInv, IndexesAgree
<1> QED BY <1>1, <1>2, <1>3, <1>6

(* addOrUpdateLink puts the link into all three. *)
LEMMA AddStep ==
    ASSUME LinkInv, NEW l \in Link, NEW info \in Info,
           links' = [links EXCEPT ![l] = info],
           IF links[l] = NoInfo
           THEN /\ switchLinks' = [x \in Switch |-> IF x \in {Node(l.src), Node(l.dst)}
                                                  THEN switchLinks[x] \union {l}
                                                  ELSE switchLinks[x]]
                /\ portLinks' = [n \in NodePort |-> IF n \in Ends(l) THEN portLinks[n] \union {l}
                                                  ELSE portLinks[n]]
           ELSE UNCHANGED <<switchLinks, portLinks>>
    PROVE  /\ Known' = Known \union {l}
           /\ IndexesAgree'
           /\ links' \in [Link -> Info \union {NoInfo}]
           /\ switchLinks' \in [Switch -> SUBSET Link]
           /\ portLinks' \in [NodePort -> SUBSET Link]
<1>1. /\ links' \in [Link -> Info \union {NoInfo}]
      /\ switchLinks' \in [Switch -> SUBSET Link]
      /\ portLinks' \in [NodePort -> SUBSET Link]
    BY DEF LinkInv, TypeOK
<1>2. Known' = Known \union {l}
    BY LinkAssumptions DEF LinkInv, TypeOK, Known
<1>3. \A s \in Switch : switchLinks'[s] =
         IF s \in {Node(l.src), Node(l.dst)} THEN switchLinks[s] \union {l} ELSE switchLinks[s]
  <2>1. CASE links[l] = NoInfo
    BY <2>1
  <2>2. CASE links[l] # NoInfo
    <3>1. l \in Known
      BY <2>2 DEF Known
    <3>2. \A s \in Switch : s \in {Node(l.src), Node(l.dst)} => l \in switchLinks[s]
      BY <3>1 DEF LinkInv, IndexesAgree
    <3> QED BY <2>2, <3>2
  <2> QED BY <2>1, <2>2
<1>4. \A n \in NodePort : portLinks'[n] =
         IF n \in Ends(l) THEN portLinks[n] \union {l} ELSE portLinks[n]
    BY ZenonT(40) DEF LinkInv, IndexesAgree, Known
<1>5. IndexesAgree'
    BY ZenonT(40), <1>2, <1>3, <1>4 DEF LinkInv, IndexesAgree
<1> QED BY <1>1, <1>2, <1>5

(* A step of one thread that changes no link. *)
LEMMA QuietStep ==
    ASSUME LinkInv, NEW t \in Thread, NEW j \in Job, Become(t, j), UNCHANGED linkVars,
           portState' \in [NodePort -> PortState], switches' \subseteq Switch,
           disconnections' \subseteq Disconnection, cleaned' \subseteq Disconnection,
           updates' \in Seq(Update),
           j.pc \in Locked => HasLock(t),
           WorksOn(j, Known)
    PROVE  LinkInv'
<1>1. Known' = Known
    BY DEF Known, linkVars
<1>2. IndexesAgree'
    BY <1>1, IndexStay DEF linkVars
<1>3. LockedWorkIsKnown' /\ OneLocked'
    BY <1>1, LockStep
<1>4. TypeOK'
    BY DEF LinkInv, TypeOK, Become, linkVars
<1> QED BY <1>2, <1>3, <1>4 DEF LinkInv

(* A step of the network that changes no job and no link. *)
LEMMA NetStep ==
    ASSUME LinkInv, UNCHANGED <<linkVars, task, cleaned>>,
           portState' \in [NodePort -> PortState], switches' \subseteq Switch,
           disconnections' \subseteq Disconnection, updates' \in Seq(Update)
    PROVE  LinkInv'
<1>1. Known' = Known
    BY DEF Known, linkVars
<1>2. IndexesAgree'
    BY <1>1, IndexStay DEF linkVars
<1>3. LockedWorkIsKnown' /\ OneLocked'
    BY <1>1, LockStay
<1>4. TypeOK'
    BY DEF LinkInv, TypeOK, linkVars
<1> QED BY <1>2, <1>3, <1>4 DEF LinkInv

LEMMA LinkInit == Init => LinkInv
<1> SUFFICES ASSUME Init PROVE LinkInv
    OBVIOUS
<1>1. TypeOK
    BY NewJobs DEF Init, TypeOK, PortState
<1>2. Known = {}
    BY DEF Init, Known
<1>3. IndexesAgree
    BY <1>2 DEF Init, IndexesAgree
<1>4. \A t \in Thread : pc(t) = "idle"
    BY DEF Init, pc, Idle
<1>5. LockedWorkIsKnown /\ OneLocked
    BY <1>4 DEF LockedWorkIsKnown, OneLocked, Locked
<1> QED BY <1>1, <1>3, <1>5 DEF LinkInv
-----------------------------------------------------------------------------
(* Handshakes, port descriptions, disconnections, the passing of time, probes   *)
(* and port status messages change no link.                                      *)
LEMMA EnvironmentStep == LinkInv /\ Environment => LinkInv'
<1> SUFFICES ASSUME LinkInv, Environment PROVE LinkInv'
    OBVIOUS
<1>t. /\ portState \in [NodePort -> PortState] /\ switches \subseteq Switch
      /\ disconnections \subseteq Disconnection /\ cleaned \subseteq Disconnection
      /\ updates \in Seq(Update) /\ links \in [Link -> Info \union {NoInfo}]
      /\ task \in [Thread -> Job]
    BY DEF LinkInv, TypeOK
<1>1. ASSUME NEW s \in Switch, Handshake(s) PROVE LinkInv'
  <2>1. portState' \in [NodePort -> PortState]
    BY <1>1, <1>t DEF Handshake, PortsAfterFeatures, PortState, LinkState
  <2> QED BY <1>1, <1>t, <2>1, NetStep, QueueType DEF Handshake
<1>2. ASSUME NEW s \in Switch, PortDescription(s) PROVE LinkInv'
  <2>1. portState' \in [NodePort -> PortState]
    BY <1>2, <1>t DEF PortDescription, PortState, LinkState
  <2> QED BY <1>2, <1>t, <2>1, NetStep DEF PortDescription
<1>3. ASSUME NEW s \in Switch, Disconnect(s) PROVE LinkInv'
  <2>1. disconnections' \subseteq Disconnection
    <3> DEFINE ports == {n \in NodePort : Node(n) = s /\ portState[n] \in LinkState}
    <3>1. [sw |-> s, old |-> FALSE, ports |-> ports] \in Disconnection
      BY DEF Disconnection
    <3> QED BY <1>3, <1>t, <3>1 DEF Disconnect, WithDisconnection
  <2> QED BY <1>3, <1>t, <2>1, NetStep DEF Disconnect
<1>4. ASSUME NEW d \in disconnections, AgeDisconnection(d) PROVE LinkInv'
  <2>1. [d EXCEPT !.old = TRUE] \in Disconnection
    BY <1>4, <1>t DEF Disconnection
  <2> QED BY <1>4, <1>t, <2>1, NetStep DEF AgeDisconnection
<1>5. ASSUME NEW l \in Link, AgeLink(l) PROVE LinkInv'
  <2>1. [links[l] EXCEPT !.time = "stale"] \in Info
    BY <1>5, <1>t DEF AgeLink, Info
  <2>2. links' = [links EXCEPT ![l] = [links[l] EXCEPT !.time = "stale"]]
    BY <1>5 DEF AgeLink
  <2>3. Known' = Known /\ links' \in [Link -> Info \union {NoInfo}]
    BY <1>5, <1>t, <2>1, <2>2, LinkAssumptions DEF AgeLink, Known
  <2>4. IndexesAgree'
    BY <1>5, <2>3, IndexStay DEF AgeLink
  <2>5. LockedWorkIsKnown' /\ OneLocked'
    BY <1>5, <2>3, LockStay DEF AgeLink
  <2>6. TypeOK'
    BY <1>5, <2>3 DEF AgeLink, netVars, LinkInv, TypeOK
  <2> QED BY <2>4, <2>5, <2>6 DEF LinkInv
<1>6. ASSUME NEW l \in Link, ReceiveLldp(l) PROVE LinkInv'
  <2>1. Node(l.dst) \in Thread /\ [pc |-> "lldp", link |-> l] \in Job
    BY LinkAssumptions, NewJobs DEF Thread
  <2> QED BY <1>6, <1>t, <2>1, QuietStep DEF ReceiveLldp, netVars, WorksOn, Locked
<1>7. ASSUME NEW n \in NodePort, PortDeleted(n) PROVE LinkInv'
  <2>1. Node(n) \in Thread /\ [pc |-> "purge", rest |-> {n}] \in Job
    BY LinkAssumptions, NewJobs DEF Thread
  <2>2. portState' \in [NodePort -> PortState]
    BY <1>7, <1>t DEF PortDeleted, PortState
  <2> QED BY <1>7, <1>t, <2>1, <2>2, QuietStep DEF PortDeleted, WorksOn, Locked
<1>8. ASSUME NEW n \in NodePort, NEW st \in LinkState, PortModified(n, st) PROVE LinkInv'
  <2>1. /\ Node(n) \in Thread
        /\ [pc |-> "purge", rest |-> {n}] \in Job
        /\ [pc |-> "status", npt |-> n, state |-> st] \in Job
    BY LinkAssumptions, NewJobs DEF Thread
  <2>2. portState' \in [NodePort -> PortState]
    BY <1>8, <1>t DEF PortModified, PortState
  <2> QED BY <1>8, <1>t, <2>1, <2>2, QuietStep DEF PortModified, WorksOn, Locked
<1>9. ASSUME NEW n \in NodePort, NEW st \in LinkState, PortAdded(n, st) PROVE LinkInv'
  <2>1. portState' \in [NodePort -> PortState]
    BY <1>9, <1>t DEF PortAdded, PortState
  <2> QED BY <1>9, <1>t, <2>1, NetStep DEF PortAdded
<1>10. Flapping \subseteq NodePort
    BY LinkAssumptions
<1> QED BY <1>1, <1>2, <1>3, <1>4, <1>5, <1>6, <1>7, <1>8, <1>9, <1>10 DEF Environment

(* The handlers of LLDP and of port status. *)
LEMMA HandlerStep == \A s \in Switch : LinkInv /\ Handler(s) => LinkInv'
<1> SUFFICES ASSUME NEW s \in Switch, LinkInv, Handler(s) PROVE LinkInv'
    OBVIOUS
<1>t. /\ portState \in [NodePort -> PortState] /\ switches \subseteq Switch
      /\ disconnections \subseteq Disconnection /\ cleaned \subseteq Disconnection
      /\ updates \in Seq(Update) /\ links \in [Link -> Info \union {NoInfo}]
      /\ portLinks \in [NodePort -> SUBSET Link]
      /\ task \in [Thread -> Job]
    BY DEF LinkInv, TypeOK
<1>s. s \in Thread /\ task[s] \in Job
    BY <1>t DEF Thread
<1>1. CASE ReadPortStates(s)
  <2> DEFINE l == task[s].link
             j == [pc |-> "add", link |-> l, src |-> StateOf(l.src), dst |-> StateOf(l.dst)]
  <2>1. l \in Link
    BY <1>1, <1>s, JobShape DEF ReadPortStates, pc
  <2>2. j \in Job
    BY <2>1, NewJobs DEF StateOf, LinkState
  <2>3. Become(s, j) /\ UNCHANGED <<netVars, linkVars, updates, cleaned>>
    BY <1>1 DEF ReadPortStates
  <2> QED BY <1>s, <1>t, <2>2, <2>3, QuietStep DEF netVars, WorksOn, Locked
<1>2. CASE AddOrUpdateLink(s)
  <2> DEFINE l == task[s].link
             new == [time |-> "fresh", src |-> task[s].src, dst |-> task[s].dst]
  <2>1. l \in Link /\ new \in Info
    BY <1>2, <1>s, JobShape DEF AddOrUpdateLink, pc, Info
  <2>2. /\ links' = [links EXCEPT ![l] = new]
        /\ IF links[l] = NoInfo
           THEN /\ switchLinks' = [x \in Switch |-> IF x \in {Node(l.src), Node(l.dst)}
                                                  THEN switchLinks[x] \union {l}
                                                  ELSE switchLinks[x]]
                /\ portLinks' = [n \in NodePort |-> IF n \in Ends(l) THEN portLinks[n] \union {l}
                                                  ELSE portLinks[n]]
           ELSE UNCHANGED <<switchLinks, portLinks>>
        /\ Become(s, Idle) /\ UNCHANGED <<netVars, cleaned>>
    BY <1>2 DEF AddOrUpdateLink
  <2>3. updates' \in Seq(Update)
    BY <1>2, <1>t, <2>1, QueueType, OperationType DEF AddOrUpdateLink
  <2>4. /\ Known' = Known \union {l}
        /\ IndexesAgree'
        /\ links' \in [Link -> Info \union {NoInfo}]
        /\ switchLinks' \in [Switch -> SUBSET Link]
        /\ portLinks' \in [NodePort -> SUBSET Link]
    BY <2>1, <2>2, AddStep
  <2>5. LockedWorkIsKnown' /\ OneLocked'
    BY <1>s, <2>2, <2>4, LockStep DEF WorksOn, Locked, Idle
  <2>6. task' \in [Thread -> Job]
    BY <1>t, <2>2, NewJobs DEF Become
  <2>7. TypeOK'
    BY <1>t, <2>2, <2>3, <2>4, <2>6 DEF TypeOK, netVars
  <2> QED BY <2>4, <2>5, <2>7 DEF LinkInv
<1>3. CASE LockStatus(s)
  <2> DEFINE j == [pc |-> "restate", npt |-> task[s].npt, state |-> task[s].state,
                   todo |-> portLinks[task[s].npt]]
  <2>1. task[s].npt \in NodePort /\ task[s].state \in LinkState
    BY <1>3, <1>s, JobShape DEF LockStatus, pc
  <2>2. j \in Job
    BY <1>t, <2>1, NewJobs
  <2>3. portLinks[task[s].npt] \subseteq Known
    BY <2>1 DEF LinkInv, IndexesAgree
  <2>4. WorksOn(j, Known) /\ HasLock(s)
    BY <1>3, <2>3 DEF WorksOn, LockStatus, HasLock
  <2>5. Become(s, j) /\ UNCHANGED <<netVars, linkVars, updates, cleaned>>
    BY <1>3 DEF LockStatus
  <2> QED BY <1>s, <1>t, <2>2, <2>4, <2>5, QuietStep DEF netVars
<1>4. ASSUME NEW l \in Link, RestateLink(s, l) PROVE LinkInv'
  <2> DEFINE st == task[s].state
             new == [links[l] EXCEPT !.src = IF l.src = task[s].npt THEN st ELSE @,
                                     !.dst = IF l.dst = task[s].npt THEN st ELSE @]
             j == [task[s] EXCEPT !.todo = task[s].todo \ {l}]
  <2>1. /\ pc(s) = "restate" /\ links[l] # NoInfo
        /\ links' = [links EXCEPT ![l] = new]
        /\ updates' = IF new # links[l] THEN Append(updates, LinkUpdate(UpdateOperation(new), l))
                      ELSE updates
        /\ Become(s, j) /\ UNCHANGED <<netVars, switchLinks, portLinks, cleaned>>
    BY <1>4 DEF RestateLink
  <2>2. /\ st \in LinkState
        /\ j \in Job /\ j.pc = "restate" /\ j.todo = task[s].todo \ {l}
    BY <1>s, <2>1, JobShape DEF pc
  <2>3. new \in Info
    <3>1. links[l] \in Info
      BY <1>t, <2>1
    <3> QED BY <2>2, <3>1 DEF Info
  <2>4. updates' \in Seq(Update)
    BY <1>t, <2>1, QueueType, OperationType
  <2>5. Known' = Known /\ links' \in [Link -> Info \union {NoInfo}]
    <3> HIDE DEF new
    <3> QED BY <1>t, <2>1, <2>3, LinkAssumptions DEF Known
  <2>6. IndexesAgree'
    BY <2>1, <2>5, IndexStay
  <2>7. HasLock(s) /\ WorksOn(j, Known')
    BY <1>s, <2>1, <2>2, <2>5 DEF HasLock, WorksOn, LinkInv, LockedWorkIsKnown, Locked
  <2>8. LockedWorkIsKnown' /\ OneLocked'
    BY <1>s, <2>1, <2>5, <2>7, LockStep
  <2>9. TypeOK'
    BY <1>t, <2>1, <2>2, <2>4, <2>5 DEF LinkInv, TypeOK, netVars, Become
  <2> QED BY <2>6, <2>8, <2>9 DEF LinkInv
<1>5. CASE EndStatus(s)
  <2>1. Become(s, Idle) /\ UNCHANGED <<netVars, linkVars, cleaned>> /\ updates' \in Seq(Update)
    BY <1>5, <1>t, QueueType DEF EndStatus
  <2> QED BY <1>s, <1>t, <2>1, NewJobs, QuietStep DEF netVars, WorksOn, Locked, Idle
<1>6. CASE EndPurge(s)
  <2>1. Become(s, Idle) /\ UNCHANGED <<netVars, linkVars, updates, cleaned>>
    BY <1>6 DEF EndPurge
  <2> QED BY <1>s, <1>t, <2>1, NewJobs, QuietStep DEF netVars, WorksOn, Locked, Idle
<1> QED BY <1>1, <1>2, <1>3, <1>4, <1>5, <1>6 DEF Handler

(* deleteLinksOnPort, by a QP thread or the Timer.  Its list was read without    *)
(* the lock and may name links that are gone by now.                             *)
LEMMA PurgeStep == \A t \in Thread : LinkInv /\ Purge(t) => LinkInv'
<1> SUFFICES ASSUME NEW t \in Thread, LinkInv, Purge(t) PROVE LinkInv'
    OBVIOUS
<1>t. /\ portState \in [NodePort -> PortState] /\ switches \subseteq Switch
      /\ disconnections \subseteq Disconnection /\ cleaned \subseteq Disconnection
      /\ updates \in Seq(Update) /\ portLinks \in [NodePort -> SUBSET Link]
      /\ task \in [Thread -> Job] /\ task[t] \in Job
    BY DEF LinkInv, TypeOK
<1> USE DEF netVars
<1>1. ASSUME NEW n \in NodePort, PurgePort(t, n) PROVE LinkInv'
  <2> DEFINE less == [task[t] EXCEPT !.rest = task[t].rest \ {n}]
             get == [pc |-> "get", npt |-> n, rest |-> task[t].rest \ {n}]
  <2>1. /\ less \in Job /\ less.pc = "purge"
        /\ task[t].rest \ {n} \in SUBSET NodePort
    BY <1>1, <1>t, JobShape DEF PurgePort, pc
  <2>2. get \in Job
    BY <2>1, NewJobs
  <2>3. /\ Become(t, less) \/ Become(t, get)
        /\ UNCHANGED <<netVars, linkVars, cleaned>>
        /\ updates' \in Seq(Update)
    BY <1>1, <1>t, QueueType DEF PurgePort
  <2>4. CASE Become(t, less)
    <3> HIDE DEF less
    <3> QED BY <1>t, <2>1, <2>3, <2>4, QuietStep DEF WorksOn, Locked
  <2>5. CASE Become(t, get)
    BY <1>t, <2>2, <2>3, <2>5, QuietStep DEF WorksOn, Locked
  <2> QED BY <2>3, <2>4, <2>5
<1>2. CASE ReadPortLinks(t)
  <2> DEFINE j == [pc |-> "erase", list |-> portLinks[task[t].npt], rest |-> task[t].rest]
  <2>1. task[t].npt \in NodePort /\ task[t].rest \in SUBSET NodePort
    BY <1>2, <1>t, JobShape DEF ReadPortLinks, pc
  <2>2. j \in Job
    BY <1>t, <2>1, NewJobs
  <2>3. Become(t, j) /\ UNCHANGED <<netVars, linkVars, updates, cleaned>>
    BY <1>2 DEF ReadPortLinks
  <2> QED BY <1>t, <2>2, <2>3, QuietStep DEF WorksOn, Locked
<1>3. CASE ReadPortLinksFails(t)
  <2>1. Become(t, [pc |-> "dead"]) /\ UNCHANGED <<netVars, linkVars, updates, cleaned>>
    BY <1>3 DEF ReadPortLinksFails
  <2> QED BY <1>t, <2>1, NewJobs, QuietStep DEF WorksOn, Locked
<1>4. CASE EndDelete(t)
  <2> DEFINE j == [pc |-> "purge", rest |-> task[t].rest]
  <2>1. j \in Job
    BY <1>4, <1>t, JobShape, NewJobs DEF EndDelete, pc
  <2>2. /\ Become(t, j) /\ UNCHANGED <<netVars, linkVars, cleaned>>
        /\ updates' \in Seq(Update)
    BY <1>4, <1>t, QueueType DEF EndDelete
  <2> QED BY <1>t, <2>1, <2>2, QuietStep DEF WorksOn, Locked
<1>5. ASSUME NEW l \in Link, DeleteLink(t, l) PROVE LinkInv'
  <2> DEFINE j == [pc |-> "delete", list |-> task[t].list \ {l}, rest |-> task[t].rest]
  <2>1. /\ RemoveLink(l) /\ Become(t, j) /\ MayLock(t)
        /\ UNCHANGED <<netVars, cleaned>>
    BY <1>5 DEF DeleteLink
  <2>2. task[t].list \in SUBSET Link /\ task[t].rest \in SUBSET NodePort
    BY <1>5, <1>t, JobShape DEF DeleteLink, pc
  <2>3. j \in Job
    BY <2>2, NewJobs
  <2>4. /\ Known' = Known \ {l} /\ IndexesAgree'
        /\ links' \in [Link -> Info \union {NoInfo}]
        /\ switchLinks' \in [Switch -> SUBSET Link]
        /\ portLinks' \in [NodePort -> SUBSET Link]
        /\ updates' \in Seq(Update)
    BY <2>1, RemoveStep
  <2>5. LockedWorkIsKnown' /\ OneLocked'
    BY <2>1, LockStep DEF HasLock, WorksOn
  <2>6. TypeOK'
    BY <1>t, <2>1, <2>3, <2>4 DEF TypeOK, Become
  <2> QED BY <2>4, <2>5, <2>6 DEF LinkInv
<1> QED BY <1>1, <1>2, <1>3, <1>4, <1>5 DEF Purge

(* The discovery job of the Timer.  timeoutLinks holds the lock from the reading *)
(* of the links to the removal of the last stale one.                            *)
LEMMA DiscoveryJobStep == LinkInv /\ Discovery => LinkInv'
<1> SUFFICES ASSUME LinkInv, Discovery PROVE LinkInv'
    OBVIOUS
<1>t. /\ portState \in [NodePort -> PortState] /\ switches \subseteq Switch
      /\ disconnections \subseteq Disconnection /\ cleaned \subseteq Disconnection
      /\ updates \in Seq(Update) /\ links \in [Link -> Info \union {NoInfo}]
      /\ task \in [Thread -> Job] /\ Timer \in Thread /\ task[Timer] \in Job
    BY DEF LinkInv, TypeOK, Thread
<1> USE DEF netVars
<1>1. CASE StartDiscovery
  <2>1. /\ Become(Timer, [pc |-> "purge", rest |-> {}])
        /\ UNCHANGED <<netVars, linkVars, updates, cleaned>>
    BY <1>1 DEF StartDiscovery
  <2>2. [pc |-> "purge", rest |-> {}] \in Job
    BY NewJobs
  <2> QED BY <1>t, <2>1, <2>2, QuietStep DEF WorksOn, Locked
<1>2. ASSUME NEW d \in disconnections, CleanDisconnected(d) PROVE LinkInv'
  <2>1. /\ Become(Timer, [pc |-> "purge", rest |-> d.ports])
        /\ cleaned' = cleaned \union {d}
        /\ UNCHANGED <<netVars, linkVars, updates>>
    BY <1>2 DEF CleanDisconnected
  <2>2. [pc |-> "purge", rest |-> d.ports] \in Job
    BY <1>t, NewJobs DEF Disconnection
  <2> QED BY <1>t, <2>1, <2>2, QuietStep DEF WorksOn, Locked
<1>3. CASE EndClean
  <2>1. /\ Become(Timer, [pc |-> "clean"]) /\ cleaned' = {}
        /\ disconnections' \subseteq disconnections
        /\ UNCHANGED <<portState, switches, linkVars, updates>>
    BY <1>3 DEF EndClean
  <2> QED BY <1>t, <2>1, NewJobs, QuietStep DEF WorksOn, Locked
<1>4. CASE LockTimeout
  <2> DEFINE j == [pc |-> "timeout", todo |-> Known, changed |-> FALSE, list |-> {}]
  <2>1. Become(Timer, j) /\ UNCHANGED <<netVars, linkVars, updates, cleaned>>
    BY <1>4 DEF LockTimeout
  <2>2. j \in Job
    BY NewJobs DEF Known
  <2>3. WorksOn(j, Known) /\ HasLock(Timer)
    BY <1>4 DEF WorksOn, HasLock, LockTimeout
  <2> QED BY <1>t, <2>1, <2>2, <2>3, QuietStep
<1>5. ASSUME NEW l \in Link, ExpireLink(l) PROVE LinkInv'
  <2> DEFINE stale == links[l].time = "stale"
             some == stale \/ task[Timer].changed
             j == [pc |-> "timeout", todo |-> task[Timer].todo \ {l}, changed |-> some,
                   list |-> task[Timer].list \union (IF stale THEN {l} ELSE {})]
  <2>1. /\ pc(Timer) = "timeout" /\ l \in task[Timer].todo
        /\ Become(Timer, j) /\ UNCHANGED <<netVars, linkVars, cleaned>>
    BY <1>5 DEF ExpireLink
  <2>2. updates' \in Seq(Update)
    BY <1>5, <1>t, QueueType, OperationType DEF ExpireLink
  <2>3. task[Timer].todo \subseteq Link /\ task[Timer].list \subseteq Link
    BY <1>t, <2>1 DEF Job, pc
  <2>4. /\ j.pc = "timeout" /\ j.todo = task[Timer].todo \ {l}
        /\ j.list \subseteq task[Timer].list \union {l}
    OBVIOUS
  <2>5. j \in Job
    <3>1. some \in BOOLEAN
      OBVIOUS
    <3>2. /\ task[Timer].todo \ {l} \in SUBSET Link
          /\ task[Timer].list \union (IF stale THEN {l} ELSE {}) \in SUBSET Link
      BY <2>3
    <3> HIDE DEF some
    <3> QED BY <3>1, <3>2, NewJobs
  <2>6. WorksOn(j, Known)
    BY <1>t, <2>1, <2>4 DEF WorksOn, LinkInv, LockedWorkIsKnown
  <2>7. HasLock(Timer)
    BY <2>1 DEF HasLock, Locked
  <2> HIDE DEF j
  <2> QED BY <1>t, <2>1, <2>2, <2>5, <2>6, <2>7, QuietStep
<1>6. ASSUME NEW l \in Link, ReapLink(l) PROVE LinkInv'
  <2> DEFINE j == [task[Timer] EXCEPT !.list = @ \ {l}]
  <2>1. /\ pc(Timer) = "timeout" /\ task[Timer].todo = {}
        /\ RemoveLink(l) /\ Become(Timer, j) /\ UNCHANGED <<netVars, cleaned>>
    BY <1>6 DEF ReapLink
  <2>2. task[Timer] \in [pc : {"timeout"}, todo : SUBSET Link, changed : BOOLEAN,
                         list : SUBSET Link]
    BY <1>t, <2>1 DEF Job, pc
  <2>3. /\ j.pc = "timeout" /\ j.todo = {} /\ j.list = task[Timer].list \ {l}
        /\ j = [pc |-> "timeout", todo |-> {}, changed |-> j.changed, list |-> j.list]
        /\ j.changed \in BOOLEAN
    BY <2>1, <2>2
  <2> HIDE DEF j
  <2>4. j \in Job
    BY <2>2, <2>3, NewJobs
  <2>5. /\ Known' = Known \ {l} /\ IndexesAgree'
        /\ links' \in [Link -> Info \union {NoInfo}]
        /\ switchLinks' \in [Switch -> SUBSET Link]
        /\ portLinks' \in [NodePort -> SUBSET Link]
        /\ updates' \in Seq(Update)
    BY <2>1, RemoveStep
  <2>6. WorksOn(j, Known') /\ HasLock(Timer)
    BY <1>t, <2>1, <2>3, <2>5 DEF WorksOn, LinkInv, LockedWorkIsKnown, HasLock, Locked
  <2>7. LockedWorkIsKnown' /\ OneLocked'
    BY <1>t, <2>1, <2>6, LockStep
  <2>8. TypeOK'
    BY <1>t, <2>1, <2>4, <2>5 DEF TypeOK, Become
  <2> QED BY <2>5, <2>7, <2>8 DEF LinkInv
<1>7. CASE EndTimeout
  <2>1. Become(Timer, Idle) /\ UNCHANGED <<netVars, linkVars, updates, cleaned>>
    BY <1>7 DEF EndTimeout
  <2> QED BY <1>t, <2>1, NewJobs, QuietStep DEF WorksOn, Locked, Idle
<1> QED BY <1>1, <1>2, <1>3, <1>4, <1>5, <1>6, <1>7 DEF Discovery

(* The update job only takes updates off the queue. *)
LEMMA DeliverJobStep == LinkInv /\ DeliverUpdate => LinkInv'
<1> SUFFICES ASSUME LinkInv, DeliverUpdate PROVE LinkInv'
    OBVIOUS
<1>1. /\ Become(Timer, Idle) \/ Become(Timer, [pc |-> "drain"])
      /\ UNCHANGED <<netVars, linkVars, cleaned>>
      /\ updates' \in Seq(Update)
    BY QueueType DEF DeliverUpdate, LinkInv, TypeOK
<1>2. Timer \in Thread
    BY DEF Thread
<1> QED BY <1>1, <1>2, NewJobs, QuietStep DEF netVars, WorksOn, Locked, Idle, LinkInv, TypeOK

LEMMA LinkStep == LinkInv /\ [Next]_vars => LinkInv'
<1>1. LinkInv /\ UNCHANGED vars => LinkInv'
    BY DEF vars, netVars, linkVars, LinkInv, TypeOK, IndexesAgree, LockedWorkIsKnown, OneLocked,
           Known, pc
<1> QED BY <1>1, EnvironmentStep, HandlerStep, PurgeStep, DiscoveryJobStep, DeliverJobStep
        DEF Next

LEMMA LinkInvHolds == Spec => []LinkInv
<1> QED BY LinkInit, LinkStep, PTL DEF Spec

(* The maps of Links, the queue of LDUpdates and what the threads carry from one *)
(* step to the next keep their types.                                            *)
THEOREM LinkTypeCorrect == Spec => []TypeOK
<1>1. LinkInv => TypeOK
    BY DEF LinkInv
<1> QED BY <1>1, LinkInvHolds, PTL

(* switchLinks and portLinks of Links say exactly what its map links says, in    *)
(* every interleaving of addOrUpdateLink, deleteLinks, updatePortStatus and      *)
(* timeoutLinks, although deleteLinksOnPort reads portLinks without the lock and *)
(* may delete a link twice.                                                      *)
THEOREM IndexesAgreeHolds == Spec => []IndexesAgree
<1>1. LinkInv => IndexesAgree
    BY DEF LinkInv
<1> QED BY <1>1, LinkInvHolds, PTL

(* The assertion of updatePortStatus never fails: under the write lock of Links  *)
(* a link that was collected to be updated or timed out is still there when its  *)
(* turn comes.                                                                   *)
THEOREM LockedWorkIsKnownHolds == Spec => []LockedWorkIsKnown
<1>1. LinkInv => LockedWorkIsKnown
    BY DEF LinkInv
<1> QED BY <1>1, LinkInvHolds, PTL
-----------------------------------------------------------------------------
(* Queues of updates, by what they leave the topology with: the last update      *)
(* about l decides, or what the topology has already.  WillHave is this of the   *)
(* pending updates.                                                              *)
Decides(q, has, l) ==
    \/ \E i \in DOMAIN q :
          /\ Concerns(q[i], l) /\ q[i].op = "LINK_UPDATED"
          /\ \A j \in DOMAIN q : j > i => ~Concerns(q[j], l)
    \/ has /\ \A i \in DOMAIN q : ~Concerns(q[i], l)

(* A queue is decided by an update about the link at its end; other updates at   *)
(* its end change nothing.                                                       *)
LEMMA DecideLast ==
    ASSUME NEW W, NEW q \in Seq(W), NEW u \in W, NEW has \in BOOLEAN, NEW l
    PROVE  Decides(Append(q, u), has, l) <=>
              IF Concerns(u, l) THEN u.op = "LINK_UPDATED" ELSE Decides(q, has, l)
<1> DEFINE r == Append(q, u)
           n == Len(q) + 1
<1>1. /\ n \in Nat /\ Len(r) = n /\ r[n] = u /\ DOMAIN r = 1..n /\ DOMAIN q = 1..Len(q)
      /\ \A i \in 1..Len(q) : r[i] = q[i]
      /\ \A i \in 1..n : i = n \/ i \in 1..Len(q)
      /\ Len(q) \in Nat
    OBVIOUS
<1> HIDE DEF r
<1>2. CASE Concerns(u, l)
  <2>1. Decides(r, has, l) <=> r[n].op = "LINK_UPDATED"
    BY <1>1, <1>2 DEF Decides
  <2> QED BY <1>1, <1>2, <2>1 DEF r
<1>3. CASE ~Concerns(u, l)
  <2>1. (\A i \in DOMAIN r : ~Concerns(r[i], l)) <=> (\A i \in DOMAIN q : ~Concerns(q[i], l))
    BY <1>1, <1>3
  <2>2. ASSUME NEW i \in DOMAIN q
        PROVE  (\A j \in DOMAIN r : j > i => ~Concerns(r[j], l)) <=>
                  (\A j \in DOMAIN q : j > i => ~Concerns(q[j], l))
    BY <1>1, <1>3
  <2>3. (\E i \in DOMAIN r : /\ Concerns(r[i], l) /\ r[i].op = "LINK_UPDATED"
                             /\ \A j \in DOMAIN r : j > i => ~Concerns(r[j], l))
        <=> (\E i \in DOMAIN q : /\ Concerns(q[i], l) /\ q[i].op = "LINK_UPDATED"
                                 /\ \A j \in DOMAIN q : j > i => ~Concerns(q[j], l))
    BY <1>1, <1>3, <2>2
  <2> QED BY <1>3, <2>1, <2>3 DEF Decides, r
<1> QED BY <1>2, <1>3

(* Applying the first update of a queue does what the queue would have done. *)
LEMMA DecideFirst ==
    ASSUME NEW W, NEW q \in Seq(W), q # <<>>, NEW has \in BOOLEAN, NEW l
    PROVE  Decides(q, has, l) <=>
              Decides(Tail(q), IF Concerns(Head(q), l) THEN Head(q).op = "LINK_UPDATED" ELSE has, l)
<1> DEFINE r == Tail(q)
           had == IF Concerns(Head(q), l) THEN Head(q).op = "LINK_UPDATED" ELSE has
<1>1. /\ Len(q) \in Nat /\ Len(q) >= 1 /\ DOMAIN q = 1..Len(q) /\ Head(q) = q[1]
      /\ DOMAIN r = 1..(Len(q) - 1)
      /\ \A i \in 1..(Len(q) - 1) : r[i] = q[i + 1]
      /\ \A i \in 1..Len(q) : i = 1 \/ i - 1 \in 1..(Len(q) - 1)
    OBVIOUS
<1> HIDE DEF r
<1>2. \A i \in DOMAIN q : i # 1 => i - 1 \in DOMAIN r /\ r[i - 1] = q[i]
    BY <1>1
<1>3. \A i \in DOMAIN r : i + 1 \in DOMAIN q /\ q[i + 1] = r[i]
    BY <1>1
<1>4. (\A i \in DOMAIN q : ~Concerns(q[i], l)) <=>
         ~Concerns(q[1], l) /\ \A i \in DOMAIN r : ~Concerns(r[i], l)
    BY <1>1, <1>2, <1>3
<1>5. ASSUME NEW i \in DOMAIN r
      PROVE  (\A j \in DOMAIN r : j > i => ~Concerns(r[j], l)) <=>
                (\A j \in DOMAIN q : j > i + 1 => ~Concerns(q[j], l))
  <2>1. \A j \in DOMAIN r : j > i => j + 1 > i + 1
    BY <1>1
  <2>2. \A j \in DOMAIN q : j > i + 1 => j # 1 /\ j - 1 > i
    BY <1>1
  <2> QED BY <1>2, <1>3, <2>1, <2>2
<1>6. (\A j \in DOMAIN q : j > 1 => ~Concerns(q[j], l)) <=>
         (\A j \in DOMAIN r : ~Concerns(r[j], l))
    BY <1>1, <1>2, <1>3
<1> DEFINE L(s, i) == /\ Concerns(s[i], l) /\ s[i].op = "LINK_UPDATED"
                      /\ \A j \in DOMAIN s : j > i => ~Concerns(s[j], l)
<1>7. \A i \in DOMAIN r : L(r, i) <=> L(q, i + 1)
    BY <1>3, <1>5
<1>8. L(q, 1) <=> Concerns(q[1], l) /\ q[1].op = "LINK_UPDATED" /\ \A j \in DOMAIN r : ~Concerns(r[j], l)
    BY <1>6
<1>9. \A i \in DOMAIN q : i = 1 \/ \E k \in DOMAIN r : i = k + 1
  <2> SUFFICES ASSUME NEW i \in DOMAIN q, i # 1 PROVE \E k \in DOMAIN r : i = k + 1
    OBVIOUS
  <2>1. i - 1 \in DOMAIN r /\ i = (i - 1) + 1
    BY <1>1, <1>2
  <2> QED BY <2>1
<1>10. /\ Decides(q, has, l) <=> (\E i \in DOMAIN q : L(q, i)) \/ (has /\ \A i \in DOMAIN q : ~Concerns(q[i], l))
       /\ Decides(r, had, l) <=> (\E i \in DOMAIN r : L(r, i)) \/ (had /\ \A i \in DOMAIN r : ~Concerns(r[i], l))
    BY DEF Decides
<1> HIDE DEF L
<1>11. (\E i \in DOMAIN q : L(q, i)) <=> L(q, 1) \/ \E i \in DOMAIN r : L(r, i)
    BY <1>1, <1>3, <1>7, <1>9
<1> QED BY <1>1, <1>4, <1>8, <1>10, <1>11 DEF r

(* Updates that concern the same links in the same way are as good. *)
LEMMA DecideAlike ==
    ASSUME NEW q, NEW r, NEW has, NEW l, DOMAIN q = DOMAIN r,
           \A i \in DOMAIN q : /\ Concerns(q[i], l) <=> Concerns(r[i], l)
                               /\ q[i].op = r[i].op
    PROVE  Decides(q, has, l) <=> Decides(r, has, l)
BY DEF Decides
-----------------------------------------------------------------------------
Same(l) == (l \in Known' <=> l \in Known) /\ (Up(l)' <=> Up(l))

(* What a step of link discovery may do to links and queue: nothing that a       *)
(* topology cares about, or one link together with the update that says so.      *)
Announced ==
    \/ /\ updates' = updates \/ updates' = Append(updates, Notice)
       /\ \A k \in Link : Same(k)
    \/ \E l \in Link :
          /\ \A k \in Link \ {l} : Same(k)
          /\ \/ updates' = Append(updates, LinkUpdate("LINK_UPDATED", l)) /\ l \in Known'
             \/ /\ updates' = Append(updates, LinkUpdate("LINK_REMOVED", l))
                /\ ~Up(l)' /\ (l \in Known' => l \in Known)

(* Links that do not change stay as they are. *)
LEMMA SameLinks ==
    ASSUME UNCHANGED links, NEW l PROVE Same(l)
BY DEF Same, Up, Known

(* An update of one link with the operation its new port states call for. *)
LEMMA AnnouncedUpdate ==
    ASSUME TypeOK, NEW l \in Known, NEW info \in Info, links' = [links EXCEPT ![l] = info],
           updates' = Append(updates, LinkUpdate(UpdateOperation(info), l))
    PROVE  Announced
<1>0. l \in Link
    BY DEF Known
<1>1. \A k \in Link \ {l} : Same(k)
    BY DEF Same, Up, Known, TypeOK
<1>2. l \in Known' /\ (Up(l)' <=> info.src = "up" /\ info.dst = "up")
    BY LinkAssumptions DEF Up, Known, TypeOK
<1> QED BY <1>0, <1>1, <1>2 DEF Announced, UpdateOperation

(* A removal. *)
LEMMA AnnouncedRemoval ==
    ASSUME TypeOK, NEW l \in Link, RemoveLink(l) PROVE Announced
<1>1. \A k \in Link \ {l} : Same(k)
    BY DEF Same, Up, Known, TypeOK, RemoveLink
<1>2. ~Up(l)' /\ l \notin Known'
    BY DEF Up, Known, TypeOK, RemoveLink
<1> QED BY <1>1, <1>2 DEF Announced, RemoveLink

(* Every step of the environment, of a handler and of the discovery job          *)
(* announces what it does to the links.                                          *)
LEMMA EnvironmentAnnounces == LinkInv /\ Environment => Announced
<1> SUFFICES ASSUME LinkInv, Environment PROVE Announced
    OBVIOUS
<1>1. ASSUME NEW l \in Link, AgeLink(l) PROVE Announced
  <2>1. links[l] \in Info /\ links' = [links EXCEPT ![l] = [links[l] EXCEPT !.time = "stale"]]
    BY <1>1 DEF AgeLink, LinkInv, TypeOK
  <2>2. /\ [links[l] EXCEPT !.time = "stale"] \in Info
        /\ [links[l] EXCEPT !.time = "stale"].src = links[l].src
        /\ [links[l] EXCEPT !.time = "stale"].dst = links[l].dst
    BY <2>1 DEF Info
  <2>3. \A k \in Link : Same(k)
    BY <2>1, <2>2, LinkAssumptions DEF Same, Up, Known, LinkInv, TypeOK
  <2> QED BY <1>1, <2>3 DEF Announced, AgeLink
<1>2. CASE UNCHANGED links /\ (updates' = updates \/ updates' = Append(updates, Notice))
    BY <1>2, SameLinks DEF Announced
<1> QED BY <1>1, <1>2
        DEF Environment, Handshake, PortDescription, Disconnect, AgeDisconnection, ReceiveLldp,
            PortDeleted, PortModified, PortAdded, linkVars

LEMMA HandlerAnnounces == \A s \in Switch : LinkInv /\ Handler(s) => Announced
<1> SUFFICES ASSUME NEW s \in Switch, LinkInv, Handler(s) PROVE Announced
    OBVIOUS
<1>s. s \in Thread /\ task[s] \in Job /\ TypeOK
    BY DEF Thread, LinkInv, TypeOK
<1>1. CASE AddOrUpdateLink(s)
  <2>0. PICK l \in Link : l = task[s].link
    BY <1>1, <1>s, JobShape DEF AddOrUpdateLink, pc
  <2> DEFINE new == [time |-> "fresh", src |-> task[s].src, dst |-> task[s].dst]
             old == links[l]
  <2>1. l \in Link /\ new \in Info
    BY <1>1, <1>s, JobShape DEF AddOrUpdateLink, pc, Info
  <2>2. links' = [links EXCEPT ![l] = new]
    BY <1>1, <2>0 DEF AddOrUpdateLink
  <2>3. \A k \in Link \ {l} : Same(k)
    BY <1>s, <2>1, <2>2 DEF Same, Up, Known, TypeOK
  <2>4. l \in Known'
    BY <1>s, <2>1, <2>2, LinkAssumptions DEF Known, TypeOK
  <2>5. CASE old = NoInfo
    <3>1. updates' = Append(updates, LinkUpdate("LINK_UPDATED", l))
      BY <1>1, <2>0, <2>5 DEF AddOrUpdateLink
    <3> QED BY <2>1, <2>3, <2>4, <3>1 DEF Announced
  <2>6. CASE old # NoInfo /\ (old.src # new.src \/ old.dst # new.dst)
    <3>1. updates' = Append(updates, LinkUpdate(UpdateOperation(new), l))
      BY <1>1, <2>0, <2>6 DEF AddOrUpdateLink
    <3>2. l \in Known
      BY <2>6 DEF Known
    <3> HIDE DEF new
    <3> QED BY <1>s, <2>1, <2>2, <3>1, <3>2, AnnouncedUpdate
  <2>7. CASE old # NoInfo /\ old.src = new.src /\ old.dst = new.dst
    <3>1. updates' = updates
      BY <1>1, <2>0, <2>7 DEF AddOrUpdateLink
    <3>2. Same(l)
      <4> HIDE DEF new
      <4>1. links'[l] = new /\ l \in Known
        BY <1>s, <2>1, <2>2, <2>7 DEF TypeOK, Known
      <4> QED BY <2>4, <2>7, <4>1 DEF Same, Up
    <3> QED BY <2>1, <2>3, <3>1, <3>2 DEF Announced
  <2> QED BY <2>5, <2>6, <2>7
<1>2. ASSUME NEW l \in Link, RestateLink(s, l) PROVE Announced
  <2> DEFINE st == task[s].state
             new == [links[l] EXCEPT !.src = IF l.src = task[s].npt THEN st ELSE @,
                                     !.dst = IF l.dst = task[s].npt THEN st ELSE @]
  <2>1. /\ links[l] \in Info /\ st \in LinkState
        /\ links' = [links EXCEPT ![l] = new]
        /\ updates' = IF new # links[l] THEN Append(updates, LinkUpdate(UpdateOperation(new), l))
                      ELSE updates
    BY <1>2, <1>s, JobShape DEF RestateLink, pc, TypeOK
  <2>2. new \in Info
    BY <2>1 DEF Info
  <2> HIDE DEF new
  <2>3. CASE new = links[l]
    <3>1. links' = links /\ updates' = updates
      BY <1>s, <2>1, <2>3 DEF TypeOK
    <3> QED BY <3>1, SameLinks DEF Announced
  <2>4. CASE new # links[l]
    <3>1. l \in Known
      BY <1>2 DEF RestateLink, Known
    <3> QED BY <1>s, <2>1, <2>2, <2>4, <3>1, AnnouncedUpdate
  <2> QED BY <2>3, <2>4
<1>3. CASE UNCHANGED links /\ (updates' = updates \/ updates' = Append(updates, Notice))
    BY <1>3, SameLinks DEF Announced
<1> QED BY <1>1, <1>2, <1>3
        DEF Handler, ReadPortStates, LockStatus, EndStatus, EndPurge, linkVars

LEMMA PurgeAnnounces == \A t \in Thread : LinkInv /\ Purge(t) => Announced
<1> SUFFICES ASSUME NEW t \in Thread, LinkInv, Purge(t) PROVE Announced
    OBVIOUS
<1>1. ASSUME NEW l \in Link, DeleteLink(t, l) PROVE Announced
    BY <1>1, AnnouncedRemoval DEF DeleteLink, LinkInv
<1>2. CASE UNCHANGED links /\ (updates' = updates \/ updates' = Append(updates, Notice))
    BY <1>2, SameLinks DEF Announced
<1> QED BY <1>1, <1>2
        DEF Purge, PurgePort, ReadPortLinks, ReadPortLinksFails, EndDelete, linkVars

LEMMA DiscoveryAnnounces == LinkInv /\ Discovery => Announced
<1> SUFFICES ASSUME LinkInv, Discovery PROVE Announced
    OBVIOUS
<1>1. ASSUME NEW l \in Link, ExpireLink(l) PROVE Announced
  <2>1. UNCHANGED links /\ l \in Known
    BY <1>1 DEF ExpireLink, linkVars, LinkInv, LockedWorkIsKnown, Thread
  <2>2. \A k \in Link : Same(k)
    BY <2>1, SameLinks
  <2>3. l \in Known' /\ (Up(l)' <=> links[l].src = "up" /\ links[l].dst = "up")
    BY <2>1 DEF Up, Known
  <2>4. CASE updates' = updates
    BY <2>2, <2>4 DEF Announced
  <2>5. CASE updates' = Append(updates, LinkUpdate(UpdateOperation(links[l]), l))
    BY <2>1, <2>2, <2>3, <2>5 DEF Announced, UpdateOperation
  <2> QED BY <1>1, <2>4, <2>5 DEF ExpireLink
<1>2. ASSUME NEW l \in Link, ReapLink(l) PROVE Announced
    BY <1>2, AnnouncedRemoval DEF ReapLink, LinkInv
<1>3. CASE UNCHANGED links /\ updates' = updates
    BY <1>3, SameLinks DEF Announced
<1> QED BY <1>1, <1>2, <1>3
        DEF Discovery, StartDiscovery, CleanDisconnected, EndClean, LockTimeout, EndTimeout, linkVars
-----------------------------------------------------------------------------
(* Everything that waits: what link discovery queued, and what the topology      *)
(* manager was given.                                                            *)
Waiting == Update \union TM!LDUpdate

SysInv ==
    /\ LinkInv
    /\ switchPortLinks \in [NodePort -> SUBSET Link]
    /\ ldUpdates \in Seq(TM!LDUpdate)
    /\ NoGhostLinks /\ NoMissingLinks

LEMMA PendingType ==
    ASSUME updates \in Seq(Update), ldUpdates \in Seq(TM!LDUpdate)
    PROVE  /\ updates \in Seq(Waiting) /\ ldUpdates \in Seq(Waiting)
           /\ Pending \in Seq(Waiting)
           /\ \A u \in Waiting : ldUpdates \o Append(updates, u) = Append(Pending, u)
           /\ ldUpdates # <<>> =>
                 /\ Pending # <<>> /\ Head(Pending) = Head(ldUpdates)
                 /\ Tail(ldUpdates) \o updates = Tail(Pending)
<1>1. updates \in Seq(Waiting) /\ ldUpdates \in Seq(Waiting)
    BY DEF Waiting
<1> QED BY SMTT(30), <1>1 DEF Pending

LEMMA WillHaveDecides ==
    ASSUME NEW l PROVE WillHave(l) <=> Decides(Pending, l \in switchPortLinks[l.src], l)
BY DEF WillHave, Decides

(* The links the topology is headed for. *)
View == {l \in Link : WillHave(l)}
Available == {l \in Link : Up(l)}

(* A step that leaves LinkView's variables alone. *)
LEMMA ViewSame ==
    ASSUME \A l \in Link : Same(l) /\ (WillHave(l)' <=> WillHave(l))
    PROVE  UNCHANGED LV!viewVars
<1>1. UNCHANGED Known
    BY DEF Known, Same
<1>2. UNCHANGED Available
    BY DEF Available, Same
<1>3. UNCHANGED View
    BY DEF View
<1> QED BY <1>1, <1>2, <1>3 DEF LV!viewVars, Available, View

(* A step that changes one link as LinkView may. *)
LEMMA ViewMoves ==
    ASSUME NEW l \in Link, \A k \in Link \ {l} : Same(k) /\ (WillHave(k)' <=> WillHave(k)),
           \/ l \in Known' /\ WillHave(l)'
           \/ l \in Known /\ ~Up(l)' /\ ~WillHave(l)'
    PROVE  LV!Next
<1>1. Known \subseteq Link /\ Known' \subseteq Link /\ \A k \in Link \ {l} : k \in Known' <=> k \in Known
    BY DEF Known, Same
<1>2. /\ Available \subseteq Link /\ Available' \subseteq Link
      /\ \A k \in Link \ {l} : k \in Available' <=> k \in Available
      /\ l \in Available' <=> Up(l)'
    BY DEF Available, Same
<1>3. /\ View \subseteq Link /\ View' \subseteq Link
      /\ \A k \in Link \ {l} : k \in View' <=> k \in View
      /\ l \in View' <=> WillHave(l)'
    BY DEF View
<1>4. CASE l \in Known' /\ WillHave(l)'
  <2>1. /\ Known' = Known \union {l} /\ View' = View \union {l}
        /\ Available' \in {Available \union {l}, Available \ {l}}
    BY <1>1, <1>2, <1>3, <1>4
  <2>2. LV!Show(l)
    BY <2>1 DEF LV!Show, Available, View
  <2> QED BY <2>2 DEF LV!Next
<1>5. CASE l \in Known /\ ~Up(l)' /\ ~WillHave(l)'
  <2>1. Available' = Available \ {l} /\ View' = View \ {l}
    BY <1>2, <1>3, <1>5
  <2>2. CASE l \in Known'
    <3>1. Known' = Known
      BY <1>1, <1>5, <2>2
    <3>2. LV!Hide(l)
      BY <1>5, <2>1, <3>1 DEF LV!Hide, Available, View
    <3> QED BY <3>2 DEF LV!Next
  <2>3. CASE l \notin Known'
    <3>1. Known' = Known \ {l}
      BY <1>1, <2>3
    <3>2. LV!Forget(l)
      BY <1>5, <2>1, <3>1 DEF LV!Forget, Available, View
    <3> QED BY <3>2 DEF LV!Next
  <2> QED BY <2>2, <2>3
<1> QED BY <1>4, <1>5

(* What link discovery announces reaches the topology. *)
LEMMA AnnouncedStep ==
    ASSUME SysInv, Announced, UNCHANGED topoVars
    PROVE  NoGhostLinks' /\ NoMissingLinks' /\ [LV!Next]_LV!viewVars
<1>1. updates \in Seq(Update) /\ ldUpdates \in Seq(TM!LDUpdate)
    BY DEF SysInv, LinkInv, TypeOK
<1>2. switchPortLinks' = switchPortLinks /\ ldUpdates' = ldUpdates
    BY DEF topoVars
<1>3. \A l \in Link : (WillHave(l) => l \in Known) /\ (Up(l) => WillHave(l))
    BY DEF SysInv, NoGhostLinks, NoMissingLinks, Up
<1>4. ASSUME NEW u \in Update, updates' = Append(updates, u), NEW l
      PROVE  WillHave(l)' <=> IF Concerns(u, l) THEN u.op = "LINK_UPDATED" ELSE WillHave(l)
  <2> DEFINE has == l \in switchPortLinks[l.src]
  <2>1. u \in Waiting /\ Pending \in Seq(Waiting) /\ Pending' = Append(Pending, u)
    BY <1>1, <1>2, <1>4, PendingType DEF Pending, Waiting
  <2>2. WillHave(l)' <=> Decides(Append(Pending, u), has, l)
    BY <1>2, <2>1 DEF WillHave, Decides
  <2>3. has \in BOOLEAN
    OBVIOUS
  <2> HIDE DEF has
  <2>4. Decides(Append(Pending, u), has, l) <=>
           IF Concerns(u, l) THEN u.op = "LINK_UPDATED" ELSE Decides(Pending, has, l)
    BY <2>1, <2>3, DecideLast
  <2> QED BY <2>2, <2>4, WillHaveDecides DEF has
<1> DEFINE Goal == /\ \A l \in Link : (WillHave(l)' => l \in Known') /\ (Up(l)' => WillHave(l)')
                   /\ [LV!Next]_LV!viewVars
<1>5. Goal
  <2>1. CASE updates' = updates /\ \A k \in Link : Same(k)
    <3>1. \A l : WillHave(l)' <=> WillHave(l)
      BY <1>2, <2>1 DEF WillHave, Pending
    <3>2. UNCHANGED LV!viewVars
      BY <2>1, <3>1, ViewSame
    <3> QED BY <1>3, <2>1, <3>1, <3>2 DEF Same
  <2>2. CASE updates' = Append(updates, Notice) /\ \A k \in Link : Same(k)
    <3>1. Notice \in Update /\ \A l : ~Concerns(Notice, l)
      BY DEF Notice, Update, Concerns
    <3>2. \A l : WillHave(l)' <=> WillHave(l)
      BY <1>4, <2>2, <3>1
    <3>3. UNCHANGED LV!viewVars
      BY <2>2, <3>2, ViewSame
    <3> QED BY <1>3, <2>2, <3>2, <3>3 DEF Same
  <2>3. ASSUME NEW l \in Link, NEW op \in {"LINK_UPDATED", "LINK_REMOVED"},
               updates' = Append(updates, LinkUpdate(op, l)),
               \A k \in Link \ {l} : Same(k),
               IF op = "LINK_UPDATED" THEN l \in Known'
               ELSE ~Up(l)' /\ (l \in Known' => l \in Known)
        PROVE  Goal
    <3>1. LinkUpdate(op, l) \in Update /\ LinkUpdate(op, l).op = op
      BY DEF LinkUpdate, Update
    <3>2. \A k : Concerns(LinkUpdate(op, l), k) <=> k = l
      BY DEF LinkUpdate, Concerns
    <3>3. WillHave(l)' <=> op = "LINK_UPDATED"
      BY <1>4, <2>3, <3>1, <3>2
    <3>4. \A k \in Link \ {l} : WillHave(k)' <=> WillHave(k)
      BY <1>4, <2>3, <3>1, <3>2
    <3>5. \A k \in Link : (WillHave(k)' => k \in Known') /\ (Up(k)' => WillHave(k)')
      BY <1>3, <2>3, <3>3, <3>4 DEF Same
    <3>6. CASE op = "LINK_UPDATED" \/ l \in Known
      <4>1. \/ l \in Known' /\ WillHave(l)'
            \/ l \in Known /\ ~Up(l)' /\ ~WillHave(l)'
        BY <2>3, <3>3, <3>6
      <4>2. LV!Next
        BY <2>3, <3>4, <4>1, ViewMoves
      <4> QED BY <3>5, <4>2
    <3>7. CASE op = "LINK_REMOVED" /\ l \notin Known
      <4>1. l \notin Known' /\ ~Up(l) /\ ~Up(l)' /\ ~WillHave(l) /\ ~WillHave(l)'
        BY <1>3, <2>3, <3>3, <3>7 DEF Up
      <4>2. UNCHANGED LV!viewVars
        <5>1. Same(l)
          BY <3>7, <4>1 DEF Same
        <5> QED BY <2>3, <3>4, <4>1, <5>1, ViewSame
      <4> QED BY <3>5, <4>2
    <3> QED BY <3>6, <3>7
  <2> HIDE DEF Goal
  <2> QED BY <2>1, <2>2, <2>3 DEF Announced
<1> QED BY <1>5 DEF NoGhostLinks, NoMissingLinks, Up, Known

(* A step that leaves the links alone and what the queues decide. *)
LEMMA UndecidedStep ==
    ASSUME SysInv, UNCHANGED links, \A l \in Link : WillHave(l)' <=> WillHave(l)
    PROVE  NoGhostLinks' /\ NoMissingLinks' /\ UNCHANGED LV!viewVars
<1>1. UNCHANGED LV!viewVars
    BY SameLinks, ViewSame
<1> QED BY <1>1 DEF SysInv, NoGhostLinks, NoMissingLinks, Known

(* The update job hands an update over: it stays in its place. *)
LEMMA DeliverKeeps ==
    ASSUME SysInv, DeliverStep
    PROVE  SysInv' /\ UNCHANGED LV!viewVars
<1> DEFINE u == Head(updates)
           v == ToListener(u)
<1>1. /\ updates \in Seq(Update) /\ ldUpdates \in Seq(TM!LDUpdate) /\ updates # <<>>
      /\ u \in Update
    BY QueueType DEF SysInv, LinkInv, TypeOK, DeliverStep, DeliverUpdate
<1>2. /\ updates' = Tail(updates) /\ UNCHANGED <<links, switchPortLinks>>
      /\ ldUpdates' = Append(ldUpdates, v)
    BY DEF DeliverStep, DeliverUpdate, linkVars, TM!LinkDiscoveryUpdate, TM!structVars
<1>3. /\ v \in TM!LDUpdate /\ v.op = u.op
      /\ \A l : Concerns(v, l) <=> Concerns(u, l)
    BY <1>1 DEF ToListener, Update, Notice, TM!LDUpdate, TM!LinkType, Concerns
<1>4. LinkInv'
    BY DeliverJobStep DEF SysInv, DeliverStep
<1>5. ldUpdates' \in Seq(TM!LDUpdate)
    BY <1>1, <1>2, <1>3
<1>6. ASSUME NEW l PROVE WillHave(l)' <=> WillHave(l)
  <2> DEFINE q == Pending
             r == Append(ldUpdates, v) \o Tail(updates)
             has == l \in switchPortLinks[l.src]
  <2> HIDE DEF u, v
  <2>1. u = updates[1]
    BY <1>1 DEF u
  <2>2. /\ DOMAIN q = 1..(Len(ldUpdates) + Len(updates)) /\ DOMAIN r = DOMAIN q
        /\ \A i \in DOMAIN q : i = Len(ldUpdates) + 1 \/ r[i] = q[i]
        /\ r[Len(ldUpdates) + 1] = v /\ q[Len(ldUpdates) + 1] = u
    BY <1>1, <1>3, <2>1 DEF Pending
  <2>3. Pending' = r
    BY <1>2 DEF Pending
  <2> HIDE DEF q, r, has
  <2>4. Decides(q, has, l) <=> Decides(r, has, l)
    BY <1>3, <2>2, DecideAlike
  <2>5. WillHave(l)' <=> Decides(r, has, l)
    BY <1>2, <2>3 DEF WillHave, Decides, has
  <2> QED BY <2>4, <2>5, WillHaveDecides DEF q, has
<1> QED BY <1>2, <1>4, <1>5, <1>6, UndecidedStep DEF SysInv

(* The topology manager applies an update: what was to come has come. *)
LEMMA ApplyKeeps ==
    ASSUME SysInv, UNCHANGED vars, TM!ApplyUpdate
    PROVE  SysInv' /\ UNCHANGED LV!viewVars
<1> DEFINE u == Head(ldUpdates)
<1>1. /\ updates \in Seq(Update) /\ ldUpdates \in Seq(TM!LDUpdate) /\ ldUpdates # <<>>
      /\ u \in TM!LDUpdate /\ switchPortLinks \in [NodePort -> SUBSET Link]
    BY DEF SysInv, LinkInv, TypeOK, TM!ApplyUpdate
<1>2. /\ ldUpdates' = Tail(ldUpdates) /\ UNCHANGED <<links, updates>>
      /\ ldUpdates' \in Seq(TM!LDUpdate)
    BY <1>1 DEF TM!ApplyUpdate, vars, linkVars
<1>3. LinkInv'
    BY LinkStep DEF SysInv
<1>4. /\ switchPortLinks' \in [NodePort -> SUBSET Link]
      /\ \A l \in Link : l \in switchPortLinks'[l.src] <=>
            IF Concerns(u, l) THEN u.op = "LINK_UPDATED" ELSE l \in switchPortLinks[l.src]
  <2> HIDE DEF u
  <2>0. /\ u.op = "LINK_UPDATED" => TM!AddOrUpdateLink(u.link, u.type)
        /\ u.op = "LINK_REMOVED" => TM!RemoveLink(u.link)
        /\ u.op = "NOTICE" => UNCHANGED switchPortLinks
    BY DEF TM!ApplyUpdate, TM!structVars, u
  <2>1. CASE u.op = "LINK_UPDATED"
    <3>1. u.link \in Link /\ switchPortLinks' = TM!AddTo(switchPortLinks, u.link)
      BY <1>1, <2>0, <2>1 DEF TM!AddOrUpdateLink, TM!LDUpdate
    <3> QED BY <1>1, <2>1, <3>1, LinkAssumptions DEF TM!AddTo, TM!Ends, Concerns
  <2>2. CASE u.op = "LINK_REMOVED"
    <3>1. u.link \in Link /\ switchPortLinks' = TM!RemoveFrom(switchPortLinks, u.link)
      BY <1>1, <2>0, <2>2 DEF TM!RemoveLink, TM!LDUpdate
    <3> QED BY <1>1, <2>2, <3>1, LinkAssumptions DEF TM!RemoveFrom, TM!Ends, Concerns
  <2>3. CASE u.op = "NOTICE"
    BY <1>1, <2>0, <2>3 DEF Concerns
  <2> QED BY <1>1, <2>1, <2>2, <2>3 DEF TM!LDUpdate
<1>5. ASSUME NEW l \in Link PROVE WillHave(l)' <=> WillHave(l)
  <2> DEFINE had == l \in switchPortLinks[l.src]
             has == IF Concerns(u, l) THEN u.op = "LINK_UPDATED" ELSE had
  <2>1. /\ Pending \in Seq(Waiting) /\ Pending # <<>> /\ Head(Pending) = u
        /\ Pending' = Tail(Pending)
    <3>1. Pending' = Tail(ldUpdates) \o updates
      BY <1>2 DEF Pending
    <3> QED BY <1>1, <3>1, PendingType
  <2>2. (l \in switchPortLinks'[l.src]) = has
    BY <1>4
  <2>3. WillHave(l)' <=> Decides(Tail(Pending), has, l)
    <3>1. WillHave(l)' <=> Decides(Tail(Pending), l \in switchPortLinks'[l.src], l)
      BY <2>1 DEF WillHave, Decides
    <3> QED BY <2>2, <3>1
  <2>4. had \in BOOLEAN
    OBVIOUS
  <2>5. Decides(Pending, had, l) <=> Decides(Tail(Pending), has, l)
    <3> HIDE DEF had
    <3> QED BY <2>1, <2>4, DecideFirst
  <2> QED BY <2>3, <2>5, WillHaveDecides DEF had
<1> QED BY <1>2, <1>3, <1>4, <1>5, UndecidedStep DEF SysInv

(* At the start nothing is known and nothing on its way. *)
LEMMA SysInitial == SysInit => SysInv /\ LV!Init
<1> SUFFICES ASSUME SysInit PROVE SysInv /\ LV!Init
    OBVIOUS
<1>1. LinkInv
    BY LinkInit DEF SysInit
<1>2. /\ switchPortLinks = [n \in NodePort |-> {}] /\ ldUpdates = <<>>
      /\ updates = <<>> /\ Known = {}
    BY DEF SysInit, TM!TopoInit, TM!Empty, Init, Known
<1>3. \A l \in Link : ~WillHave(l)
  <2>1. DOMAIN Pending = {}
    BY <1>2 DEF Pending
  <2> QED BY <1>2, <2>1, LinkAssumptions DEF WillHave
<1>4. LV!Init
    BY <1>2, <1>3 DEF LV!Init, Up
<1> QED BY <1>1, <1>2, <1>3, <1>4 DEF SysInv, NoGhostLinks, NoMissingLinks

(* Every step keeps the invariant and is a step of LinkView or changes nothing   *)
(* of it.                                                                        *)
LEMMA SysStep == SysInv /\ [SysNext]_sysVars => SysInv' /\ [LV!Next]_LV!viewVars
<1> SUFFICES ASSUME SysInv, [SysNext]_sysVars PROVE SysInv' /\ [LV!Next]_LV!viewVars
    OBVIOUS
<1>0. /\ LinkInv /\ switchPortLinks \in [NodePort -> SUBSET Link]
      /\ ldUpdates \in Seq(TM!LDUpdate)
    BY DEF SysInv
<1>1. CASE QPStep \/ DiscoveryStep
  <2>1. UNCHANGED topoVars /\ Announced
    BY <1>0, <1>1, EnvironmentAnnounces, HandlerAnnounces, PurgeAnnounces, DiscoveryAnnounces
       DEF QPStep, DiscoveryStep, Thread
  <2>2. LinkInv'
    BY <1>0, <1>1, EnvironmentStep, HandlerStep, PurgeStep, DiscoveryJobStep
       DEF QPStep, DiscoveryStep, Thread
  <2>3. UNCHANGED <<switchPortLinks, ldUpdates>>
    BY <2>1 DEF topoVars
  <2> QED BY <1>0, <2>1, <2>2, <2>3, AnnouncedStep DEF SysInv
<1>2. CASE DeliverStep
    BY <1>2, DeliverKeeps
<1>3. CASE UNCHANGED <<vars, switchPortLinks, ldUpdates>>
  <2>1. \A l \in Link : WillHave(l)' <=> WillHave(l)
    BY <1>3 DEF WillHave, Pending, vars
  <2>2. LinkInv' /\ UNCHANGED links
    BY <1>0, <1>3, LinkStep DEF vars, linkVars
  <2> QED BY <1>0, <1>3, <2>1, <2>2, UndecidedStep DEF SysInv
<1>4. CASE TopologyStep
  <2>1. CASE TM!ApplyUpdate
    BY <1>4, <2>1, ApplyKeeps DEF TopologyStep
  <2>2. CASE TM!StartUpdateTopology \/ TM!CreateNewInstance
    BY <1>3, <1>4, <2>2 DEF TopologyStep, TM!StartUpdateTopology, TM!CreateNewInstance,
                            TM!structVars
  <2> QED BY <1>4, <2>1, <2>2 DEF TopologyStep, TM!UpdateTopology
<1>5. CASE UNCHANGED sysVars
    BY <1>3, <1>5 DEF sysVars, topoVars
<1> QED BY <1>1, <1>2, <1>4, <1>5 DEF SysNext

LEMMA SysInvHolds == SysSpec => []SysInv
<1> QED BY SysInitial, SysStep, PTL DEF SysSpec

(* The topology is never headed for a link that link discovery has forgotten:    *)
(* every removal from Links queues its LINK_REMOVED under the same lock, behind  *)
(* all that was said about the link before, and the update job and applyUpdates  *)
(* keep the order.                                                               *)
THEOREM NoGhostLinksHolds == SysSpec => []NoGhostLinks
<1>1. SysInv => NoGhostLinks
    BY DEF SysInv
<1> QED BY <1>1, SysInvHolds, PTL

(* A link recorded with both ports up is in the topology or on its way: whoever  *)
(* last wrote its LinkInfo (addOrUpdateLink, updatePortStatus) also queued       *)
(* LINK_UPDATED, and nothing about the link was queued since.                    *)
THEOREM NoMissingLinksHolds == SysSpec => []NoMissingLinks
<1>1. SysInv => NoMissingLinks
    BY DEF SysInv
<1> QED BY <1>1, SysInvHolds, PTL

(* The system implements LinkView: in the step of link discovery that finds,     *)
(* withdraws or forgets a link, the topology becomes headed for the same, since  *)
(* the update is queued under the lock of Links; to deliver and to apply updates *)
(* changes nothing of it.                                                        *)
THEOREM LinkViewHolds == SysSpec => ImplementsLinkView
<1> QED BY SysInitial, SysStep, PTL DEF SysSpec, ImplementsLinkView, LV!Spec

(* What LinkView promises, and so whoever implements it: nothing is shown that   *)
(* is not known, and whatever is up is shown.                                    *)
THEOREM LinkViewPromises == ImplementsLinkView => [](NoGhostLinks /\ NoMissingLinks)
<1> DEFINE Inv == Available \subseteq View /\ View \subseteq Known
<1>1. LV!Init => Inv
    BY DEF LV!Init, Available, View
<1>2. Inv /\ [LV!Next]_LV!viewVars => Inv'
  <2> SUFFICES ASSUME Inv, [LV!Next]_LV!viewVars PROVE Inv'
    OBVIOUS
  <2>1. ASSUME NEW l \in Link, LV!Show(l) \/ LV!Hide(l) \/ LV!Forget(l) PROVE Inv'
    <3>1. CASE LV!Show(l)
      <4>1. /\ Known' = Known \union {l} /\ View' = View \union {l}
            /\ Available' \in {Available \union {l}, Available \ {l}}
        BY <3>1 DEF LV!Show, Available, View
      <4> QED BY <4>1
    <3>2. CASE LV!Hide(l) \/ LV!Forget(l)
      <4>1. /\ Known' \in {Known, Known \ {l}}
            /\ View' = View \ {l} /\ Available' = Available \ {l}
        BY <3>2 DEF LV!Hide, LV!Forget, Available, View
      <4> QED BY <4>1
    <3> QED BY <2>1, <3>1, <3>2
  <2>2. CASE UNCHANGED LV!viewVars
    BY <2>2 DEF LV!viewVars, Available, View
  <2> QED BY <2>1, <2>2 DEF LV!Next
<1>3. Inv => NoGhostLinks /\ NoMissingLinks
    BY DEF Available, View, NoGhostLinks, NoMissingLinks, Up, Known
<1> HIDE DEF Inv
<1> QED BY <1>1, <1>2, <1>3, PTL DEF ImplementsLinkView, LV!Spec
=============================================================================
