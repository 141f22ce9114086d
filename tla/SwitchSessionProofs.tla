------------------------ MODULE SwitchSessionProofs ------------------------
(***************************************************************************)
(* Proofs about SwitchSession, for any switches, connections, watchers and *)
(* QP threads.  What ties the threads together is the status of the        *)
(* connection: a watcher at work on a connection keeps it running, a QP    *)
(* thread can only meet one that was running and may be closed by now, and *)
(* one that is not running yet is unknown to everybody.                    *)
(***************************************************************************)
EXTENDS SwitchSession, TLAPS

(* Connections that have been written to: running, or closed by now. *)
Opened == {c \in Conn : status[c] \in {"RUNNING", "CLOSED"}}

(* A watcher is at work on a running connection of its own. *)
ErrandsRun ==
    \A w \in Watcher : watcher[w].pc # "idle" =>
        /\ status[watcher[w].conn] = "RUNNING" /\ WatcherOf[watcher[w].conn] = w
        /\ watcher[w].pc = "transfer" => watcher[w].msgs # <<>>

(* What a QP thread has taken: something, unless it is waiting or dead; messages *)
(* of connections that were running when they were read.                         *)
Stands(b, opened) ==
    /\ b \in Batch
    /\ b.pc \notin {"idle", "dead"} => b.items # <<>>
    /\ \A i \in DOMAIN b.items : b.items[i].msgs # <<>> /\ b.items[i].conn \in opened

BatchesStand == \A q \in Queue : Stands(qp[q], Opened)

(* Nobody knows a connection that is not running yet. *)
FreshUnknown == \A c \in Conn : c \in id \/ c \in asked => c \in Opened

SessionInv == TypeOK /\ ErrandsRun /\ BatchesStand /\ FreshUnknown
-----------------------------------------------------------------------------
(* What is left of a sequence of two or more. *)
LEMMA LongTail ==
    ASSUME NEW S, NEW s \in Seq(S), s # <<>>, Len(s) # 1
    PROVE  /\ Tail(s) \in Seq(S) /\ Tail(s) # <<>>
           /\ \A i \in DOMAIN Tail(s) : i + 1 \in DOMAIN s /\ Tail(s)[i] = s[i + 1]
<1>0. Len(s) \in Nat /\ Len(s) # 0
    OBVIOUS
<1>1. Len(s) \in Nat /\ Len(s) >= 2
  <2>1. \A n \in Nat : n # 0 /\ n # 1 => n >= 2
    OBVIOUS
  <2> QED BY <1>0, <2>1
<1>2. Tail(s) \in Seq(S) /\ Len(Tail(s)) = Len(s) - 1
    BY <1>1
<1>3. Tail(s) # <<>>
    BY <1>1, <1>2
<1> QED BY <1>1, <1>2, <1>3

(* Items that may stand in a batch, and the batch of them. *)
Fit(s, opened) == \A i \in DOMAIN s : s[i].msgs # <<>> /\ s[i].conn \in opened

LEMMA BatchOf ==
    ASSUME NEW opened, NEW s \in Seq(Item), s # <<>>, Fit(s, opened),
           NEW p \in {"drain", "next"}
    PROVE  Stands([pc |-> p, items |-> s], opened)
BY DEF Stands, Batch, Fit

(* The batch of a QP thread after one of its steps. *)
LEMMA NextBatches ==
    ASSUME NEW opened, NEW b, Stands(b, opened)
    PROVE  /\ Stands(IdleQP, opened)
           /\ Stands([pc |-> "dead", items |-> <<>>], opened)
           /\ \A it \in Item : it.msgs # <<>> /\ it.conn \in opened =>
                 Stands([pc |-> "drain", items |-> Append(b.items, it)], opened)
           /\ b.items # <<>> =>
                 /\ \A p \in {"next", "process", "register", "put", "handshaked"} :
                       Stands([b EXCEPT !.pc = p], opened)
                 /\ Len(b.items) # 1 =>
                       Stands([pc |-> "next", items |-> Tail(b.items)], opened)
                 /\ Len(Head(b.items).msgs) # 1 =>
                       Stands([pc |-> "next",
                               items |-> <<[Head(b.items) EXCEPT !.msgs = Tail(@)]>>
                                         \o Tail(b.items)], opened)
<1>1. /\ b \in Batch /\ b.items \in Seq(Item)
      /\ b.pc \notin {"idle", "dead"} => b.items # <<>>
      /\ \A i \in DOMAIN b.items : b.items[i].msgs # <<>> /\ b.items[i].conn \in opened
    BY DEF Stands, Batch
<1>2. <<>> \in Seq(Item)
    OBVIOUS
<1>3. Stands(IdleQP, opened) /\ Stands([pc |-> "dead", items |-> <<>>], opened)
    BY <1>2 DEF Stands, IdleQP, Batch
<1>4. ASSUME NEW it \in Item, it.msgs # <<>>, it.conn \in opened
      PROVE  Stands([pc |-> "drain", items |-> Append(b.items, it)], opened)
  <2>1. /\ Append(b.items, it) \in Seq(Item) /\ Append(b.items, it) # <<>>
        /\ DOMAIN Append(b.items, it) = 1..(Len(b.items) + 1)
        /\ DOMAIN b.items = 1..Len(b.items) /\ Len(b.items) \in Nat
        /\ \A i \in 1..(Len(b.items) + 1) :
              Append(b.items, it)[i] = IF i = Len(b.items) + 1 THEN it ELSE b.items[i]
    BY <1>1
  <2>2. Fit(Append(b.items, it), opened)
    BY <1>1, <1>4, <2>1 DEF Fit
  <2> QED BY <2>1, <2>2, BatchOf
<1>5. ASSUME b.items # <<>>, NEW p \in {"next", "process", "register", "put", "handshaked"}
      PROVE  Stands([b EXCEPT !.pc = p], opened)
    BY <1>1, <1>5 DEF Stands, Batch
<1>6. ASSUME b.items # <<>>, Len(b.items) # 1
      PROVE  Stands([pc |-> "next", items |-> Tail(b.items)], opened)
  <2>1. /\ Tail(b.items) \in Seq(Item) /\ Tail(b.items) # <<>>
        /\ \A i \in DOMAIN Tail(b.items) : i + 1 \in DOMAIN b.items /\ Tail(b.items)[i] = b.items[i + 1]
    BY <1>1, <1>6, LongTail
  <2>2. Fit(Tail(b.items), opened)
    BY <1>1, <2>1 DEF Fit
  <2> QED BY <2>1, <2>2, BatchOf
<1>7. ASSUME b.items # <<>>, Len(Head(b.items).msgs) # 1
      PROVE  Stands([pc |-> "next",
                     items |-> <<[Head(b.items) EXCEPT !.msgs = Tail(@)]>> \o Tail(b.items)],
                    opened)
  <2> DEFINE head == [Head(b.items) EXCEPT !.msgs = Tail(@)]
             s == <<head>> \o Tail(b.items)
  <2>1. /\ 1 \in DOMAIN b.items /\ b.items[1] \in Item /\ Head(b.items) = b.items[1]
        /\ b.items[1].msgs # <<>> /\ b.items[1].conn \in opened
    BY <1>1, <1>7
  <2>2. /\ Tail(b.items[1].msgs) \in Seq(Message) /\ Tail(b.items[1].msgs) # <<>>
    <3>1. PICK m \in Seq(Message) : m = b.items[1].msgs
      BY <2>1 DEF Item
    <3>2. m # <<>> /\ Len(m) # 1
      BY <1>7, <2>1, <3>1
    <3>3. Tail(m) \in Seq(Message) /\ Tail(m) # <<>>
      BY <3>2, LongTail
    <3> QED BY <3>1, <3>3
  <2>3. head \in Item /\ head.msgs # <<>> /\ head.conn \in opened
    BY <2>1, <2>2 DEF Item
  <2>4. /\ Tail(b.items) \in Seq(Item)
        /\ \A i \in DOMAIN Tail(b.items) :
              Tail(b.items)[i].msgs # <<>> /\ Tail(b.items)[i].conn \in opened
    BY <1>1, <1>7
  <2> HIDE DEF head
  <2>5. s \in Seq(Item) /\ s # <<>> /\ Fit(s, opened)
    BY <2>3, <2>4 DEF Fit
  <2> HIDE DEF s
  <2>6. Stands([pc |-> "next", items |-> s], opened)
    BY <2>5, BatchOf
  <2> QED BY <2>6 DEF s, head
<1> QED BY <1>3, <1>4, <1>5, <1>6, <1>7

(* A QP thread that drops an item or a message, goes on or dies. *)
LEMMA QueueMoves ==
    ASSUME SessionInv, NEW q \in Queue, qp[q].items # <<>>,
           \/ DropItem(q) \/ DropMessage(q) \/ Dies(q)
           \/ \E p \in {"next", "process", "register", "put", "handshaked"} : Goto(q, p)
    PROVE  \E b : Stands(b, Opened) /\ qp' = [qp EXCEPT ![q] = b]
<1>1. Stands(qp[q], Opened)
    BY DEF SessionInv, BatchesStand
<1>2. DropItem(q) => \E b : Stands(b, Opened) /\ qp' = [qp EXCEPT ![q] = b]
  <2> SUFFICES ASSUME DropItem(q) PROVE \E b : Stands(b, Opened) /\ qp' = [qp EXCEPT ![q] = b]
    OBVIOUS
  <2>1. CASE Len(qp[q].items) = 1
    BY <1>1, <2>1, NextBatches DEF DropItem
  <2>2. CASE Len(qp[q].items) # 1
    BY <1>1, <2>2, NextBatches DEF DropItem
  <2> QED BY <2>1, <2>2
<1>3. DropMessage(q) => \E b : Stands(b, Opened) /\ qp' = [qp EXCEPT ![q] = b]
  <2> SUFFICES ASSUME DropMessage(q) PROVE \E b : Stands(b, Opened) /\ qp' = [qp EXCEPT ![q] = b]
    OBVIOUS
  <2>1. CASE Len(item(q).msgs) = 1
    BY <1>2, <2>1 DEF DropMessage
  <2>2. CASE Len(item(q).msgs) # 1
    <3> DEFINE b == [pc |-> "next",
                     items |-> <<[item(q) EXCEPT !.msgs = Tail(@)]>> \o Tail(qp[q].items)]
    <3>1. Stands(b, Opened)
      BY <1>1, <2>2, NextBatches DEF item
    <3>2. qp' = [qp EXCEPT ![q] = b]
      BY <2>2 DEF DropMessage
    <3> HIDE DEF b
    <3> QED BY <3>1, <3>2
  <2> QED BY <2>1, <2>2
<1>4. Dies(q) => \E b : Stands(b, Opened) /\ qp' = [qp EXCEPT ![q] = b]
    BY <1>1, NextBatches DEF Dies
<1>5. \A p \in {"next", "process", "register", "put", "handshaked"} :
         Goto(q, p) => \E b : Stands(b, Opened) /\ qp' = [qp EXCEPT ![q] = b]
    BY <1>1, NextBatches DEF Goto
<1> QED BY <1>2, <1>3, <1>4, <1>5

(* A step of a QP thread that leaves watchers and statuses alone. *)
LEMMA QueueStep ==
    ASSUME SessionInv, NEW q \in Queue, NEW b, Stands(b, Opened),
           qp' = [qp EXCEPT ![q] = b], UNCHANGED <<status, watcher, peerVars, hello>>,
           switches' \in [Dpid -> Conn \union {NoConn}],
           helloFailedSwitches' \subseteq Host, registered' \in BOOLEAN,
           asked' \subseteq asked \union Opened, id' \subseteq id \union Opened
    PROVE  SessionInv'
<1>1. Opened' = Opened /\ Opened \subseteq Conn
    BY DEF Opened
<1>2. qp' \in [Queue -> Batch] /\ BatchesStand'
    BY <1>1 DEF SessionInv, TypeOK, BatchesStand, Stands
<1>3. TypeOK'
    BY <1>1, <1>2 DEF SessionInv, TypeOK, peerVars
<1>4. ErrandsRun'
    BY DEF SessionInv, ErrandsRun
<1>5. FreshUnknown'
    BY <1>1 DEF SessionInv, FreshUnknown
<1> QED BY <1>2, <1>3, <1>4, <1>5 DEF SessionInv
-----------------------------------------------------------------------------
LEMMA SessionInit == Init => SessionInv
<1> SUFFICES ASSUME Init PROVE SessionInv
    OBVIOUS
<1>1. IdleQP \in Batch /\ Idle \in Errand /\ <<>> \in Seq(Message)
    BY DEF IdleQP, Idle, Batch, Errand
<1>2. TypeOK
    BY <1>1 DEF Init, TypeOK
<1>3. ErrandsRun /\ FreshUnknown
    BY DEF Init, ErrandsRun, FreshUnknown, Idle
<1>4. BatchesStand
    BY <1>1 DEF Init, BatchesStand, Stands, IdleQP
<1> QED BY <1>2, <1>3, <1>4 DEF SessionInv

(* The switches: they connect, send and hang up; closed connections that left no *)
(* trace are forgotten.                                                          *)
LEMMA SwitchStep ==
    ASSUME SessionInv, NEW c \in Conn,
           Accept(c) \/ Forget(c) \/ HangUp(c) \/ \E m \in Message : SwitchSends(c, m)
    PROVE  SessionInv'
<1>t. /\ status \in [Conn -> {"none", "CONNECTED", "RUNNING", "CLOSED"}]
      /\ inbox \in [Conn -> Seq(Message)] /\ answered \in [Conn -> SUBSET Message]
      /\ qp \in [Queue -> Batch] /\ watcher \in [Watcher -> Errand]
    BY DEF SessionInv, TypeOK
<1>1. CASE Accept(c)
  <2>1. TypeOK'
    BY <1>1 DEF Accept, SessionInv, TypeOK, peerVars, ctrlVars
  <2>2. Opened' = Opened
    BY <1>1, <1>t DEF Accept, Opened
  <2>3. BatchesStand' /\ FreshUnknown'
    BY <1>1, <2>2 DEF Accept, SessionInv, BatchesStand, FreshUnknown
  <2>4. ErrandsRun'
    BY <1>1, <1>t DEF Accept, SessionInv, ErrandsRun
  <2> QED BY <2>1, <2>3, <2>4 DEF SessionInv
<1>2. CASE Forget(c)
  <2>1. TypeOK'
    BY <1>2 DEF Forget, SessionInv, TypeOK, ctrlVars
  <2>2. Opened' = Opened \ {c}
    BY <1>2, <1>t DEF Forget, Opened
  <2>3. FreshUnknown'
    BY <1>2, <2>2 DEF Forget, SessionInv, FreshUnknown
  <2>4. ASSUME NEW q \in Queue PROVE Stands(qp'[q], Opened')
    <3>1. \A i \in DOMAIN qp[q].items : qp[q].items[i].conn # c
      BY <1>2 DEF Forget, InWork
    <3> QED BY <1>2, <2>2, <3>1 DEF Forget, SessionInv, BatchesStand, Stands
  <2>5. ErrandsRun'
    BY <1>2, <1>t DEF Forget, SessionInv, ErrandsRun
  <2> QED BY <2>1, <2>3, <2>4, <2>5 DEF SessionInv, BatchesStand
<1>3. CASE UNCHANGED <<connVars, ctrlVars, watcher, qp>> /\ TypeOK'
    BY <1>3 DEF connVars, SessionInv, ErrandsRun, BatchesStand, FreshUnknown, Opened
<1>4. ASSUME NEW m \in Message, SwitchSends(c, m) PROVE SessionInv'
  <2>1. Append(inbox[c], m) \in Seq(Message) /\ answered[c] \union {m} \in SUBSET Message
    BY <1>t
  <2>2. TypeOK'
    BY <1>4, <1>t, <2>1 DEF SwitchSends, SessionInv, TypeOK, connVars, ctrlVars
  <2> QED BY <1>3, <1>4, <2>2 DEF SwitchSends
<1>5. CASE HangUp(c)
  <2>1. TypeOK'
    BY <1>5 DEF HangUp, SessionInv, TypeOK, connVars, ctrlVars
  <2> QED BY <1>3, <1>5, <2>1 DEF HangUp
<1> QED BY <1>1, <1>2, <1>4, <1>5

(* ClientChannelWatcher.run. *)
LEMMA WatcherKeeps == \A w \in Watcher : SessionInv /\ WatcherStep(w) => SessionInv'
<1> SUFFICES ASSUME NEW w \in Watcher, SessionInv, WatcherStep(w) PROVE SessionInv'
    OBVIOUS
<1>t. /\ status \in [Conn -> {"none", "CONNECTED", "RUNNING", "CLOSED"}]
      /\ hello \in [Conn -> {"none", "OF_10", "OF_13"}]
      /\ inbox \in [Conn -> Seq(Message)] /\ watcher \in [Watcher -> Errand]
      /\ watcher[w] \in Errand /\ switches \in [Dpid -> Conn \union {NoConn}]
      /\ helloFailedSwitches \subseteq Host
    BY DEF SessionInv, TypeOK
<1>1. ASSUME NEW c \in Conn, WatcherOf[c] = w, Connected(c) PROVE SessionInv'
  <2>1. /\ watcher[w] = Idle /\ status[c] = "CONNECTED"
        /\ status' = [status EXCEPT ![c] = "RUNNING"]
        /\ UNCHANGED <<peerVars, asked, id, switches, registered, watcher, qp>>
        /\ hello' \in [Conn -> {"none", "OF_10", "OF_13"}]
        /\ helloFailedSwitches' \subseteq Host
    <3>1. HostOfConn(c) \in Host
      BY SessionAssumptions DEF HostOfConn
    <3> QED BY <1>1, <1>t, <3>1 DEF Connected
  <2>2. TypeOK'
    BY <2>1 DEF SessionInv, TypeOK, peerVars
  <2>3. Opened' = Opened \union {c}
    BY <1>t, <2>1 DEF Opened
  <2>4. BatchesStand' /\ FreshUnknown'
    BY <2>1, <2>3 DEF SessionInv, BatchesStand, Stands, FreshUnknown
  <2>5. ErrandsRun'
    BY <1>t, <2>1 DEF SessionInv, ErrandsRun
  <2> QED BY <2>2, <2>4, <2>5 DEF SessionInv
<1>2. ASSUME NEW c \in Conn, WatcherOf[c] = w, Read(c) PROVE SessionInv'
  <2> DEFINE e == [pc |-> "transfer", conn |-> c, msgs |-> inbox[c]]
  <2>1. e \in Errand
    BY <1>t DEF Errand
  <2>2. /\ status[c] = "RUNNING" /\ inbox[c] # <<>>
        /\ watcher' = [watcher EXCEPT ![w] = e] /\ inbox' = [inbox EXCEPT ![c] = <<>>]
        /\ UNCHANGED <<cut, answered, connVars, ctrlVars, qp>>
    BY <1>2 DEF Read
  <2>3. TypeOK'
    BY <2>1, <2>2 DEF SessionInv, TypeOK, connVars, ctrlVars
  <2>4. ErrandsRun'
    BY <1>2, <1>t, <2>2 DEF connVars, SessionInv, ErrandsRun
  <2>5. BatchesStand' /\ FreshUnknown'
    BY <2>2 DEF connVars, SessionInv, BatchesStand, FreshUnknown, Opened
  <2> QED BY <2>3, <2>4, <2>5 DEF SessionInv
<1>3. ASSUME NEW c \in Conn, WatcherOf[c] = w, ReadFails(c) PROVE SessionInv'
  <2> DEFINE e == [pc |-> "disconnect", conn |-> c]
  <2>1. e \in Errand
    BY DEF Errand
  <2>2. /\ status[c] = "RUNNING" /\ watcher' = [watcher EXCEPT ![w] = e]
        /\ UNCHANGED <<peerVars, connVars, ctrlVars, qp>>
    BY <1>3 DEF ReadFails
  <2>3. TypeOK'
    BY <2>1, <2>2 DEF SessionInv, TypeOK, peerVars, connVars, ctrlVars
  <2>4. ErrandsRun'
    BY <1>3, <1>t, <2>2 DEF connVars, SessionInv, ErrandsRun
  <2>5. BatchesStand' /\ FreshUnknown'
    BY <2>2 DEF connVars, SessionInv, BatchesStand, FreshUnknown, Opened
  <2> QED BY <2>3, <2>4, <2>5 DEF SessionInv
<1>4. CASE HandleDisconnectEvent(w)
  <2> DEFINE e == [watcher[w] EXCEPT !.pc = "close"]
             c == watcher[w].conn
  <2>1. /\ watcher[w].pc = "disconnect" /\ watcher' = [watcher EXCEPT ![w] = e]
        /\ UNCHANGED <<peerVars, connVars, helloFailedSwitches, registered, qp>>
        /\ switches' = WithoutSwitch(c)
    BY <1>4 DEF HandleDisconnectEvent
  <2>2. watcher[w] \in [pc : {"disconnect", "close"}, conn : Conn]
    BY <1>t, <2>1 DEF Errand, Idle
  <2>3. e \in Errand /\ e.pc = "close" /\ e.conn = c
    BY <2>2 DEF Errand
  <2>4. switches' \in [Dpid -> Conn \union {NoConn}]
    BY <1>t, <2>1 DEF WithoutSwitch
  <2> HIDE DEF e
  <2>5. TypeOK'
    BY <2>1, <2>3, <2>4 DEF SessionInv, TypeOK, peerVars, connVars
  <2>6. ErrandsRun'
    BY <1>t, <2>1, <2>3 DEF connVars, SessionInv, ErrandsRun
  <2>7. BatchesStand' /\ FreshUnknown'
    BY <2>1 DEF connVars, SessionInv, BatchesStand, FreshUnknown, Opened
  <2> QED BY <2>5, <2>6, <2>7 DEF SessionInv
<1>5. CASE Close(w)
  <2> DEFINE c == watcher[w].conn
  <2>1. /\ watcher[w].pc = "close" /\ watcher' = [watcher EXCEPT ![w] = Idle]
        /\ status' = [status EXCEPT ![c] = "CLOSED"]
        /\ UNCHANGED <<peerVars, hello, asked, id, ctrlVars, qp>>
    BY <1>5 DEF Close
  <2>2. c \in Conn
    BY <1>t, <2>1 DEF Errand, Idle
  <2>3. status[c] = "RUNNING" /\ \A v \in Watcher \ {w} : watcher[v].pc # "idle" => watcher[v].conn # c
    BY <2>1 DEF SessionInv, ErrandsRun
  <2>4. TypeOK'
    BY <2>1, <2>2 DEF SessionInv, TypeOK, peerVars, ctrlVars, Errand
  <2>5. Opened' = Opened
    BY <1>t, <2>1, <2>2, <2>3 DEF Opened
  <2>6. BatchesStand' /\ FreshUnknown'
    BY <2>1, <2>5 DEF SessionInv, BatchesStand, FreshUnknown
  <2>7. ErrandsRun'
    <3> HIDE DEF c
    <3>1. \A v \in Watcher \ {w} : watcher'[v] = watcher[v]
      BY <1>t, <2>1
    <3>2. watcher'[w].pc = "idle"
      BY <1>t, <2>1 DEF Idle
    <3>3. \A d \in Conn \ {c} : status'[d] = status[d]
      BY <1>t, <2>1
    <3>4. \A v \in Watcher : watcher[v].pc # "idle" => watcher[v].conn \in Conn
      BY <1>t DEF Errand, Idle
    <3> QED BY <2>3, <3>1, <3>2, <3>3, <3>4 DEF SessionInv, ErrandsRun
  <2> QED BY <2>4, <2>6, <2>7 DEF SessionInv
<1> QED BY <1>1, <1>2, <1>3, <1>4, <1>5 DEF WatcherStep

(* QP.run and OFProtocol. *)
LEMMA QPKeeps == \A q \in Queue : SessionInv /\ QPStep(q) => SessionInv'
<1> SUFFICES ASSUME NEW q \in Queue, SessionInv, QPStep(q) PROVE SessionInv'
    OBVIOUS
<1>t. /\ switches \in [Dpid -> Conn \union {NoConn}] /\ registered \in BOOLEAN
      /\ helloFailedSwitches \subseteq Host /\ Stands(qp[q], Opened)
      /\ watcher \in [Watcher -> Errand]
    BY DEF SessionInv, TypeOK, BatchesStand
<1>1. ASSUME NEW w \in Watcher, Take(q, w) PROVE SessionInv'
  <2> DEFINE it == [conn |-> watcher[w].conn, msgs |-> watcher[w].msgs]
             b == [pc |-> "drain", items |-> Append(qp[q].items, it)]
  <2>1. /\ watcher[w].pc = "transfer" /\ watcher' = [watcher EXCEPT ![w] = Idle]
        /\ qp' = [qp EXCEPT ![q] = b]
        /\ UNCHANGED <<peerVars, connVars, ctrlVars>>
    BY <1>1 DEF Take
  <2>2. /\ it \in Item /\ it.msgs # <<>> /\ it.conn \in Opened
    BY <1>t, <2>1 DEF Errand, Idle, Item, SessionInv, ErrandsRun, Opened
  <2> HIDE DEF it
  <2>3. Stands(b, Opened)
    BY <1>t, <2>2, NextBatches
  <2> HIDE DEF b
  <2>4. Opened' = Opened
    BY <2>1 DEF Opened, connVars
  <2>5. TypeOK'
    BY <2>1, <2>3 DEF SessionInv, TypeOK, peerVars, connVars, ctrlVars, Errand, Stands
  <2>6. BatchesStand'
    BY <2>1, <2>3, <2>4 DEF SessionInv, TypeOK, BatchesStand
  <2>7. ErrandsRun'
    BY <1>t, <2>1 DEF connVars, SessionInv, ErrandsRun, Idle
  <2>8. FreshUnknown'
    BY <2>1, <2>4 DEF connVars, SessionInv, FreshUnknown
  <2> QED BY <2>5, <2>6, <2>7, <2>8 DEF SessionInv
<1>2. CASE Drained(q)
  <2>1. qp[q].items # <<>> /\ Goto(q, "next")
    BY <1>2, <1>t DEF Drained, Goto, Stands
  <2>2. PICK b : Stands(b, Opened) /\ qp' = [qp EXCEPT ![q] = b]
    BY <2>1, QueueMoves
  <2> QED BY <1>2, <1>t, <2>2, QueueStep DEF Drained, connVars, ctrlVars
<1>3. CASE ~(\E w \in Watcher : Take(q, w)) /\ ~Drained(q)
  <2> DEFINE c == item(q).conn
  <2>1. qp[q].items # <<>>
    BY <1>3, <1>t DEF QPStep, CheckConnected, ProcessHello, ProcessPacketIn,
                      ProcessFeaturesReply, GetSwitch, AddSwitch, Handshaked, Stands
  <2>2. c \in Opened /\ c \in Conn
    BY <1>t, <2>1 DEF item, Stands, Batch, Opened
  <2>3. \/ DropItem(q) \/ DropMessage(q) \/ Dies(q)
        \/ \E p \in {"next", "process", "register", "put", "handshaked"} : Goto(q, p)
    BY <1>3 DEF QPStep, CheckConnected, ProcessHello, ProcessPacketIn,
                ProcessFeaturesReply, GetSwitch, AddSwitch, Handshaked
  <2>4. PICK b : Stands(b, Opened) /\ qp' = [qp EXCEPT ![q] = b]
    BY <2>1, <2>3, QueueMoves
  <2>5. /\ UNCHANGED <<status, watcher, peerVars, hello>>
        /\ switches' = switches \/ switches' = [switches EXCEPT ![DpidOf[c]] = c]
        /\ helloFailedSwitches' \subseteq Host /\ registered' \in BOOLEAN
        /\ asked' \subseteq asked \union {c} /\ id' \subseteq id \union {c}
    BY <1>3, <1>t DEF QPStep, CheckConnected, ProcessHello, ProcessPacketIn,
                      ProcessFeaturesReply, GetSwitch, AddSwitch, Handshaked, connVars, ctrlVars, Dies
  <2>6. /\ switches' \in [Dpid -> Conn \union {NoConn}]
        /\ asked' \subseteq asked \union Opened /\ id' \subseteq id \union Opened
    BY <1>t, <2>2, <2>5
  <2> QED BY <2>4, <2>5, <2>6, QueueStep
<1> QED BY <1>1, <1>2, <1>3

LEMMA SessionStep == SessionInv /\ [Next]_vars => SessionInv'
<1>1. SessionInv /\ UNCHANGED vars => SessionInv'
    BY DEF vars, peerVars, connVars, ctrlVars, SessionInv, TypeOK, ErrandsRun, BatchesStand,
           Stands, FreshUnknown, Opened
<1> QED BY <1>1, SwitchStep, WatcherKeeps, QPKeeps DEF Next

LEMMA SessionInvHolds == Spec => []SessionInv
<1> QED BY SessionInit, SessionStep, PTL DEF Spec

(* Connections, watchers and QP threads keep their types: no QP thread takes an  *)
(* item off an empty batch or a message off an empty item.                       *)
THEOREM SessionTypeCorrect == Spec => []TypeOK
<1>1. SessionInv => TypeOK
    BY DEF SessionInv
<1> QED BY <1>1, SessionInvHolds, PTL
-----------------------------------------------------------------------------
(* A switch has one open connection here at a time.  Neither TcpServer nor        *)
(* OFController enforces it: it holds when no switch connects anew before its    *)
(* old connection has been closed.                                               *)
OneAtATime ==
    \A b, c \in Conn : b # c /\ DpidOf[b] = DpidOf[c] =>
        ~(status[b] \in {"CONNECTED", "RUNNING"} /\ status[c] \in {"CONNECTED", "RUNNING"})

LEMMA OneAtATimeStep ==
    ASSUME ~Overlap, SessionInv, OneAtATime, [Next]_vars
    PROVE  OneAtATime'
<1>t. /\ status \in [Conn -> {"none", "CONNECTED", "RUNNING", "CLOSED"}]
      /\ watcher \in [Watcher -> Errand]
    BY DEF SessionInv, TypeOK
<1>1. ASSUME NEW c \in Conn, Accept(c) PROVE OneAtATime'
    BY <1>1, <1>t DEF Accept, OneAtATime
<1>2. ASSUME NEW c \in Conn, Forget(c) PROVE OneAtATime'
    BY <1>2, <1>t DEF Forget, OneAtATime
<1>3. ASSUME NEW c \in Conn, Connected(c) PROVE OneAtATime'
    BY <1>3, <1>t DEF Connected, OneAtATime
<1>4. ASSUME NEW w \in Watcher, Close(w) PROVE OneAtATime'
    BY <1>4, <1>t DEF Close, OneAtATime
<1>5. CASE UNCHANGED status
    BY <1>5 DEF OneAtATime
<1> QED BY <1>1, <1>2, <1>3, <1>4, <1>5
        DEF Next, WatcherStep, QPStep, HangUp, SwitchSends, Read, ReadFails,
            HandleDisconnectEvent, Take, Drained, CheckConnected, ProcessHello, ProcessPacketIn,
            ProcessFeaturesReply, GetSwitch, AddSwitch, Handshaked, vars, connVars

(* A QP thread takes the messages of a switch's connections in the order of the *)
(* connections: it has none of an older connection left once the switch has      *)
(* identified itself over the connection it has now.                             *)
InOrder(q) ==
    LET conn(i) == qp[q].items[i].conn
    IN  /\ \A i \in DOMAIN qp[q].items : QueueOf[conn(i)] = q
        /\ \A i, j \in DOMAIN qp[q].items :
              i < j /\ DpidOf[conn(i)] = DpidOf[conn(j)] /\ status[conn(i)] = "RUNNING" =>
                 conn(i) = conn(j)
        /\ \A c \in Conn, i \in DOMAIN qp[q].items :
              c \in id /\ status[c] = "RUNNING" /\ QueueOf[c] = q /\ DpidOf[conn(i)] = DpidOf[c] =>
                 conn(i) = c

QueuesInOrder == \A q \in Queue : InOrder(q)

(* A QP thread that takes nothing keeps the order of its items: it may drop the  *)
(* first one, or some of its messages, or all.                                   *)
LEMMA ItemsStay ==
    ASSUME SessionInv, NEW q \in Queue, qp[q].items # <<>>,
           \/ DropItem(q) \/ DropMessage(q) \/ Dies(q)
           \/ \E p \in {"next", "process", "register", "put", "handshaked"} : Goto(q, p)
    PROVE  \E k \in {0, 1} : \A i \in DOMAIN qp'[q].items :
              /\ i \in Nat /\ i + k \in DOMAIN qp[q].items
              /\ qp'[q].items[i].conn = qp[q].items[i + k].conn
<1> DEFINE Stay == \E k \in {0, 1} : \A i \in DOMAIN qp'[q].items :
                     /\ i \in Nat /\ i + k \in DOMAIN qp[q].items
                     /\ qp'[q].items[i].conn = qp[q].items[i + k].conn
           s == qp[q].items
<1>t. qp \in [Queue -> Batch] /\ qp[q] \in Batch /\ s \in Seq(Item) /\ s # <<>>
    BY DEF SessionInv, TypeOK, Batch
<1>1. \A p \in {"next", "process", "register", "put", "handshaked"} : Goto(q, p) => Stay
  <2> SUFFICES ASSUME NEW p \in {"next", "process", "register", "put", "handshaked"}, Goto(q, p)
               PROVE  Stay
    OBVIOUS
  <2>1. qp'[q].items = s
    BY <1>t DEF Goto, Batch
  <2>2. \A i \in DOMAIN s : i \in Nat /\ i + 0 = i
    BY <1>t
  <2> QED BY <2>1, <2>2
<1>2. qp'[q].items = <<>> => Stay
    OBVIOUS
<1>3. DropItem(q) => Stay
  <2>1. CASE Len(s) = 1
    BY <1>t, <1>2, <2>1 DEF DropItem, IdleQP
  <2>2. CASE Len(s) # 1
    <3>1. \A i \in DOMAIN Tail(s) : i \in Nat /\ i + 1 \in DOMAIN s /\ Tail(s)[i] = s[i + 1]
      BY <1>t, <2>2, LongTail
    <3>2. DropItem(q) => qp'[q].items = Tail(s)
      BY <1>t, <2>2 DEF DropItem
    <3> QED BY <3>1, <3>2
  <2> QED BY <2>1, <2>2
<1>4. DropMessage(q) => Stay
  <2>1. CASE Len(item(q).msgs) = 1
    BY <1>3, <2>1 DEF DropMessage
  <2>2. CASE Len(item(q).msgs) # 1
    <3> DEFINE head == [item(q) EXCEPT !.msgs = Tail(@)]
    <3>1. head.conn = s[1].conn
      <4>1. s[1] \in Item /\ item(q) = s[1]
        BY <1>t DEF item
      <4> QED BY <4>1 DEF Item
    <3>2. DropMessage(q) => qp' = [qp EXCEPT ![q] = [pc |-> "next", items |-> <<head>> \o Tail(s)]]
      BY <2>2 DEF DropMessage
    <3> HIDE DEF head
    <3>4. DropMessage(q) => qp'[q].items = <<head>> \o Tail(s)
      BY <1>t, <3>2
    <3>3. \A i \in DOMAIN (<<head>> \o Tail(s)) :
             /\ i \in Nat /\ i + 0 \in DOMAIN s
             /\ (<<head>> \o Tail(s))[i].conn = s[i + 0].conn
      BY <1>t, <3>1
    <3> QED BY <3>3, <3>4
  <2> QED BY <2>1, <2>2
<1>5. Dies(q) => Stay
    BY <1>t, <1>2 DEF Dies
<1> QED BY <1>1, <1>3, <1>4, <1>5

(* The steps of the QP threads keep the order ...                                *)
LEMMA OrderQPStep ==
    ASSUME SessionInv, OneAtATime, QueuesInOrder, NEW q \in Queue, QPStep(q)
    PROVE  QueuesInOrder'
<1>t. /\ qp \in [Queue -> Batch] /\ watcher \in [Watcher -> Errand]
      /\ Stands(qp[q], Opened) /\ qp[q].items \in Seq(Item)
      /\ \A i \in DOMAIN qp[q].items : i \in Nat /\ qp[q].items[i].conn \in Conn
  <2>1. /\ qp \in [Queue -> Batch] /\ watcher \in [Watcher -> Errand]
        /\ Stands(qp[q], Opened) /\ qp[q].items \in Seq(Item)
    BY DEF SessionInv, TypeOK, BatchesStand, Batch
  <2>2. \A i \in DOMAIN qp[q].items : i \in Nat /\ qp[q].items[i] \in Item
    BY <2>1
  <2> QED BY <2>1, <2>2 DEF Item
<1>0. UNCHANGED status /\ \A r \in Queue \ {q} : qp'[r] = qp[r]
    BY <1>t DEF QPStep, Take, Drained, CheckConnected, ProcessHello, ProcessPacketIn,
           ProcessFeaturesReply, GetSwitch, AddSwitch, Handshaked, connVars,
           Goto, DropItem, DropMessage, Dies
<1>1. ASSUME NEW w \in Watcher, Take(q, w) PROVE QueuesInOrder'
  <2> DEFINE c == watcher[w].conn
             it == [conn |-> c, msgs |-> watcher[w].msgs]
             s == qp[q].items
  <2>1. /\ watcher[w].pc = "transfer" /\ QueueOf[c] = q /\ UNCHANGED id
        /\ qp'[q].items = Append(s, it)
    BY <1>1, <1>t DEF Take, connVars
  <2>2. c \in Conn /\ status[c] = "RUNNING"
    BY <1>t, <2>1 DEF Errand, Idle, SessionInv, ErrandsRun
  <2>3. it.conn = c
    OBVIOUS
  <2> HIDE DEF it, c
  <2>4. /\ DOMAIN Append(s, it) = 1..(Len(s) + 1) /\ DOMAIN s = 1..Len(s) /\ Len(s) \in Nat
        /\ \A i \in 1..(Len(s) + 1) : Append(s, it)[i] = IF i = Len(s) + 1 THEN it ELSE s[i]
    BY <1>t
  <2>5. \A b \in Conn : DpidOf[b] = DpidOf[c] /\ status[b] = "RUNNING" => b = c
    BY <2>2 DEF OneAtATime
  <2>6. InOrder(q)'
    <3>1. InOrder(q)
      BY DEF QueuesInOrder
    <3> QED BY <1>0, <1>t, <2>1, <2>2, <2>3, <2>4, <2>5, <3>1 DEF InOrder
  <2>7. \A r \in Queue \ {q} : InOrder(r)'
    BY <1>0, <2>1 DEF QueuesInOrder, InOrder
  <2> QED BY <2>6, <2>7 DEF QueuesInOrder
<1>2. CASE ~\E w \in Watcher : Take(q, w)
  <2> DEFINE b == item(q).conn
  <2>1. /\ qp[q].items # <<>>
        /\ \/ DropItem(q) \/ DropMessage(q) \/ Dies(q)
           \/ \E p \in {"next", "process", "register", "put", "handshaked"} : Goto(q, p)
    <3>1. \A p : qp' = [qp EXCEPT ![q].pc = p] => Goto(q, p)
      BY DEF Goto
    <3> QED BY <1>2, <1>t, <3>1 DEF QPStep, Drained, CheckConnected, ProcessHello, ProcessPacketIn,
                      ProcessFeaturesReply, GetSwitch, AddSwitch, Handshaked, Stands
  <2>2. PICK k \in {0, 1} : \A i \in DOMAIN qp'[q].items :
              /\ i \in Nat /\ i + k \in DOMAIN qp[q].items
              /\ qp'[q].items[i].conn = qp[q].items[i + k].conn
    BY <2>1, ItemsStay
  <2>3. /\ b \in Conn /\ 1 \in DOMAIN qp[q].items /\ qp[q].items[1].conn = b
    BY <1>t, <2>1 DEF item
  <2>4. id' = id \/ id' = id \union {b}
    BY <1>2 DEF QPStep, Drained, CheckConnected, ProcessHello, ProcessPacketIn,
                ProcessFeaturesReply, GetSwitch, AddSwitch, Handshaked, connVars
  <2>5. InOrder(q)
    BY DEF QueuesInOrder
  <2>6. QueueOf[b] = q
    BY <2>3, <2>5 DEF InOrder
  <2>7. \A i \in DOMAIN qp[q].items :
           DpidOf[qp[q].items[i].conn] = DpidOf[b] /\ status[b] = "RUNNING" => qp[q].items[i].conn = b
    <3> SUFFICES ASSUME NEW i \in DOMAIN qp[q].items,
                        DpidOf[qp[q].items[i].conn] = DpidOf[b], status[b] = "RUNNING"
                 PROVE  qp[q].items[i].conn = b
      OBVIOUS
    <3>1. i = 1 \/ 1 < i
      BY <1>t
    <3> QED BY <2>3, <2>5, <3>1 DEF InOrder
  <2>8. \A c \in Conn, i \in DOMAIN qp[q].items :
           c \in id' /\ status[c] = "RUNNING" /\ QueueOf[c] = q /\ DpidOf[qp[q].items[i].conn] = DpidOf[c]
              => qp[q].items[i].conn = c
    BY <2>4, <2>5, <2>7 DEF InOrder
  <2>9. InOrder(q)'
    <3>1. \A i, j \in DOMAIN qp'[q].items : i < j => i + k < j + k
      BY <2>2
    <3>2. \A i \in DOMAIN qp'[q].items : QueueOf[qp'[q].items[i].conn] = q
      BY <2>2, <2>5 DEF InOrder
    <3>3. ASSUME NEW i \in DOMAIN qp'[q].items, NEW j \in DOMAIN qp'[q].items, i < j,
                 DpidOf[qp'[q].items[i].conn] = DpidOf[qp'[q].items[j].conn],
                 status[qp'[q].items[i].conn] = "RUNNING"
          PROVE  qp'[q].items[i].conn = qp'[q].items[j].conn
      <4>1. /\ i + k \in DOMAIN qp[q].items /\ qp'[q].items[i].conn = qp[q].items[i + k].conn
            /\ j + k \in DOMAIN qp[q].items /\ qp'[q].items[j].conn = qp[q].items[j + k].conn
            /\ i + k < j + k
        BY <2>2, <3>1, <3>3
      <4> QED BY <2>5, <3>3, <4>1 DEF InOrder
    <3>4. ASSUME NEW c \in Conn, NEW i \in DOMAIN qp'[q].items,
                 c \in id', status[c] = "RUNNING", QueueOf[c] = q,
                 DpidOf[qp'[q].items[i].conn] = DpidOf[c]
          PROVE  qp'[q].items[i].conn = c
      <4>1. i + k \in DOMAIN qp[q].items /\ qp'[q].items[i].conn = qp[q].items[i + k].conn
        BY <2>2
      <4> QED BY <2>8, <3>4, <4>1
    <3> QED BY <1>0, <3>2, <3>3, <3>4 DEF InOrder
  <2>10. ASSUME NEW r \in Queue \ {q} PROVE InOrder(r)'
    <3>1. InOrder(r)
      BY DEF QueuesInOrder
    <3>2. \A c \in Conn : c \in id' /\ QueueOf[c] = r => c \in id
      BY <2>4, <2>6
    <3> QED BY <1>0, <3>1, <3>2 DEF InOrder
  <2> QED BY <2>9, <2>10 DEF QueuesInOrder
<1> QED BY <1>1, <1>2

(* ... and so do those of the watchers and the switches.                         *)
LEMMA OrderStep ==
    ASSUME SessionInv, OneAtATime, QueuesInOrder, [Next]_vars
    PROVE  QueuesInOrder'
<1>t. /\ status \in [Conn -> {"none", "CONNECTED", "RUNNING", "CLOSED"}]
      /\ watcher \in [Watcher -> Errand]
    BY DEF SessionInv, TypeOK
<1>1. CASE /\ UNCHANGED qp /\ id' \subseteq id
           /\ \A c \in Conn : c \in Opened /\ status'[c] = "RUNNING" => status[c] = "RUNNING"
  <2>1. \A q \in Queue : \A i \in DOMAIN qp[q].items :
           qp[q].items[i].conn \in Opened /\ qp[q].items[i].conn \in Conn
    BY DEF SessionInv, BatchesStand, Stands, Opened
  <2>2. \A c \in Conn : c \in id => c \in Opened
    BY DEF SessionInv, FreshUnknown
  <2>3. ASSUME NEW q \in Queue PROVE InOrder(q)'
    <3>1. InOrder(q)
      BY DEF QueuesInOrder
    <3> QED BY <1>1, <2>1, <2>2, <3>1 DEF InOrder
  <2> QED BY <2>3 DEF QueuesInOrder
<1>2. ASSUME NEW c \in Conn, Accept(c) \/ Forget(c) PROVE QueuesInOrder'
    BY <1>1, <1>2, <1>t DEF Accept, Forget, Opened
<1>3. ASSUME NEW c \in Conn, Connected(c) PROVE QueuesInOrder'
    BY <1>1, <1>3, <1>t DEF Connected, Opened
<1>4. ASSUME NEW w \in Watcher, Close(w) PROVE QueuesInOrder'
    BY <1>1, <1>4, <1>t DEF Close, Opened
<1>5. CASE UNCHANGED <<status, id, qp>>
    BY <1>1, <1>5
<1> QED BY <1>2, <1>3, <1>4, <1>5, OrderQPStep
        DEF Next, WatcherStep, HangUp, SwitchSends, Read, ReadFails,
            HandleDisconnectEvent, vars, connVars

(* LiveSwitchRegistered asks for the connections that are settled.               *)
Settled(c) == status[c] = "RUNNING" /\ c \in id /\ ~Registering(c) /\ ~Disconnecting(c)
Found(c) ==
    \/ switches[DpidOf[c]] = c
    \/ \E b \in Conn : /\ switches[DpidOf[c]] = b
                     /\ status[b] = "CLOSED" /\ QueueOf[b] # QueueOf[c]

LEMMA LiveIsSettled == LiveSwitchRegistered <=> \A c \in Conn : Settled(c) => Found(c)
BY DEF LiveSwitchRegistered, Settled, Found

(* A QP thread that is not registering c, at least not at the moment, leaves its *)
(* registration elsewhere alone.                                                 *)
LEMMA RegisteringStays ==
    ASSUME SessionInv, NEW q \in Queue, NEW c,
           qp[q].pc \notin {"register", "put"} \/ item(q).conn # c,
           \A r \in Queue \ {q} : qp'[r] = qp[r]
    PROVE  Registering(c) => Registering(c)'
BY DEF Registering, item

(* What a step of a QP thread changes in qp. *)
LEMMA OneQueue ==
    ASSUME SessionInv, NEW q \in Queue, QPStep(q)
    PROVE  /\ \A r \in Queue \ {q} : qp'[r] = qp[r]
           /\ GetSwitch(q) \/ AddSwitch(q) \/ qp[q].pc \notin {"register", "put"}
<1>1. qp \in [Queue -> Batch]
    BY DEF SessionInv, TypeOK
<1> QED BY <1>1 DEF QPStep, Take, Drained, CheckConnected, ProcessHello, ProcessPacketIn,
            ProcessFeaturesReply, GetSwitch, AddSwitch, Handshaked, Goto, DropItem, DropMessage, Dies

LEMMA LiveIsSettledNext == LiveSwitchRegistered' <=> \A c \in Conn : Settled(c)' => Found(c)'
BY DEF LiveSwitchRegistered, Settled, Found

LEMMA LiveWatcherStep ==
    ASSUME SessionInv, OneAtATime, LiveSwitchRegistered, NEW w \in Watcher, WatcherStep(w)
    PROVE  LiveSwitchRegistered'
<1>t. /\ status \in [Conn -> {"none", "CONNECTED", "RUNNING", "CLOSED"}]
      /\ watcher \in [Watcher -> Errand] /\ switches \in [Dpid -> Conn \union {NoConn}]
    BY DEF SessionInv, TypeOK
<1>q. UNCHANGED qp
    BY DEF WatcherStep, Connected, Read, ReadFails, HandleDisconnectEvent, Close, ctrlVars, connVars
<1>r. \A c : Registering(c)' <=> Registering(c)
    BY <1>q DEF Registering, item
<1>1. ASSUME NEW b \in Conn, Connected(b) PROVE LiveSwitchRegistered'
  <2>1. b \notin id /\ UNCHANGED <<id, switches, watcher>>
    BY <1>1 DEF Connected, SessionInv, FreshUnknown, Opened
  <2>2. \A c \in Conn : Settled(c)' => Settled(c)
    BY <1>1, <1>t, <1>r, <2>1 DEF Connected, Settled, Disconnecting
  <2>3. \A c \in Conn : Found(c) => Found(c)'
    BY <1>1, <1>t, <2>1 DEF Connected, Found
  <2> QED BY <2>2, <2>3, LiveIsSettled, LiveIsSettledNext
<1>2. ASSUME NEW b \in Conn, WatcherOf[b] = w, Read(b) \/ ReadFails(b) PROVE LiveSwitchRegistered'
  <2>1. UNCHANGED <<status, id, switches>>
    BY <1>2 DEF Read, ReadFails, connVars, ctrlVars
  <2>2. \A c : Disconnecting(c) => Disconnecting(c)'
    BY <1>2, <1>t DEF Read, ReadFails, Disconnecting, Idle
  <2> QED BY <1>r, <2>1, <2>2 DEF LiveSwitchRegistered
<1>3. CASE HandleDisconnectEvent(w)
  <2> DEFINE b == watcher[w].conn
             e == [watcher[w] EXCEPT !.pc = "close"]
  <2>1. /\ watcher[w].pc = "disconnect" /\ watcher' = [watcher EXCEPT ![w] = e]
        /\ switches' = WithoutSwitch(b) /\ UNCHANGED <<status, id>>
    BY <1>3 DEF HandleDisconnectEvent, connVars
  <2>2. watcher[w] \in [pc : {"disconnect", "close"}, conn : Conn] /\ b \in Conn
    BY <1>t, <2>1 DEF Errand, Idle
  <2>3. e.pc = "close" /\ e.conn = b /\ status[b] = "RUNNING"
    BY <2>1, <2>2 DEF SessionInv, ErrandsRun
  <2> HIDE DEF e, b
  <2>4. \A c : Disconnecting(c) => Disconnecting(c)'
    BY <1>t, <2>1, <2>3 DEF Disconnecting, b
  <2>5. watcher'[w].pc = "close" /\ watcher'[w].conn = b
    BY <1>t, <2>1, <2>3
  <2>6. ASSUME NEW c \in Conn, Settled(c)' PROVE Found(c)'
    <3>1. Settled(c)
      BY <1>r, <2>1, <2>4, <2>6 DEF Settled
    <3>2. c # b
      BY <2>5, <2>6 DEF Settled, Disconnecting
    <3>3. DpidOf[c] # DpidOf[b]
      BY <2>2, <2>3, <3>1, <3>2 DEF OneAtATime, Settled
    <3>4. DpidOf[c] \in Dpid /\ DpidOf[b] \in Dpid
      BY <2>2, SessionAssumptions
    <3>5. switches'[DpidOf[c]] = switches[DpidOf[c]]
      BY <1>t, <2>1, <3>3, <3>4 DEF WithoutSwitch
    <3> QED BY <2>1, <3>1, <3>5, LiveIsSettled DEF Found
  <2> QED BY <2>6, LiveIsSettledNext
<1>4. CASE Close(w)
  <2> DEFINE b == watcher[w].conn
  <2>1. /\ watcher[w].pc = "close" /\ watcher' = [watcher EXCEPT ![w] = Idle]
        /\ status' = [status EXCEPT ![b] = "CLOSED"] /\ UNCHANGED <<id, switches>>
    BY <1>4 DEF Close, ctrlVars
  <2>2. \A c \in Conn : c # b => (Disconnecting(c) => Disconnecting(c)')
    BY <1>t, <2>1 DEF Disconnecting
  <2>3. ASSUME NEW c \in Conn, Settled(c)' PROVE Settled(c)
    <3>1. c # b
      BY <1>t, <2>1, <2>3 DEF Settled
    <3> QED BY <1>t, <1>r, <2>1, <2>2, <2>3, <3>1 DEF Settled
  <2>4. b \in Conn
    BY <1>t, <2>1 DEF Errand, Idle
  <2>5. \A c \in Conn : Found(c) => Found(c)'
    BY <1>t, <2>1, <2>4 DEF Found
  <2> QED BY <2>3, <2>5, LiveIsSettled, LiveIsSettledNext
<1> QED BY <1>1, <1>2, <1>3, <1>4 DEF WatcherStep

LEMMA LiveQPStep ==
    ASSUME SessionInv, OneAtATime, QueuesInOrder, LiveSwitchRegistered,
           NEW q \in Queue, QPStep(q)
    PROVE  LiveSwitchRegistered'
<1>t. /\ status \in [Conn -> {"none", "CONNECTED", "RUNNING", "CLOSED"}]
      /\ watcher \in [Watcher -> Errand] /\ switches \in [Dpid -> Conn \union {NoConn}]
      /\ qp \in [Queue -> Batch] /\ Stands(qp[q], Opened)
    BY DEF SessionInv, TypeOK, BatchesStand
<1>0. \A r \in Queue \ {q} : qp'[r] = qp[r]
    BY OneQueue
<1>s. UNCHANGED status
    BY DEF QPStep, Take, Drained, CheckConnected, ProcessHello, ProcessPacketIn,
           ProcessFeaturesReply, GetSwitch, AddSwitch, Handshaked, connVars
<1>w. \A c : Disconnecting(c) => Disconnecting(c)'
  <2>1. CASE UNCHANGED watcher
    BY <2>1 DEF Disconnecting
  <2>2. ASSUME NEW w \in Watcher, Take(q, w) PROVE \A c : Disconnecting(c) => Disconnecting(c)'
    BY <1>t, <2>2 DEF Take, Disconnecting
  <2> QED BY <2>1, <2>2 DEF QPStep, Drained, CheckConnected, ProcessHello, ProcessPacketIn,
                            ProcessFeaturesReply, GetSwitch, AddSwitch, Handshaked
<1> DEFINE b == item(q).conn
<1>1. CASE AddSwitch(q)
  <2>1. /\ qp[q].pc = "put" /\ UNCHANGED id
        /\ switches' = [switches EXCEPT ![DpidOf[b]] = b]
    BY <1>1 DEF AddSwitch, connVars
  <2>2. /\ b \in Conn /\ b \in Opened /\ DpidOf[b] \in Dpid
        /\ 1 \in DOMAIN qp[q].items /\ qp[q].items[1].conn = b
    BY <1>t, <2>1, SessionAssumptions DEF item, Stands, Batch, Opened
  <2>3. ASSUME NEW c \in Conn, Settled(c)' PROVE Found(c)'
    <3>1. CASE DpidOf[c] # DpidOf[b]
      <4>1. Settled(c)
        <5>1. Registering(c) => Registering(c)'
          BY <1>0, <3>1, RegisteringStays
        <5> QED BY <1>s, <1>w, <2>1, <2>3, <5>1 DEF Settled
      <4>2. DpidOf[c] \in Dpid
        BY SessionAssumptions
      <4>3. switches'[DpidOf[c]] = switches[DpidOf[c]]
        BY <1>t, <2>1, <2>2, <3>1, <4>2
      <4> QED BY <1>s, <4>1, <4>3, LiveIsSettled DEF Found
    <3>2. CASE DpidOf[c] = DpidOf[b]
      <4>1. switches'[DpidOf[c]] = b
        BY <1>t, <2>1, <2>2, <3>2
      <4>2. CASE c # b
        <5>1. status[c] = "RUNNING" /\ c \in id
          BY <1>s, <2>1, <2>3 DEF Settled
        <5>2. status[b] = "CLOSED"
          BY <2>2, <3>2, <4>2, <5>1 DEF OneAtATime, Opened
        <5>3. QueueOf[b] # QueueOf[c]
          BY <2>2, <3>2, <4>2, <5>1 DEF QueuesInOrder, InOrder
        <5> QED BY <1>s, <2>2, <4>1, <5>2, <5>3 DEF Found
      <4> QED BY <4>1, <4>2 DEF Found
    <3> QED BY <3>1, <3>2
  <2> QED BY <2>3, LiveIsSettledNext
<1>2. CASE ~AddSwitch(q)
  <2>1. UNCHANGED switches
    BY <1>2 DEF QPStep, Take, Drained, CheckConnected, ProcessHello, ProcessPacketIn,
                ProcessFeaturesReply, GetSwitch, Handshaked, ctrlVars
  <2>2. \A c : status[c] = "RUNNING" => (Registering(c) => Registering(c)')
    <3>1. CASE GetSwitch(q)
      <4>1. CASE IsConnected(b)
        <5>1. qp' = [qp EXCEPT ![q].pc = "put"]
          BY <3>1, <4>1 DEF GetSwitch, Goto
        <5>2. qp'[q].pc = "put" /\ qp'[q].items = qp[q].items
          BY <1>t, <5>1 DEF Batch
        <5> QED BY <1>0, <5>2 DEF Registering, item
      <4>2. CASE ~IsConnected(b)
        <5>1. \A c : status[c] = "RUNNING" => item(q).conn # c
          BY <4>2 DEF IsConnected
        <5> QED BY <1>0, <5>1, RegisteringStays
      <4> QED BY <4>1, <4>2
    <3>2. CASE ~GetSwitch(q)
      BY <1>0, <1>2, <3>2, OneQueue, RegisteringStays
    <3> QED BY <3>1, <3>2
  <2>f. \A c \in Conn : Found(c) => Found(c)'
    BY <1>s, <2>1 DEF Found
  <2>3. CASE UNCHANGED id
    <3>1. \A c \in Conn : Settled(c)' => Settled(c)
      BY <1>s, <1>w, <2>2, <2>3 DEF Settled
    <3> QED BY <2>f, <3>1, LiveIsSettled, LiveIsSettledNext
  <2>4. CASE ProcessFeaturesReply(q) /\ id' # id
    <3>1. id' = id \union {b} /\ Goto(q, "register") /\ qp[q].pc = "process"
      BY <2>4 DEF ProcessFeaturesReply
    <3>2. qp'[q].pc = "register" /\ qp'[q].items = qp[q].items
      BY <1>t, <3>1 DEF Goto, Batch
    <3>3. PICK c \in {b} : TRUE
      OBVIOUS
    <3>4. Registering(c)'
      BY <3>2, <3>3 DEF Registering, item
    <3>5. \A d \in Conn : Settled(d)' => Settled(d)
      BY <1>s, <1>w, <2>2, <3>1, <3>3, <3>4 DEF Settled
    <3> QED BY <2>f, <3>5, LiveIsSettled, LiveIsSettledNext
  <2> QED BY <1>2, <2>3, <2>4
          DEF QPStep, Take, Drained, CheckConnected, ProcessHello, ProcessPacketIn,
              ProcessFeaturesReply, GetSwitch, Handshaked, connVars
<1> QED BY <1>1, <1>2

LEMMA LiveStep ==
    ASSUME SessionInv, OneAtATime, QueuesInOrder, LiveSwitchRegistered, [Next]_vars
    PROVE  LiveSwitchRegistered'
<1>t. status \in [Conn -> {"none", "CONNECTED", "RUNNING", "CLOSED"}]
    BY DEF SessionInv, TypeOK
<1>1. ASSUME NEW b \in Conn, Accept(b) \/ Forget(b) PROVE LiveSwitchRegistered'
  <2>1. UNCHANGED <<switches, watcher, qp>>
    BY <1>1 DEF Accept, Forget, ctrlVars
  <2>2. \A c : (Registering(c)' <=> Registering(c)) /\ (Disconnecting(c)' <=> Disconnecting(c))
    BY <2>1 DEF Registering, Disconnecting, item
  <2>3. \A c \in Conn : Settled(c)' => Settled(c)
    BY <1>1, <1>t, <2>2 DEF Accept, Forget, Settled
  <2>4. \A c \in Conn : DpidOf[c] \in Dpid
    BY SessionAssumptions
  <2>5. \A c \in Conn : Found(c) => Found(c)'
    BY <1>1, <1>t, <2>1, <2>4 DEF Accept, Forget, Found
  <2> QED BY <2>3, <2>5, LiveIsSettled, LiveIsSettledNext
<1>2. CASE UNCHANGED <<status, id, switches, watcher, qp>>
    BY <1>2 DEF LiveSwitchRegistered, Registering, Disconnecting, item
<1> QED BY <1>1, <1>2, LiveWatcherStep, LiveQPStep
        DEF Next, HangUp, SwitchSends, vars, connVars, ctrlVars
-----------------------------------------------------------------------------
(* Switches that do not share a host do not share its mark either. *)
OneSwitchPerHost == \A d, e \in Dpid : HostOf[d] = HostOf[e] => d = e

LEMMA MarkStep ==
    ASSUME OneSwitchPerHost, SessionInv, OneAtATime, MarkTellsUnanswered, [Next]_vars
    PROVE  MarkTellsUnanswered'
<1>t. /\ status \in [Conn -> {"none", "CONNECTED", "RUNNING", "CLOSED"}]
      /\ hello \in [Conn -> {"none", "OF_10", "OF_13"}] /\ watcher \in [Watcher -> Errand]
    BY DEF SessionInv, TypeOK
<1>h. \A b, c \in Conn : b # c /\ HostOfConn(b) = HostOfConn(c) =>
         ~(status[b] \in {"CONNECTED", "RUNNING"} /\ status[c] \in {"CONNECTED", "RUNNING"})
    BY SessionAssumptions DEF OneAtATime, OneSwitchPerHost, HostOfConn
<1>1. ASSUME NEW b \in Conn, Accept(b) \/ Forget(b) PROVE MarkTellsUnanswered'
    BY <1>1, <1>t DEF Accept, Forget, ctrlVars, MarkTellsUnanswered, HostOfConn
<1>2. ASSUME NEW b \in Conn, Connected(b) PROVE MarkTellsUnanswered'
  <2>1. /\ status[b] = "CONNECTED" /\ UNCHANGED asked
        /\ status' = [status EXCEPT ![b] = "RUNNING"]
        /\ \/ /\ hello' = [hello EXCEPT ![b] = "OF_10"]
              /\ helloFailedSwitches' = helloFailedSwitches \ {HostOfConn(b)}
           \/ /\ hello' = [hello EXCEPT ![b] = "OF_13"]
              /\ helloFailedSwitches' = helloFailedSwitches \union {HostOfConn(b)}
    BY <1>2 DEF Connected
  <2>2. b \notin asked
    BY <2>1 DEF SessionInv, FreshUnknown, Opened
  <2>3. ASSUME NEW c \in Conn, status'[c] = "RUNNING"
        PROVE  HostOfConn(c) \in helloFailedSwitches' <=> hello'[c] = "OF_13" /\ c \notin asked'
    <3>1. CASE c = b
      BY <1>t, <2>1, <2>2, <3>1
    <3>2. CASE c # b
      <4>1. status[c] = "RUNNING" /\ hello'[c] = hello[c]
        BY <1>t, <2>1, <2>3, <3>2
      <4>2. HostOfConn(c) # HostOfConn(b)
        BY <1>h, <2>1, <3>2, <4>1
      <4> QED BY <2>1, <4>1, <4>2 DEF MarkTellsUnanswered
    <3> QED BY <3>1, <3>2
  <2> QED BY <2>3 DEF MarkTellsUnanswered, HostOfConn
<1>3. ASSUME NEW w \in Watcher, Close(w) PROVE MarkTellsUnanswered'
    BY <1>3, <1>t DEF Close, ctrlVars, MarkTellsUnanswered, HostOfConn
<1>4. ASSUME NEW q \in Queue, ProcessHello(q) PROVE MarkTellsUnanswered'
  <2> DEFINE b == item(q).conn
  <2>1. /\ UNCHANGED <<status, hello>> /\ qp[q].pc = "process"
        /\ IF IsConnected(b) THEN /\ helloFailedSwitches' = helloFailedSwitches \ {HostOfConn(b)}
                                  /\ asked' = asked \union {b}
           ELSE UNCHANGED <<helloFailedSwitches, asked>>
    BY <1>4 DEF ProcessHello
  <2>2. b \in Opened /\ b \in Conn
    BY <2>1 DEF SessionInv, BatchesStand, item, Stands, Batch, Opened
  <2>3. ASSUME NEW c \in Conn, status'[c] = "RUNNING"
        PROVE  HostOfConn(c) \in helloFailedSwitches' <=> hello'[c] = "OF_13" /\ c \notin asked'
    <3>1. CASE ~IsConnected(b)
      BY <2>1, <2>3, <3>1 DEF MarkTellsUnanswered
    <3>2. CASE IsConnected(b) /\ c = b
      BY <2>1, <3>2
    <3>3. CASE IsConnected(b) /\ c # b
      <4>1. HostOfConn(c) # HostOfConn(b)
        BY <1>h, <2>1, <2>2, <2>3, <3>3 DEF IsConnected, Opened
      <4> QED BY <2>1, <2>3, <3>3, <4>1 DEF MarkTellsUnanswered
    <3> QED BY <3>1, <3>2, <3>3
  <2> QED BY <2>3 DEF MarkTellsUnanswered, HostOfConn
<1>5. CASE UNCHANGED <<status, hello, asked, helloFailedSwitches>>
    BY <1>5 DEF MarkTellsUnanswered, HostOfConn
<1> QED BY <1>1, <1>2, <1>3, <1>4, <1>5
        DEF Next, WatcherStep, QPStep, HangUp, SwitchSends, Read, ReadFails,
            HandleDisconnectEvent, Take, Drained, CheckConnected, ProcessPacketIn,
            ProcessFeaturesReply, GetSwitch, AddSwitch, Handshaked, vars, connVars, ctrlVars
-----------------------------------------------------------------------------
(* While no switch connects anew before its old connection has been closed, the  *)
(* map switches of OFController has every switch that identified itself over a   *)
(* running connection: handleDisconnectEvent, which goes by datapath id, does    *)
(* not meet another connection of it.  It has it under that connection, unless   *)
(* the put of a closed connection, late on another QP thread, took its place.    *)
THEOREM LiveSwitchRegisteredHolds ==
    ASSUME ~Overlap PROVE Spec => []LiveSwitchRegistered
<1> DEFINE Inv == SessionInv /\ OneAtATime /\ QueuesInOrder /\ LiveSwitchRegistered
<1>1. Init => Inv
    BY SessionInit DEF Init, IdleQP, OneAtATime, QueuesInOrder, InOrder, LiveSwitchRegistered
<1>2. Inv /\ [Next]_vars => Inv'
    BY SessionStep, OneAtATimeStep, OrderStep, LiveStep
<1>3. Inv => LiveSwitchRegistered
    OBVIOUS
<1> HIDE DEF Inv
<1> QED BY <1>1, <1>2, <1>3, PTL DEF Spec

(* helloFailedSwitches marks exactly the hosts whose HELLO of version 1.3 waits  *)
(* for its answer.  It is kept by host address, so two switches on one host      *)
(* would spoil each other's mark, and so would two connections of one switch.    *)
THEOREM MarkTellsUnansweredHolds ==
    ASSUME ~Overlap, OneSwitchPerHost PROVE Spec => []MarkTellsUnanswered
<1> DEFINE Inv == SessionInv /\ OneAtATime /\ MarkTellsUnanswered
<1>1. Init => Inv
    BY SessionInit DEF Init, OneAtATime, MarkTellsUnanswered
<1>2. Inv /\ [Next]_vars => Inv'
    BY SessionStep, OneAtATimeStep, MarkStep
<1>3. Inv => MarkTellsUnanswered
    OBVIOUS
<1> HIDE DEF Inv
<1> QED BY <1>1, <1>2, <1>3, PTL DEF Spec
=============================================================================
