--------------------------- MODULE SwitchSession ---------------------------
(***************************************************************************)
(* The life of the connections to the switches: accepted by TcpServer,     *)
(* watched by a ClientChannelWatcher thread, their messages handed over to *)
(* a QP thread of the controller (OFController) and processed there by     *)
(* OFProtocol, up to the registration of the switch in the map switches    *)
(* and its removal when the connection is lost.                            *)
(*                                                                         *)
(* A watcher hands messages over with TransferQueue.transfer: it waits     *)
(* until the QP thread has taken them, but not until they are processed.   *)
(* From then on the watcher may see the end of the connection and close it *)
(* under the hands of the QP thread.  Connection.close is one step here;   *)
(* conn.getSwitch() and conn.getClient() are null exactly when it is done. *)
(*                                                                         *)
(* What modules do with handshakes, packets and disconnections is left to  *)
(* their own modules (LinkDiscovery).  OFMConnectionMonitor, off by        *)
(* default (echo-request-interval = 0), is not part of this module.        *)
(***************************************************************************)
EXTENDS Naturals, Sequences

CONSTANTS
    Dpid, Host, HostOf,     \* switches by datapath id, and where they run
    Speaks,                 \* the OpenFlow versions whose HELLO a switch accepts
    Conn, DpidOf,           \* Connection objects and the switch at the other end
    Watcher, WatcherOf,     \* watcher threads; TcpServer assigns connections
    Queue, QueueOf,         \* QP threads; by the sequence number of the connection
    Unreliable,             \* the switches whose connections may be cut
    Overlap,                \* may a switch connect anew before its old connection
                            \* has been closed here?
    MaxInbox,               \* bound on the unread messages of a connection
    NoConn

ASSUME SessionAssumptions ==
    /\ HostOf \in [Dpid -> Host]
    /\ Speaks \in [Dpid -> SUBSET {"OF_10", "OF_13"}]
    /\ DpidOf \in [Conn -> Dpid]
    /\ WatcherOf \in [Conn -> Watcher]
    /\ QueueOf \in [Conn -> Queue]
    /\ Unreliable \subseteq Dpid
    /\ Overlap \in BOOLEAN
    /\ MaxInbox \in Nat
    /\ NoConn \notin Conn

Message == {"HELLO", "FEATURES_REPLY", "PACKET_IN"}

VARIABLES
    status,        \* Connection.client_status, "none" before there is an object
    cut,           \* connections the peer has ended or lost
    hello,         \* the version of the HELLO sent over a connection
    asked,         \* connections a FEATURES_REQUEST was sent over
    answered,      \* what the switch has sent over a connection, as a set
    inbox,         \* what it has sent and the watcher has not read yet
    id,            \* connections whose switch object knows its datapath id
    switches,      \* OFController.switches
    helloFailedSwitches,
    registered,    \* ClientChannelWatcher.controllers has the controller
    watcher,       \* what each watcher thread is doing
    qp             \* what each QP thread is doing

peerVars == <<cut, answered, inbox>>
connVars == <<status, hello, asked, id>>
ctrlVars == <<switches, helloFailedSwitches, registered>>
vars == <<peerVars, connVars, ctrlVars, watcher, qp>>

Idle == [pc |-> "idle"]
IdleQP == [pc |-> "idle", items |-> <<>>]

Init ==
    /\ status = [c \in Conn |-> "none"]
    /\ cut = {} /\ asked = {} /\ id = {}
    /\ hello = [c \in Conn |-> "none"]
    /\ answered = [c \in Conn |-> {}]
    /\ inbox = [c \in Conn |-> <<>>]
    /\ switches = [d \in Dpid |-> NoConn]
    /\ helloFailedSwitches = {}
    /\ registered = TRUE
    /\ watcher = [w \in Watcher |-> Idle]
    /\ qp = [q \in Queue |-> IdleQP]

HostOfConn(c) == HostOf[DpidOf[c]]

(* conn.isConnected(), and also: conn.getClient() and conn.getSwitch() are there. *)
IsConnected(c) == status[c] # "CLOSED"

(* Connections a QP thread still has messages of. *)
InWork == UNION {{qp[q].items[i].conn : i \in DOMAIN qp[q].items} : q \in Queue}
-----------------------------------------------------------------------------
(* The switches.  A switch that is not connected tries again and again; when no  *)
(* controller is registered addClient closes the socket at once.  A connection   *)
(* that left no trace stands for the next Connection object.                     *)
Accept(c) ==
    /\ status[c] = "none" /\ registered
    /\ \A b \in Conn \ {c} : DpidOf[b] = DpidOf[c] =>
          \/ status[b] \in {"none", "CLOSED"}
          \/ Overlap /\ b \in cut
    /\ status' = [status EXCEPT ![c] = "CONNECTED"]
    /\ UNCHANGED <<peerVars, hello, asked, id, ctrlVars, watcher, qp>>

Forget(c) ==
    /\ status[c] = "CLOSED"
    /\ c \notin InWork
    /\ \A d \in Dpid : switches[d] # c
    /\ status' = [status EXCEPT ![c] = "none"]
    /\ hello' = [hello EXCEPT ![c] = "none"]
    /\ asked' = asked \ {c} /\ id' = id \ {c} /\ cut' = cut \ {c}
    /\ answered' = [answered EXCEPT ![c] = {}]
    /\ inbox' = [inbox EXCEPT ![c] = <<>>]
    /\ UNCHANGED <<ctrlVars, watcher, qp>>

(* The switch answers a HELLO it accepts and a FEATURES_REQUEST, and sends a      *)
(* packet when it likes; each once per connection.                                *)
SwitchSends(c, m) ==
    /\ status[c] = "RUNNING" /\ c \notin cut
    /\ hello[c] \in Speaks[DpidOf[c]]
    /\ Len(inbox[c]) < MaxInbox
    /\ m \notin answered[c]
    /\ m = "FEATURES_REPLY" => c \in asked
    /\ m = "PACKET_IN" => "HELLO" \in answered[c]
    /\ inbox' = [inbox EXCEPT ![c] = Append(@, m)]
    /\ answered' = [answered EXCEPT ![c] = @ \union {m}]
    /\ UNCHANGED <<cut, connVars, ctrlVars, watcher, qp>>

(* It hangs up on a HELLO of a version it does not accept, or the network does.   *)
HangUp(c) ==
    /\ status[c] = "RUNNING" /\ c \notin cut
    /\ hello[c] \notin Speaks[DpidOf[c]] \/ DpidOf[c] \in Unreliable
    /\ cut' = cut \union {c}
    /\ UNCHANGED <<answered, inbox, connVars, ctrlVars, watcher, qp>>
-----------------------------------------------------------------------------
(* Mutants: the mark is put on the connection, not on the host; there is none. *)
Greet(c, mark) ==
    /\ watcher[WatcherOf[c]] = Idle /\ status[c] = "CONNECTED"
    /\ status' = [status EXCEPT ![c] = "RUNNING"]
    /\ hello' = [hello EXCEPT ![c] = "OF_13"]
    /\ helloFailedSwitches' = helloFailedSwitches \union mark
    /\ UNCHANGED <<peerVars, asked, id, switches, registered, watcher, qp>>
ConnectedByPeer(c) == Greet(c, {c})
ConnectedUnmarked(c) == Greet(c, {})

(* ClientChannelWatcher.run.  The first writable event: handleConnectedEvent     *)
(* sends a HELLO of version 1.3, or 1.0 to a host that is marked as failed.      *)
Connected(c) ==
    LET w == WatcherOf[c]
        h == HostOfConn(c)
    IN  /\ watcher[w] = Idle /\ status[c] = "CONNECTED"
        /\ status' = [status EXCEPT ![c] = "RUNNING"]
        /\ IF h \in helloFailedSwitches
           THEN /\ hello' = [hello EXCEPT ![c] = "OF_10"]
                /\ helloFailedSwitches' = helloFailedSwitches \ {h}
           ELSE /\ hello' = [hello EXCEPT ![c] = "OF_13"]
                /\ helloFailedSwitches' = helloFailedSwitches \union {h}
        /\ UNCHANGED <<peerVars, asked, id, switches, registered, watcher, qp>>

(* A readable event: the messages read are offered to the QP thread.             *)
Read(c) ==
    LET w == WatcherOf[c]
    IN  /\ watcher[w] = Idle /\ status[c] = "RUNNING" /\ inbox[c] # <<>>
        /\ watcher' = [watcher EXCEPT ![w] =
                         [pc |-> "transfer", conn |-> c, msgs |-> inbox[c]]]
        /\ inbox' = [inbox EXCEPT ![c] = <<>>]
        /\ UNCHANGED <<cut, answered, connVars, ctrlVars, qp>>

(* The read fails: first handleDisconnectEvent ...                               *)
ReadFails(c) ==
    LET w == WatcherOf[c]
    IN  /\ watcher[w] = Idle /\ status[c] = "RUNNING" /\ c \in cut
        /\ watcher' = [watcher EXCEPT ![w] = [pc |-> "disconnect", conn |-> c]]
        /\ UNCHANGED <<peerVars, connVars, ctrlVars, qp>>

(* ... which takes the datapath id out of the map, whatever connection it is     *)
(* mapped to, and does nothing when the id is not known yet ...                  *)
WithoutSwitch(c) ==
    IF c \in id THEN [switches EXCEPT ![DpidOf[c]] = NoConn] ELSE switches

(* Mutant: the connection is closed before the event is handled. *)
HandleAfterClose(w) ==
    /\ watcher[w].pc = "disconnect"
    /\ LET c == watcher[w].conn
       IN  IF status[c] = "RUNNING"
           THEN /\ status' = [status EXCEPT ![c] = "CLOSED"]
                /\ UNCHANGED <<switches, watcher>>
           ELSE /\ switches' = WithoutSwitch(c)
                /\ watcher' = [watcher EXCEPT ![w].pc = "close"]
                /\ UNCHANGED status
    /\ UNCHANGED <<peerVars, hello, asked, id, helloFailedSwitches, registered, qp>>

HandleDisconnectEvent(w) ==
    /\ watcher[w].pc = "disconnect"
    /\ switches' = WithoutSwitch(watcher[w].conn)
    /\ watcher' = [watcher EXCEPT ![w].pc = "close"]
    /\ UNCHANGED <<peerVars, connVars, helloFailedSwitches, registered, qp>>

(* ... and then Connection.close.                                                *)
Close(w) ==
    /\ watcher[w].pc = "close"
    /\ status' = [status EXCEPT ![watcher[w].conn] = "CLOSED"]
    /\ watcher' = [watcher EXCEPT ![w] = Idle]
    /\ UNCHANGED <<peerVars, hello, asked, id, ctrlVars, qp>>
-----------------------------------------------------------------------------
(* Mutant: drainTo takes nothing. *)
Poll(q, w) ==
    /\ qp[q].pc = "idle"
    /\ watcher[w].pc = "transfer" /\ QueueOf[watcher[w].conn] = q
    /\ qp' = [qp EXCEPT ![q] =
                [pc |-> "drain",
                 items |-> Append(@.items, [conn |-> watcher[w].conn,
                                            msgs |-> watcher[w].msgs])]]
    /\ watcher' = [watcher EXCEPT ![w] = Idle]
    /\ UNCHANGED <<peerVars, connVars, ctrlVars>>

(* QP.run: poll, then drainTo; both let the offering watcher go on.              *)
Take(q, w) ==
    /\ qp[q].pc \in {"idle", "drain"}
    /\ watcher[w].pc = "transfer" /\ QueueOf[watcher[w].conn] = q
    /\ qp' = [qp EXCEPT ![q] =
                [pc |-> "drain",
                 items |-> Append(@.items, [conn |-> watcher[w].conn,
                                            msgs |-> watcher[w].msgs])]]
    /\ watcher' = [watcher EXCEPT ![w] = Idle]
    /\ UNCHANGED <<peerVars, connVars, ctrlVars>>

Drained(q) ==
    /\ qp[q].pc = "drain"
    /\ \A w \in Watcher : watcher[w].pc = "transfer" => QueueOf[watcher[w].conn] # q
    /\ qp' = [qp EXCEPT ![q].pc = "next"]
    /\ UNCHANGED <<peerVars, connVars, ctrlVars, watcher>>

item(q) == Head(qp[q].items)
message(q) == Head(item(q).msgs)

(* The rest of the item is dropped (process returned false), or only the message  *)
(* that is done with.                                                             *)
DropItem(q) ==
    qp' = [qp EXCEPT ![q] = IF Len(@.items) = 1 THEN IdleQP
                            ELSE [pc |-> "next", items |-> Tail(@.items)]]
DropMessage(q) ==
    IF Len(item(q).msgs) = 1 THEN DropItem(q)
    ELSE LET rest == [item(q) EXCEPT !.msgs = Tail(@)]
         IN  qp' = [qp EXCEPT ![q] =
                      [pc |-> "next", items |-> <<rest>> \o Tail(qp[q].items)]]

Goto(q, pc) == qp' = [qp EXCEPT ![q].pc = pc]

(* An exception ends the QP thread, and removeSelf deregisters the controller.    *)
Dies(q) ==
    /\ qp' = [qp EXCEPT ![q] = [pc |-> "dead", items |-> <<>>]]
    /\ registered' = FALSE

(* isConnected() before the item and before each message.                         *)
CheckConnected(q) ==
    /\ qp[q].pc = "next"
    /\ IF IsConnected(item(q).conn) THEN Goto(q, "process") ELSE DropItem(q)
    /\ UNCHANGED <<peerVars, connVars, ctrlVars, watcher>>

(* Mutant: the mark stays. *)
ProcessHelloOnly(q) ==
    LET c == item(q).conn
    IN  /\ qp[q].pc = "process" /\ message(q) = "HELLO"
        /\ IF IsConnected(c)
           THEN asked' = asked \union {c} /\ DropMessage(q) /\ UNCHANGED registered
           ELSE Dies(q) /\ UNCHANGED asked
        /\ UNCHANGED <<peerVars, status, hello, id, switches, helloFailedSwitches, watcher>>

(* HELLO: the peer's address is taken from a socket that may just be gone.        *)
ProcessHello(q) ==
    LET c == item(q).conn
    IN  /\ qp[q].pc = "process" /\ message(q) = "HELLO"
        /\ IF IsConnected(c)
           THEN /\ helloFailedSwitches' = helloFailedSwitches \ {HostOfConn(c)}
                /\ asked' = asked \union {c}
                /\ DropMessage(q)
                /\ UNCHANGED registered
           ELSE Dies(q) /\ UNCHANGED <<helloFailedSwitches, asked>>
        /\ UNCHANGED <<peerVars, status, hello, id, switches, watcher>>

(* FEATURES_REPLY: the switch object learns its id ...                            *)
ProcessFeaturesReply(q) ==
    LET c == item(q).conn
    IN  /\ qp[q].pc = "process" /\ message(q) = "FEATURES_REPLY"
        /\ IF IsConnected(c)
           THEN id' = id \union {c} /\ Goto(q, "register")
           ELSE DropItem(q) /\ UNCHANGED id
        /\ UNCHANGED <<peerVars, status, hello, asked, ctrlVars, watcher>>

(* ... requests are written, conn.getSwitch() is read anew ...                    *)
GetSwitch(q) ==
    /\ qp[q].pc = "register"
    /\ IF IsConnected(item(q).conn) THEN Goto(q, "put") /\ UNCHANGED registered
       ELSE Dies(q)
    /\ UNCHANGED <<peerVars, connVars, switches, helloFailedSwitches, watcher>>

(* ... and the switch read is put into the map, whatever has become of its        *)
(* connection meanwhile ...                                                       *)
AddSwitch(q) ==
    LET c == item(q).conn
    IN  /\ qp[q].pc = "put"
        /\ switches' = [switches EXCEPT ![DpidOf[c]] = c]
        /\ Goto(q, "handshaked")
        /\ UNCHANGED <<peerVars, connVars, helloFailedSwitches, registered, watcher>>

(* ... and read again for deliverFeaturesReply and the modules.                   *)
Handshaked(q) ==
    /\ qp[q].pc = "handshaked"
    /\ IF IsConnected(item(q).conn) THEN DropMessage(q) /\ UNCHANGED registered
       ELSE Dies(q)
    /\ UNCHANGED <<peerVars, connVars, switches, helloFailedSwitches, watcher>>

(* PACKET_IN: sw is dereferenced unchecked; without an id the rest is dropped.    *)
ProcessPacketIn(q) ==
    LET c == item(q).conn
    IN  /\ qp[q].pc = "process" /\ message(q) = "PACKET_IN"
        /\ IF ~IsConnected(c) THEN Dies(q)
           ELSE /\ IF c \in id THEN DropMessage(q) ELSE DropItem(q)
                /\ UNCHANGED registered
        /\ UNCHANGED <<peerVars, connVars, switches, helloFailedSwitches, watcher>>
-----------------------------------------------------------------------------
WatcherStep(w) ==
    \/ \E c \in Conn : WatcherOf[c] = w /\ (Connected(c) \/ Read(c) \/ ReadFails(c))
    \/ HandleDisconnectEvent(w) \/ Close(w)

QPStep(q) ==
    \/ \E w \in Watcher : Take(q, w)
    \/ Drained(q) \/ CheckConnected(q)
    \/ ProcessHello(q) \/ ProcessPacketIn(q)
    \/ ProcessFeaturesReply(q) \/ GetSwitch(q) \/ AddSwitch(q) \/ Handshaked(q)

Next ==
    \/ \E c \in Conn : Accept(c) \/ Forget(c) \/ HangUp(c)
    \/ \E c \in Conn, m \in Message : SwitchSends(c, m)
    \/ \E w \in Watcher : WatcherStep(w)
    \/ \E q \in Queue : QPStep(q)

(* Threads run; select() returns the ready connections of a watcher one after    *)
(* the other, so each of them gets its turn; a switch without a connection tries *)
(* again, and answers what it accepts.                                           *)
Fairness ==
    /\ \A w \in Watcher : WF_vars(WatcherStep(w))
    /\ \A c \in Conn : SF_vars(Connected(c)) /\ SF_vars(Read(c)) /\ SF_vars(ReadFails(c))
    /\ \A q \in Queue : WF_vars(QPStep(q))
    /\ \A c \in Conn :
          /\ SF_vars(Accept(c)) /\ WF_vars(Forget(c))
          /\ WF_vars(hello[c] \notin Speaks[DpidOf[c]] /\ HangUp(c))
          /\ WF_vars(SwitchSends(c, "HELLO")) /\ WF_vars(SwitchSends(c, "FEATURES_REPLY"))

Spec == Init /\ [][Next]_vars /\ Fairness
-----------------------------------------------------------------------------
Item == [conn : Conn, msgs : Seq(Message)]
Errand == {Idle} \union [pc : {"disconnect", "close"}, conn : Conn]
          \union [pc : {"transfer"}, conn : Conn, msgs : Seq(Message)]
Batch == [pc : {"idle", "drain", "next", "process", "register", "put", "handshaked", "dead"},
          items : Seq(Item)]

(* The types of the variables. *)
TypeOK ==
    /\ status \in [Conn -> {"none", "CONNECTED", "RUNNING", "CLOSED"}]
    /\ cut \subseteq Conn /\ asked \subseteq Conn /\ id \subseteq Conn
    /\ hello \in [Conn -> {"none", "OF_10", "OF_13"}]
    /\ answered \in [Conn -> SUBSET Message]
    /\ inbox \in [Conn -> Seq(Message)]
    /\ switches \in [Dpid -> Conn \union {NoConn}]
    /\ helloFailedSwitches \subseteq Host
    /\ registered \in BOOLEAN
    /\ watcher \in [Watcher -> Errand]
    /\ qp \in [Queue -> Batch]

Registering(c) ==
    \E q \in Queue : qp[q].pc \in {"register", "put"} /\ item(q).conn = c
Disconnecting(c) ==
    \E w \in Watcher : watcher[w].pc \in {"disconnect", "close"} /\ watcher[w].conn = c
Alive(q) == qp[q].pc # "dead"

(* A switch with a running connection over which it has identified itself is      *)
(* found in the map switches (getSwitches is to "return the set of all            *)
(* switches"): the disconnection of an older connection does not take it out.     *)
(* And it is found under that connection, with one exception: a QP thread that    *)
(* has read an older connection's switch and is slow to put it may do so after    *)
(* another QP thread has registered the new one.  On one QP thread (conn.getSeq() *)
(* % processors.length) the messages of the older connection go first.            *)
LiveSwitchRegistered ==
    \A c \in Conn :
        status[c] = "RUNNING" /\ c \in id /\ ~Registering(c) /\ ~Disconnecting(c) =>
            \/ switches[DpidOf[c]] = c
            \/ \E b \in Conn : /\ switches[DpidOf[c]] = b
                             /\ status[b] = "CLOSED" /\ QueueOf[b] # QueueOf[c]

(* The mark of a host tells whether the HELLO it was sent last waits for its      *)
(* answer, so that the next attempt is made with the other version.               *)
MarkTellsUnanswered ==
    \A c \in Conn :
        status[c] = "RUNNING" =>
            (HostOfConn(c) \in helloFailedSwitches <=> hello[c] = "OF_13" /\ c \notin asked)

(* While the QP threads live, every handover ends: no watcher is stuck.           *)
TransferEnds ==
    [](\A q \in Queue : Alive(q)) =>
        \A w \in Watcher : watcher[w].pc = "transfer" ~> watcher[w].pc # "transfer"

(* The rest of the messages of d that were taken together is about to be dropped, *)
(* and its FEATURES_REPLY with it: a PACKET_IN goes before it.                    *)
Swallows(d) ==
    \E q \in Queue :
        /\ qp[q].pc = "process" /\ message(q) = "PACKET_IN"
        /\ DpidOf[item(q).conn] = d /\ item(q).conn \notin id
        /\ \E i \in DOMAIN item(q).msgs : item(q).msgs[i] = "FEATURES_REPLY"

(* Whatever version it insists on, a switch that keeps trying is registered in    *)
(* the end, while the QP threads live and unless its FEATURES_REPLY is lost to a  *)
(* PACKET_IN before it: it is not asked for again.                                *)
EverySwitchRegistered ==
    [](\A q \in Queue : Alive(q)) =>
        \A d \in Dpid : []~Swallows(d) => <>(switches[d] # NoConn)
=============================================================================
