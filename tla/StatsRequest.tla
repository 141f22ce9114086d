---------------------------- MODULE StatsRequest ----------------------------
(***************************************************************************)
(* OFProtocol.getSwitchStatistics (and getFeaturesReply, which is the same *)
(* with a reply of one part): a thread of the REST server asks a switch    *)
(* and waits on a list that it has filed under the request's xid in        *)
(* responsesCache; the QP thread of the switch adds the parts of the reply *)
(* to the list it finds there and wakes the caller after the last one.     *)
(*                                                                         *)
(* The request is written before the caller enters the monitor of the      *)
(* list, so the reply may be complete before anybody waits: the wakeup is  *)
(* lost and the caller sleeps until its second is over.                    *)
(*                                                                         *)
(* A part need not get that far.  QP.process stops at the first message of *)
(* a batch that OFProtocol.process answers with false, an ERROR for one,   *)
(* and drops the rest of the batch; when the next batch has the last part, *)
(* the caller is woken with less than the whole reply.                     *)
(*                                                                         *)
(* OFMConnectionMonitor, when it is on, may take the connection away from  *)
(* the switch object at any time; a call that notices leaves its item in   *)
(* the cache for good.                                                     *)
(***************************************************************************)
EXTENDS Naturals, Sequences

CONSTANTS
    Call,          \* calls of getSwitchStatistics; each has its own xid
    Parts,         \* number of parts of each reply; all but the last say REPLY_MORE
    None

Part == [call : Call, part : Nat \ {0}]

ASSUME StatsAssumptions ==
    Parts \in [Call -> Nat \ {0}] /\ None \notin Call \union Part

VARIABLES
    connected,     \* sw.getConnection() is not null
    pc,            \* where each call is
    cache,         \* the calls with a list in responsesCache
    list,          \* the parts in the list of each call
    wire,          \* parts on their way from the switch to the QP thread
    lost,          \* parts the QP thread has dropped with the rest of a batch
    sent,          \* how many parts the switch has sent for each call
    job,           \* the part whose list the QP thread has looked up
    timedOut       \* calls whose wait(1000) was not notified

vars == <<connected, pc, cache, list, wire, lost, sent, job, timedOut>>

Init ==
    /\ connected = TRUE
    /\ pc = [r \in Call |-> "start"]
    /\ cache = {} /\ timedOut = {}
    /\ list = [r \in Call |-> <<>>]
    /\ wire = <<>> /\ lost = {}
    /\ sent = [r \in Call |-> 0]
    /\ job = None

Goto(r, from, to) == pc[r] = from /\ pc' = [pc EXCEPT ![r] = to]

SetResponseCacheItem(r) ==
    /\ Goto(r, "start", "check")
    /\ cache' = cache \union {r}
    /\ UNCHANGED <<connected, list, wire, lost, sent, job, timedOut>>

(* Without a connection the call returns null ... *)
CheckConnection(r) ==
    /\ Goto(r, "check", IF connected THEN "write" ELSE "null")
    /\ UNCHANGED <<connected, cache, list, wire, lost, sent, job, timedOut>>

(* ... and fails with a NullPointerException if it has just lost it. *)
Write(r) ==
    /\ Goto(r, "write", IF connected THEN "enter" ELSE "failed")
    /\ UNCHANGED <<connected, cache, list, wire, lost, sent, job, timedOut>>

(* synchronized (response) { response.wait(1000) ... *)
Wait(r) ==
    /\ Goto(r, "enter", "wait")
    /\ UNCHANGED <<connected, cache, list, wire, lost, sent, job, timedOut>>

Timeout(r) ==
    /\ Goto(r, "wait", "finally")
    /\ timedOut' = timedOut \union {r}
    /\ UNCHANGED <<connected, cache, list, wire, lost, sent, job>>

(* Mutant: the item stays. *)
Leave(r) ==
    /\ Goto(r, "finally", "returned")
    /\ UNCHANGED <<connected, cache, list, wire, lost, sent, job, timedOut>>

(* ... finally the item is removed, and the list is returned. *)
Return(r) ==
    /\ Goto(r, "finally", "returned")
    /\ cache' = cache \ {r}
    /\ UNCHANGED <<connected, list, wire, lost, sent, job, timedOut>>

(* The switch answers a request that was written, part by part, or not at all. *)
SendPart(r) ==
    /\ pc[r] \in {"enter", "wait", "finally", "returned"} /\ sent[r] < Parts[r]
    /\ connected
    /\ wire' = Append(wire, [call |-> r, part |-> sent[r] + 1])
    /\ sent' = [sent EXCEPT ![r] = @ + 1]
    /\ UNCHANGED <<connected, pc, cache, list, lost, job, timedOut>>

(* QP.process: a message before it in its batch, an ERROR or any that found the *)
(* connection closed, made the QP thread drop the rest; batches are cut anyhow. *)
DropRest ==
    /\ job = None /\ wire # <<>>
    /\ wire' = Tail(wire) /\ lost' = lost \union {Head(wire)}
    /\ UNCHANGED <<connected, pc, cache, list, sent, job, timedOut>>

(* deliverSwitchStatistics: look the list up (a late part finds none) ...       *)
Lookup ==
    /\ job = None /\ wire # <<>>
    /\ wire' = Tail(wire)
    /\ job' = IF Head(wire).call \in cache THEN Head(wire) ELSE None
    /\ UNCHANGED <<connected, pc, cache, list, lost, sent, timedOut>>

(* Mutant: every part wakes the caller. *)
Notifies(m) == TRUE

(* ... a part without REPLY_MORE notifies ...                                  *)
IsLast(m) == m.part = Parts[m.call]

(* ... add the part, and wake the caller if it waits.  In between the caller   *)
(* may have given up: then the list grows under its hands.                     *)
Deliver ==
    /\ job # None
    /\ list' = [list EXCEPT ![job.call] = Append(@, job.part)]
    /\ pc' = IF IsLast(job) /\ pc[job.call] = "wait"
             THEN [pc EXCEPT ![job.call] = "finally"] ELSE pc
    /\ job' = None
    /\ UNCHANGED <<connected, cache, wire, lost, sent, timedOut>>

(* removeExpiredSwitches: close(), then sw.setConnection(null). *)
ExpireConnection ==
    /\ connected /\ connected' = FALSE
    /\ UNCHANGED <<pc, cache, list, wire, lost, sent, job, timedOut>>

Caller(r) ==
    \/ SetResponseCacheItem(r) \/ CheckConnection(r) \/ Write(r)
    \/ Wait(r) \/ Timeout(r) \/ Return(r)
QP == DropRest \/ Lookup \/ Deliver

Next == (\E r \in Call : Caller(r) \/ SendPart(r)) \/ QP \/ ExpireConnection

(* Threads run and a second passes; the switch owes nothing. *)
Spec ==
    /\ Init /\ [][Next]_vars
    /\ \A r \in Call : WF_vars(Caller(r))
    /\ WF_vars(QP)
-----------------------------------------------------------------------------
(* A call whose wait was ended by the switch returns, in order, every part of   *)
(* the reply that was not dropped with the rest of a batch: all of it when none *)
(* was, whatever other calls and their late or early parts do to the QP thread. *)
NotifiedIsComplete ==
    \A r \in Call :
        pc[r] \in {"finally", "returned"} /\ r \notin timedOut =>
            /\ \A i, j \in 1..Len(list[r]) : i < j => list[r][i] < list[r][j]
            /\ \A p \in 1..Parts[r] : (\E i \in 1..Len(list[r]) : list[r][i] = p)
                                  <=> [call |-> r, part |-> p] \notin lost

(* No list stays in the cache for ever: a call ends whether its answer comes in  *)
(* time, before it waits, late, or never, and takes its list with it, except one *)
(* that found the connection gone.                                               *)
EveryCallEnds ==
    \A r \in Call : []<>(r \notin cache \/ pc[r] \in {"null", "failed"})
=============================================================================
