----------------------------- MODULE SwitchPage -----------------------------
(***************************************************************************)
(* The page of switches (switches.js) over the controller it asks: every   *)
(* five seconds the page asks for the list of switches, whether or not the *)
(* last answer has come, rebuilds its rows from what it gets, and asks for *)
(* the aggregate statistics of every row, which is a call of StatsRequest. *)
(* Answers come in any order.                                              *)
(*                                                                         *)
(* The model follows one switch, so its row is there or not.  A call fills *)
(* the row object it was made for, even when the page has dropped it since *)
(* and shows a new one.  Of a row only the packet count is kept; its       *)
(* description is fetched the same way and decides nothing.                *)
(***************************************************************************)
EXTENDS StatsRequest

CONSTANT MaxLists    \* bound: answers to list requests on their way at a time

ASSUME PageAssumptions == MaxLists \in Nat \ {0}

VARIABLES
    registered,    \* the switch is in OFController.switches
    lists,         \* the answers to list requests on their way to the page
    ids,           \* $scope.switch_dpids has the switch
    row,           \* the packets of its row in $scope.switches, or None
    iris,          \* $iris.switches, what the topology page draws, has it
    asked          \* where the answer of a call goes: free, row, or gone

server == <<connected, pc, cache, list, wire, lost, sent, job, timedOut>>
page == <<lists, ids, row, iris, asked>>
pageVars == <<server, registered, page>>

Kinds == {"with", "without", "error"}

PageInit ==
    /\ Init
    /\ registered = FALSE
    /\ lists = [k \in Kinds |-> 0]
    /\ ids = FALSE /\ row = None /\ iris = FALSE
    /\ asked = [r \in Call |-> "free"]
-----------------------------------------------------------------------------
Ended(r) == pc[r] \in {"returned", "null", "failed"}

(* addSwitch: the switch connects for the first time or comes back as a new    *)
(* object.  One whose connection the monitor took away is still in the map; it  *)
(* takes longer than the second of a call to come back.                         *)
Register ==
    /\ \/ ~registered
       \/ ~connected /\ \A r \in Call : pc[r] = "start" \/ Ended(r)
    /\ registered' = TRUE /\ connected' = TRUE
    /\ UNCHANGED <<pc, cache, list, wire, lost, sent, job, timedOut, page>>

(* handleDisconnectEvent; the watcher never sees a connection closed by the     *)
(* monitor go.                                                                  *)
Disconnect ==
    /\ registered /\ connected /\ registered' = FALSE
    /\ UNCHANGED <<server, page>>

Expire == registered /\ ExpireConnection /\ UNCHANGED <<registered, page>>

(* /switches/json: the handler fails at a switch that has lost its connection. *)
Answer == IF ~registered THEN "without" ELSE IF connected THEN "with" ELSE "error"

(* /aggregate/json of a switch that is gone answers nothing at once. *)
NoSwitch(r) ==
    /\ ~registered /\ Goto(r, "start", "null")
    /\ UNCHANGED <<connected, cache, list, wire, lost, sent, job, timedOut>>

Ask(r) == registered /\ SetResponseCacheItem(r)

ServeCall(r) ==
    /\ asked[r] # "free"
    /\ \/ NoSwitch(r) \/ Ask(r)
       \/ CheckConnection(r) \/ Write(r) \/ Wait(r) \/ Timeout(r) \/ Return(r)
    /\ UNCHANGED <<registered, page>>

SwitchSends(r) == SendPart(r) /\ UNCHANGED <<registered, page>>
ServeQP == QP /\ UNCHANGED <<registered, page>>
-----------------------------------------------------------------------------
(* intervalFunction: ask again, whatever is still under way.  A request does  *)
(* nothing before it is served, so it is sent when it is served.               *)
Poll ==
    /\ lists["with"] + lists["without"] + lists["error"] < MaxLists
    /\ lists' = [lists EXCEPT ![Answer] = @ + 1]
    /\ UNCHANGED <<server, registered, ids, row, iris, asked>>

Took(kind) == lists[kind] > 0 /\ lists' = [lists EXCEPT ![kind] = @ - 1]

Orphaned == [r \in Call |-> IF asked[r] = "row" THEN "gone" ELSE asked[r]]

(* getAggregateStatistics: a call for the row that is shown, if one is. *)
AskFor(shown) ==
    IF shown = None THEN asked' = Orphaned
    ELSE \E r \in Call :
            /\ asked[r] = "free"
            /\ asked' = [asked EXCEPT ![r] = "row"]

(* The success of getData: ids that are not listed any more take their rows  *)
(* with them, ids that were not there get a new row.                         *)
Shown(listed) == IF ids /\ ~listed THEN None
                 ELSE IF listed /\ ~ids THEN "0" ELSE row

GotList(listed) ==
    /\ Took(IF listed THEN "with" ELSE "without")
    /\ ids' = listed
    /\ row' = Shown(listed)
    /\ iris' = (Shown(listed) # None)
    /\ AskFor(Shown(listed))
    /\ UNCHANGED <<server, registered>>

(* Mutant: the ids survive the rows, so the row is never put back. *)
GotErrorKeepsIds ==
    /\ Took("error")
    /\ row' = None
    /\ asked' = Orphaned
    /\ UNCHANGED <<server, registered, ids, iris>>

(* The error of getData: no rows, no ids; $iris keeps what it had. *)
GotError ==
    /\ Took("error")
    /\ row' = None /\ ids' = FALSE
    /\ asked' = Orphaned
    /\ UNCHANGED <<server, registered, iris>>

UnderWay(r) ==
    (job # None /\ job.call = r) \/ \E i \in 1..Len(wire) : wire[i].call = r

(* The answer of a call: numbers, or dashes for an empty one or an error.  The  *)
(* call then serves as the next one, with another xid, so no part of its reply  *)
(* may be under way any more; the item of a failed call is not followed.        *)
GotAggregate(r) ==
    /\ asked[r] # "free" /\ Ended(r) /\ ~UnderWay(r)
    /\ row' = IF asked[r] = "gone" THEN row
              ELSE IF pc[r] = "returned" /\ list[r] # <<>> THEN "n" ELSE "-"
    /\ asked' = [asked EXCEPT ![r] = "free"]
    /\ pc' = [pc EXCEPT ![r] = "start"]
    /\ cache' = IF pc[r] = "returned" THEN cache ELSE cache \ {r}
    /\ timedOut' = timedOut \ {r}
    /\ lost' = {m \in lost : m.call # r}
    /\ list' = [list EXCEPT ![r] = <<>>]
    /\ sent' = [sent EXCEPT ![r] = 0]
    /\ UNCHANGED <<connected, wire, job, registered, lists, ids, iris>>

Browser == Poll \/ GotError \/ \E listed \in BOOLEAN : GotList(listed)

PageNext ==
    \/ Register \/ Disconnect \/ Expire \/ ServeQP \/ Browser
    \/ \E r \in Call : ServeCall(r) \/ SwitchSends(r) \/ GotAggregate(r)

(* The timer of the page fires, HTTP delivers, the threads of the controller *)
(* run; the switch need not do anything.                                     *)
PageSpec ==
    /\ PageInit /\ [][PageNext]_pageVars
    /\ WF_pageVars(Poll) /\ WF_pageVars(GotError)
    /\ \A listed \in BOOLEAN : WF_pageVars(GotList(listed))
    /\ \A r \in Call : WF_pageVars(ServeCall(r)) /\ WF_pageVars(GotAggregate(r))
    /\ WF_pageVars(ServeQP)
-----------------------------------------------------------------------------
(* The page catches up: a switch that stays gets a row with an answer in it and *)
(* its place on the topology page, one that has left disappears from both, and  *)
(* one that the monitor has cut off and that does not return empties the page,  *)
(* whatever errors, answers out of order and earlier rows there were.           *)
ViewFollows ==
    /\ <>[](registered /\ connected) => <>[](row \notin {None, "0"} /\ iris)
    /\ <>[](~registered) => <>[](row = None /\ ~iris)
    /\ <>[](registered /\ ~connected) => <>[](row = None)
=============================================================================
