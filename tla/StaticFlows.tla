---------------------------- MODULE StaticFlows ----------------------------
(***************************************************************************)
(* OFMStaticFlowEntryManager and StaticFlowEntryStorage: the flow entries  *)
(* that are set over REST.  An entry is kept in three places: in memory (a *)
(* map and two indexes), in a collection of the database, and in the flow  *)
(* table of a switch.  addFlow and deleteFlow write to one after the       *)
(* other; each write may fail, and the controller or a switch may be       *)
(* restarted between two of them.  An operation that throws stops where it *)
(* is and leaves what it did.                                              *)
(*                                                                         *)
(* Requests come one at a time.  (Nothing in the code keeps two of them    *)
(* apart; see the hazards.)                                                *)
(***************************************************************************)
EXTENDS Naturals, FiniteSets

CONSTANTS
    Name, Dpid, Match,
    Entry,          \* the entries that are ever posted
    None

ASSUME StaticAssumptions ==
    /\ Entry \subseteq [name : Name, switch : Dpid, match : Match, active : BOOLEAN]
    /\ None \notin Entry /\ None \notin Dpid

VARIABLES
    flowModMap,                 \* name -> entry
    dpidToFlowModNameIndex,     \* switch -> names
    flowModNameToDpidIndex,     \* name -> switch
    dbConnected,                \* OFMStorageManager.isConnected(), decided at boot
    db,                         \* the documents of the collection
    connected,                  \* switches the controller knows
    table,                      \* switch -> matches of the static flows it has
    job,                        \* what the thread that serves a request is doing
    stale,                      \* history: names with documents the boot did not load
    doubt                       \* history: flows an unfinished operation, the deletion
                                \* of an equal flow or a restart may have put at odds

memVars == <<flowModMap, dpidToFlowModNameIndex, flowModNameToDpidIndex>>
dbVars == <<dbConnected, db>>
swVars == <<connected, table>>
history == <<stale, doubt>>
vars == <<memVars, dbVars, swVars, job, history>>

Idle == [pc |-> "idle"]
Docs(n) == {e \in db : e.name = n}
Flow(e) == <<e.switch, e.match>>
Flows == Dpid \X Match

(* loadFlowModsFromDB and buildIndices: a name gets one of its documents.        *)
Load(docs) ==
    /\ flowModMap' \in {f \in [Name -> Entry \union {None}] :
                          \A n \in Name :
                             LET own == {e \in docs : e.name = n}
                             IN  IF own = {} THEN f[n] = None ELSE f[n] \in own}
    /\ dpidToFlowModNameIndex' =
          [d \in Dpid |-> {n \in Name : flowModMap'[n] # None /\ flowModMap'[n].switch = d}]
    /\ flowModNameToDpidIndex' =
          [n \in Name |-> IF flowModMap'[n] = None THEN None ELSE flowModMap'[n].switch]

Init ==
    /\ flowModMap = [n \in Name |-> None]
    /\ dpidToFlowModNameIndex = [d \in Dpid |-> {}]
    /\ flowModNameToDpidIndex = [n \in Name |-> None]
    /\ dbConnected \in BOOLEAN
    /\ db = {}
    /\ connected = Dpid
    /\ table = [d \in Dpid |-> {}]
    /\ job = Idle
    /\ stale = {} /\ doubt = {}
-----------------------------------------------------------------------------
(* REST requests.  A request is a set of operations, done in any order (they     *)
(* come out of a HashSet).  A reload reads the names of a switch only when it    *)
(* gets to it, and ends with the first exception; a clear goes on.               *)
Op == [kind : {"post", "reload", "delete"}, name : Name, entry : Entry \union {None}]

Begin(ops, dpids, goesOn) ==
    /\ job = Idle
    /\ job' = [pc |-> "next", ops |-> ops, dpids |-> dpids, goesOn |-> goesOn]
    /\ UNCHANGED <<memVars, dbVars, swVars, history>>

Delete(n) == [kind |-> "delete", name |-> n, entry |-> None]
Add(kind, e) == [kind |-> kind, name |-> e.name, entry |-> e]

Post(e) == Begin({Add("post", e)}, {}, FALSE)
DeleteByName(n) == Begin({Delete(n)}, {}, FALSE)
Clear(names) == names # {} /\ Begin({Delete(n) : n \in names}, {}, TRUE)
ClearAll == Clear({n \in Name : flowModMap[n] # None})
ClearSwitch(d) == Clear(dpidToFlowModNameIndex[d])
Indexed == {d \in Dpid : dpidToFlowModNameIndex[d] # {}}
ReloadAll == Indexed # {} /\ Begin({}, Indexed, FALSE)
ReloadSwitch(d) == d \in Indexed /\ Begin({}, {d}, FALSE)

Rest(j) == [pc |-> "next", ops |-> j.ops, dpids |-> j.dpids, goesOn |-> j.goesOn]

(* The job after an operation is over, or has thrown.                            *)
Finish(j) == IF j.ops = {} /\ j.dpids = {} THEN Idle ELSE Rest(j)
Throw(j) == IF j.goesOn THEN Finish(j) ELSE Idle

(* reloadFlowModsToSwitch: collect the entries of the next switch.               *)
ReloadNext(d) ==
    /\ job.pc = "next" /\ job.ops = {} /\ d \in job.dpids
    /\ job' = [job EXCEPT !.dpids = @ \ {d},
                          !.ops = {Add("reload", flowModMap[n]) : n \in dpidToFlowModNameIndex[d]}]
    /\ UNCHANGED <<memVars, dbVars, swVars, history>>

(* Take the next operation: a reload skips an entry whose switch is not there;   *)
(* addFlow first deletes what has the name.                                      *)
Start(o) ==
    /\ job.pc = "next" /\ o \in job.ops
    /\ LET rest == job.ops \ {o}
           first == IF o.kind = "delete" \/ flowModMap[o.name] # None THEN "delete" ELSE "install"
       IN  job' = IF o.kind = "reload" /\ o.entry.switch \notin connected
                  THEN Finish([job EXCEPT !.ops = rest])
                  ELSE [pc |-> first, op |-> o, ops |-> rest,
                        dpids |-> job.dpids, goesOn |-> job.goesOn]
    /\ UNCHANGED <<memVars, dbVars, swVars, history>>
-----------------------------------------------------------------------------
(* deleteFlow: the switch, the database, the memory.  A strict deletion takes    *)
(* the flow away from every other name with the same match on that switch.  The  *)
(* message cannot be sent if the switch is not there or its connection breaks.   *)
DeleteFromSwitch ==
    LET n == job.op.name
        d == flowModNameToDpidIndex[n]
        e == flowModMap[n]
    IN  /\ job.pc = "delete"
        /\ \/ /\ job' = Throw(job)
              /\ UNCHANGED <<table, doubt>>
           \/ /\ d # None /\ d \in connected
              /\ job' = [job EXCEPT !.pc = "dbDelete"]
              /\ IF e.active
                 THEN /\ table' = [table EXCEPT ![d] = @ \ {e.match}]
                      /\ doubt' = IF \E m \in Name \ {n} :
                                        flowModMap[m] # None /\ Flow(flowModMap[m]) = Flow(e)
                                  THEN doubt \union {Flow(e)} ELSE doubt
                 ELSE UNCHANGED <<table, doubt>>
        /\ UNCHANGED <<memVars, dbVars, connected, stale>>

(* Mutant: an error of the database is ignored. *)
DeleteDBEntryIfPossible ==
    /\ job.pc = "dbDelete"
    /\ \/ UNCHANGED db
       \/ \E e \in Docs(job.op.name) : db' = db \ {e}
    /\ job' = [job EXCEPT !.pc = "forget"]
    /\ UNCHANGED <<memVars, dbConnected, swVars, history>>

(* Without a database all is well; with one, a name without a document is an     *)
(* error, and the driver throws when the database cannot be reached.             *)
DeleteDBEntry ==
    LET docs == Docs(job.op.name)
    IN  /\ job.pc = "dbDelete"
        /\ \/ /\ ~dbConnected
              /\ job' = [job EXCEPT !.pc = "forget"]
              /\ UNCHANGED <<db, doubt>>
           \/ /\ dbConnected
              /\ \E e \in docs : db' = db \ {e}
              /\ job' = [job EXCEPT !.pc = "forget"]
              /\ UNCHANGED doubt
           \/ /\ dbConnected
              /\ job' = Throw(job)
              /\ doubt' = doubt \union {Flow(flowModMap[job.op.name])}
              /\ UNCHANGED db
        /\ UNCHANGED <<memVars, dbConnected, swVars, stale>>

AfterDelete == IF job.op.kind = "delete" THEN Finish(job) ELSE [job EXCEPT !.pc = "install"]

(* Mutant: the index of the switch keeps the name. *)
ForgetName ==
    /\ job.pc = "forget"
    /\ flowModMap' = [flowModMap EXCEPT ![job.op.name] = None]
    /\ flowModNameToDpidIndex' = [flowModNameToDpidIndex EXCEPT ![job.op.name] = None]
    /\ job' = AfterDelete
    /\ UNCHANGED <<dpidToFlowModNameIndex, dbVars, swVars, history>>

(* deleteEntryFromIndices, and the entry leaves the map.                         *)
Forget ==
    LET n == job.op.name
        d == flowModNameToDpidIndex[n]
    IN  /\ job.pc = "forget"
        /\ flowModMap' = [flowModMap EXCEPT ![n] = None]
        /\ dpidToFlowModNameIndex' = [dpidToFlowModNameIndex EXCEPT ![d] = @ \ {n}]
        /\ flowModNameToDpidIndex' = [flowModNameToDpidIndex EXCEPT ![n] = None]
        /\ job' = AfterDelete
        /\ UNCHANGED <<dbVars, swVars, history>>
-----------------------------------------------------------------------------
(* Mutant: inactive entries are sent too. *)
InstallAny ==
    LET e == job.op.entry
    IN  /\ job.pc = "install"
        /\ \/ /\ job' = Throw(job)
              /\ UNCHANGED <<table, doubt>>
           \/ /\ e.switch \in connected
              /\ job' = [job EXCEPT !.pc = "dbInsert"]
              /\ table' = [table EXCEPT ![e.switch] = @ \union {e.match}]
              /\ doubt' = doubt \ {Flow(e)}
        /\ UNCHANGED <<memVars, dbVars, connected, stale>>

(* addFlow: the switch, the database, the memory.  An inactive entry is not sent. *)
(* It throws if the switch is not there, its connection breaks, or the entry makes *)
(* no message for the switch's version.                                           *)
Install ==
    LET e == job.op.entry
    IN  /\ job.pc = "install"
        /\ \/ /\ job' = Throw(job)
              /\ UNCHANGED <<table, doubt>>
           \/ /\ e.switch \in connected
              /\ job' = [job EXCEPT !.pc = "dbInsert"]
              /\ IF e.active
                 THEN /\ table' = [table EXCEPT ![e.switch] = @ \union {e.match}]
                      /\ doubt' = doubt \ {Flow(e)}
                 ELSE UNCHANGED <<table, doubt>>
        /\ UNCHANGED <<memVars, dbVars, connected, stale>>

(* insertDBEntry does not look at what insert returns: an insertion that failed  *)
(* looks like one that worked, unless the driver throws.                         *)
InsertDBEntry ==
    /\ job.pc = "dbInsert"
    /\ \/ /\ db' \in IF dbConnected THEN {db, db \union {job.op.entry}} ELSE {db}
          /\ job' = [job EXCEPT !.pc = "remember"]
          /\ UNCHANGED doubt
       \/ /\ dbConnected
          /\ job' = Throw(job)
          /\ doubt' = doubt \union {Flow(job.op.entry)}
          /\ UNCHANGED db
    /\ UNCHANGED <<memVars, dbConnected, swVars, stale>>

(* addEntryToIndices, and the entry enters the map.                              *)
Remember ==
    LET e == job.op.entry
    IN  /\ job.pc = "remember"
        /\ flowModMap' = [flowModMap EXCEPT ![e.name] = e]
        /\ dpidToFlowModNameIndex' = [dpidToFlowModNameIndex EXCEPT ![e.switch] = @ \union {e.name}]
        /\ flowModNameToDpidIndex' = [flowModNameToDpidIndex EXCEPT ![e.name] = e.switch]
        /\ job' = Finish(job)
        /\ UNCHANGED <<dbVars, swVars, history>>
-----------------------------------------------------------------------------
(* A switch is lost, and comes back with its flows or, restarted, without them.  *)
(* Nothing is sent to it then.                                                   *)
SwitchLeaves(d) ==
    /\ d \in connected
    /\ connected' = connected \ {d}
    /\ UNCHANGED <<memVars, dbVars, table, job, history>>
SwitchReturns(d) ==
    /\ d \notin connected
    /\ connected' = connected \union {d}
    /\ \/ UNCHANGED <<table, doubt>>
       \/ /\ table' = [table EXCEPT ![d] = {}]
          /\ doubt' = doubt \union ({d} \X Match)
    /\ UNCHANGED <<memVars, dbVars, job, stale>>

(* The controller dies and is started again, with or without the database.       *)
(* Nothing is sent to the switches then either.                                  *)
Restart ==
    /\ dbConnected' \in BOOLEAN
    /\ Load(IF dbConnected' THEN db ELSE {})
    /\ job' = Idle
    /\ stale' = IF dbConnected' THEN {} ELSE {e.name : e \in db}
    /\ doubt' = Flows
    /\ UNCHANGED <<db, swVars>>

Request ==
    \/ \E e \in Entry : Post(e)
    \/ \E n \in Name : DeleteByName(n)
    \/ \E d \in Dpid : ClearSwitch(d) \/ ReloadSwitch(d)
    \/ ClearAll \/ ReloadAll

Work ==
    \/ \E d \in Dpid : ReloadNext(d)
    \/ \E o \in Op : Start(o)
    \/ DeleteFromSwitch \/ DeleteDBEntry \/ Forget
    \/ Install \/ InsertDBEntry \/ Remember

Next ==
    \/ Request \/ Work
    \/ \E d \in Dpid : SwitchLeaves(d) \/ SwitchReturns(d)
    \/ Restart

(* A thread serves its request to the end. *)
Spec == Init /\ [][Next]_vars /\ WF_vars(Work)
-----------------------------------------------------------------------------
Busy == job.pc \notin {"idle", "next"}

(* Map and indexes always tell the same about a name, whatever fails half way    *)
(* through addFlow or deleteFlow, and after a restart.                           *)
IndexesAgree ==
    \A n \in Name :
        IF flowModMap[n] = None
        THEN /\ flowModNameToDpidIndex[n] = None
             /\ \A d \in Dpid : n \notin dpidToFlowModNameIndex[d]
        ELSE /\ flowModMap[n].name = n
             /\ flowModNameToDpidIndex[n] = flowModMap[n].switch
             /\ \A d \in Dpid : n \in dpidToFlowModNameIndex[d] <=> d = flowModMap[n].switch

(* A restart brings nothing back that was not there: every document belongs to   *)
(* the entry in memory, unless a request is just at it or the controller was     *)
(* started without the database.                                                 *)
NoGhostDocs ==
    \A e \in db :
        \/ flowModMap[e.name] = e
        \/ e.name \in stale
        \/ Busy /\ job.op.name = e.name

(* The flows an operation under way is about. *)
AtWork ==
    IF ~Busy THEN {}
    ELSE {Flow(e) : e \in {job.op.entry, flowModMap[job.op.name]} \ {None}}

(* Memory and switch agree: a switch has a static flow exactly if there is an    *)
(* active entry for it.  Only an operation that threw half way, the deletion of  *)
(* an equal flow, or a restart puts a flow in doubt, and sending it again (a     *)
(* reload) settles it.                                                           *)
FlowsAgree ==
    \A f \in Flows \ (doubt \union AtWork) :
        f[2] \in table[f[1]] <=>
            \E n \in Name : /\ flowModMap[n] # None /\ flowModMap[n].active
                            /\ Flow(flowModMap[n]) = f
=============================================================================
