------------------------- MODULE StaticFlowsProofs -------------------------
(***************************************************************************)
(* The three copies of the static flow entries agree, for any names,       *)
(* switches, matches and entries: IndexesAgree, NoGhostDocs and FlowsAgree *)
(* of StaticFlows, from one inductive invariant that says for every step   *)
(* of deleteFlow and addFlow what has been done so far.                    *)
(***************************************************************************)
EXTENDS StaticFlows, TLAPS

(* An operation that adds an entry names that entry. *)
GoodOps == {o \in Op : o.kind # "delete" => o.entry \in Entry /\ o.entry.name = o.name}

Steps == {"delete", "dbDelete", "forget", "install", "dbInsert", "remember"}
NextJobs == [pc : {"next"}, ops : SUBSET GoodOps, dpids : SUBSET Dpid, goesOn : BOOLEAN]
BusyJobs == [pc : Steps, op : GoodOps, ops : SUBSET GoodOps, dpids : SUBSET Dpid,
             goesOn : BOOLEAN]

StaticType ==
    /\ flowModMap \in [Name -> Entry \union {None}]
    /\ dpidToFlowModNameIndex \in [Dpid -> SUBSET Name]
    /\ flowModNameToDpidIndex \in [Name -> Dpid \union {None}]
    /\ dbConnected \in BOOLEAN
    /\ db \subseteq Entry
    /\ table \in [Dpid -> SUBSET Match]
    /\ job \in {Idle} \union NextJobs \union BusyJobs

(* Deleting goes on only with an entry, adding only without one. *)
StepsInOrder ==
    /\ job.pc \in {"dbDelete", "forget"} => flowModMap[job.op.name] # None
    /\ job.pc \in {"install", "dbInsert", "remember"}
         => job.op.kind # "delete" /\ flowModMap[job.op.name] = None

(* With the database every document is that of the entry, but for the name that *)
(* is being worked on; without it the documents are what they were at boot.     *)
DocsFollow ==
    /\ \A e, f \in db : e.name = f.name => e = f
    /\ ~dbConnected => \A e \in db : e.name \in stale
    /\ dbConnected => \A e \in db :
          /\ ~(Busy /\ job.op.name = e.name) => flowModMap[e.name] = e
          /\ job.pc \in {"delete", "dbDelete"} => flowModMap[e.name] = e
          /\ job.pc \in {"forget", "install", "dbInsert"} => job.op.name # e.name
          /\ job.pc = "remember" /\ job.op.name = e.name => e = job.op.entry

IsFor(e, d, m) == e # None /\ e.active /\ e.switch = d /\ e.match = m
Wanted(d, m) == \E n \in Name : IsFor(flowModMap[n], d, m)
Deleting(d, m) ==
    job.pc \in {"dbDelete", "forget"} /\ IsFor(flowModMap[job.op.name], d, m)
Adding(d, m) == job.pc \in {"dbInsert", "remember"} /\ IsFor(job.op.entry, d, m)

(* A flow that is not in doubt is in the table if an entry wants it; the flow that *)
(* is being deleted is gone already and nobody else wants it, the one that is     *)
(* being added is there already.                                                  *)
TableFollows ==
    \A d \in Dpid, m \in Match : <<d, m>> \notin doubt =>
        /\ Deleting(d, m) => /\ m \notin table[d]
                             /\ \A n \in Name \ {job.op.name} : ~IsFor(flowModMap[n], d, m)
        /\ Adding(d, m) => m \in table[d]
        /\ ~Deleting(d, m) /\ ~Adding(d, m) => (m \in table[d] <=> Wanted(d, m))

StaticInv == StaticType /\ IndexesAgree /\ StepsInOrder /\ DocsFollow /\ TableFollows
-----------------------------------------------------------------------------
(* What is after an operation is the rest of the request, or nothing. *)
LEMMA AfterOperation ==
    ASSUME NEW j \in NextJobs \union BusyJobs
    PROVE  Finish(j) \in {Idle} \union NextJobs /\ Throw(j) \in {Idle} \union NextJobs
<1>1. Rest(j) \in NextJobs
    BY DEF Rest, NextJobs, BusyJobs
<1> QED BY <1>1 DEF Finish, Throw

(* The next step of an operation is about the same operation. *)
LEMMA NextStep ==
    ASSUME NEW j \in BusyJobs, NEW s \in Steps
    PROVE  LET k == [j EXCEPT !.pc = s] IN k \in BusyJobs /\ k.pc = s /\ k.op = j.op
BY DEF BusyJobs

(* A job tells by its pc whether there is an operation. *)
LEMMA JobShape ==
    ASSUME NEW j \in {Idle} \union NextJobs \union BusyJobs
    PROVE  /\ j \in {Idle} \union NextJobs <=> j.pc \in {"idle", "next"}
           /\ j \in BusyJobs <=> j.pc \in Steps
           /\ j \in NextJobs <=> j.pc = "next"
           /\ j \in BusyJobs => /\ j.op \in GoodOps /\ j.op.name \in Name
                                /\ j.op.kind # "delete" =>
                                     j.op.entry \in Entry /\ j.op.entry.name = j.op.name
<1>1. Idle.pc = "idle"
    BY DEF Idle
<1>2. j \in NextJobs => j.pc = "next"
    BY DEF NextJobs
<1>3. j \in BusyJobs => j.pc \in Steps /\ j.op \in GoodOps
    BY DEF BusyJobs
<1>4. j.op \in GoodOps => j.op.name \in Name
    BY DEF GoodOps, Op
<1> QED BY <1>1, <1>2, <1>3, <1>4 DEF Steps, GoodOps

(* Nothing has been done yet. *)
LEMMA StaticInit == Init => StaticInv
<1> SUFFICES ASSUME Init PROVE StaticInv
    OBVIOUS
<1>1. job.pc = "idle"
    BY DEF Init, Idle
<1>2. StaticType
    BY DEF Init, StaticType
<1>3. IndexesAgree
    BY DEF Init, IndexesAgree
<1>4. StepsInOrder /\ DocsFollow
    BY <1>1 DEF Init, StepsInOrder, DocsFollow
<1>5. TableFollows
    BY <1>1 DEF Init, TableFollows, Deleting, Adding, Wanted, IsFor
<1> QED BY <1>2, <1>3, <1>4, <1>5 DEF StaticInv
-----------------------------------------------------------------------------
(* Between operations, or when one is given up before it has done anything or   *)
(* after it has deleted the old entry, the copies agree.                        *)
LEMMA Quiet ==
    ASSUME StaticInv, job.pc \in {"idle", "next", "delete", "install"},
           job' \in {Idle} \union NextJobs,
           UNCHANGED <<memVars, dbVars, table, history>>
    PROVE  StaticInv'
<1> USE DEF StaticInv, memVars, dbVars, history
<1>1. job'.pc \in {"idle", "next"}
    BY JobShape
<1>2. StaticType'
    BY DEF StaticType
<1>3. IndexesAgree'
    BY DEF IndexesAgree
<1>4. StepsInOrder'
    BY <1>1 DEF StepsInOrder
<1>5. DocsFollow'
    BY <1>1 DEF DocsFollow, Busy
<1>6. TableFollows'
    BY <1>1 DEF TableFollows, Deleting, Adding, Wanted
<1> QED BY <1>2, <1>3, <1>4, <1>5, <1>6

(* A request makes operations out of entries of the map. *)
LEMMA RequestStep == StaticInv /\ Request => StaticInv'
<1> SUFFICES ASSUME StaticInv, Request PROVE StaticInv'
    OBVIOUS
<1>1. \A n \in Name : Delete(n) \in GoodOps
    BY DEF Delete, GoodOps, Op
<1>2. \A e \in Entry : Add("post", e) \in GoodOps
    BY StaticAssumptions DEF Add, GoodOps, Op
<1>3. \A ops \in SUBSET GoodOps, dpids \in SUBSET Dpid, goesOn \in BOOLEAN :
         Begin(ops, dpids, goesOn) => StaticInv'
  <2> SUFFICES ASSUME NEW ops \in SUBSET GoodOps, NEW dpids \in SUBSET Dpid,
                      NEW goesOn \in BOOLEAN, Begin(ops, dpids, goesOn)
               PROVE  StaticInv'
    OBVIOUS
  <2>1. job.pc = "idle" /\ job' \in NextJobs
    BY DEF Begin, Idle, NextJobs
  <2> QED BY <2>1, Quiet DEF Begin, swVars
<1>4. CASE \E e \in Entry : Post(e)
    BY <1>2, <1>3, <1>4 DEF Post
<1>5. CASE \E n \in Name : DeleteByName(n)
    BY <1>1, <1>3, <1>5 DEF DeleteByName
<1>6. ASSUME NEW names \in SUBSET Name, Clear(names) PROVE StaticInv'
  <2>1. {Delete(n) : n \in names} \in SUBSET GoodOps
    BY <1>1
  <2> QED BY <1>3, <1>6, <2>1 DEF Clear
<1>7. CASE ClearAll
    BY <1>6, <1>7 DEF ClearAll
<1>8. CASE \E d \in Dpid : ClearSwitch(d)
  <2> \A d \in Dpid : dpidToFlowModNameIndex[d] \in SUBSET Name
    BY DEF StaticInv, StaticType
  <2> QED BY <1>6, <1>8 DEF ClearSwitch
<1>9. CASE ReloadAll \/ \E d \in Dpid : ReloadSwitch(d)
    BY <1>3, <1>9 DEF ReloadAll, ReloadSwitch, Indexed
<1> QED BY <1>4, <1>5, <1>7, <1>8, <1>9 DEF Request

(* The index of a switch names entries of the map, which is what a reload needs. *)
LEMMA ReloadStep == StaticInv /\ (\E d \in Dpid : ReloadNext(d)) => StaticInv'
<1> SUFFICES ASSUME StaticInv, NEW d \in Dpid, ReloadNext(d) PROVE StaticInv'
    OBVIOUS
<1> DEFINE ops == {Add("reload", flowModMap[n]) : n \in dpidToFlowModNameIndex[d]}
<1>1. \A n \in dpidToFlowModNameIndex[d] : n \in Name /\ flowModMap[n] \in Entry
    BY DEF StaticInv, StaticType, IndexesAgree
<1>2. \A e \in Entry : Add("reload", e) \in GoodOps
    BY StaticAssumptions DEF Add, GoodOps, Op
<1>3. ops \in SUBSET GoodOps
    BY <1>1, <1>2
<1>4. job \in NextJobs /\ job.pc = "next"
    BY JobShape DEF ReloadNext, StaticInv, StaticType
<1>5. job' = [job EXCEPT !.dpids = @ \ {d}, !.ops = ops]
    BY DEF ReloadNext
<1>6. job' \in NextJobs
    BY <1>3, <1>4, <1>5 DEF NextJobs
<1> QED BY <1>4, <1>6, Quiet DEF ReloadNext, swVars

(* An operation begins with deleting the entry of its name, if there is one. *)
LEMMA StartStep == StaticInv /\ (\E o \in Op : Start(o)) => StaticInv'
<1> SUFFICES ASSUME StaticInv, NEW o \in Op, Start(o) PROVE StaticInv'
    OBVIOUS
<1> DEFINE first == IF o.kind = "delete" \/ flowModMap[o.name] # None
                    THEN "delete" ELSE "install"
           skipped == [job EXCEPT !.ops = job.ops \ {o}]
           started == [pc |-> first, op |-> o, ops |-> job.ops \ {o},
                       dpids |-> job.dpids, goesOn |-> job.goesOn]
<1>1. job \in NextJobs /\ job.pc = "next" /\ o \in GoodOps
    BY JobShape DEF Start, StaticInv, StaticType, NextJobs
<1>2. UNCHANGED <<memVars, dbVars, table, history>>
    BY DEF Start, swVars
<1>3. job' = Finish(skipped) \/ job' = started
    BY DEF Start
<1>4. CASE job' = Finish(skipped)
  <2>1. skipped \in NextJobs
    BY <1>1 DEF NextJobs
  <2> QED BY <1>1, <1>2, <1>4, <2>1, AfterOperation, Quiet
<1>5. CASE job' = started
  <2>1. started \in BusyJobs /\ started.pc = first /\ started.op = o
    BY <1>1 DEF BusyJobs, NextJobs, Steps
  <2>2. job'.pc \in {"delete", "install"} /\ job'.op = o
    BY <1>5, <2>1
  <2>3. job'.pc = "install" => o.kind # "delete" /\ flowModMap[o.name] = None
    BY <1>5, <2>1
  <2> USE <1>2 DEF StaticInv, memVars, dbVars, history
  <2>4. StaticType'
    BY <1>5, <2>1 DEF StaticType
  <2>5. IndexesAgree'
    BY DEF IndexesAgree
  <2>6. StepsInOrder'
    BY <2>2, <2>3 DEF StepsInOrder
  <2>7. DocsFollow'
    <3>1. dbConnected => \A e \in db : flowModMap[e.name] = e
      BY <1>1 DEF DocsFollow, Busy
    <3>2. \A e \in db : e # None
      BY StaticAssumptions DEF StaticType
    <3> QED BY <2>2, <2>3, <3>1, <3>2 DEF DocsFollow
  <2>8. TableFollows'
    BY <1>1, <2>2 DEF TableFollows, Deleting, Adding, Wanted
  <2> QED BY <2>4, <2>5, <2>6, <2>7, <2>8
<1> QED BY <1>3, <1>4, <1>5
-----------------------------------------------------------------------------
(* An entry of the map has the name it is kept under. *)
LEMMA EntryShape ==
    ASSUME StaticInv, NEW n \in Name, flowModMap[n] # None
    PROVE  LET e == flowModMap[n]
           IN  /\ e \in Entry /\ e.name = n /\ e.switch \in Dpid /\ e.match \in Match
               /\ e.active \in BOOLEAN /\ flowModNameToDpidIndex[n] = e.switch
<1>1. flowModMap[n] \in Entry
    BY DEF StaticInv, StaticType
<1>2. flowModMap[n].name = n /\ flowModNameToDpidIndex[n] = flowModMap[n].switch
    BY DEF StaticInv, IndexesAgree
<1> QED BY <1>1, <1>2, StaticAssumptions

(* A deletion that could be sent takes one flow away; if another entry wants the *)
(* same flow, the flow is in doubt.                                              *)
LEMMA DeleteFromSwitchStep == StaticInv /\ DeleteFromSwitch => StaticInv'
<1> SUFFICES ASSUME StaticInv, DeleteFromSwitch PROVE StaticInv'
    OBVIOUS
<1> DEFINE n == job.op.name
           d == flowModNameToDpidIndex[n]
           e == flowModMap[n]
           Given == job' = Throw(job) /\ UNCHANGED <<table, doubt>>
           Sent == /\ d # None /\ d \in connected
                   /\ job' = [job EXCEPT !.pc = "dbDelete"]
                   /\ IF e.active
                      THEN /\ table' = [table EXCEPT ![d] = @ \ {e.match}]
                           /\ doubt' = IF \E m \in Name \ {n} :
                                             flowModMap[m] # None /\ Flow(flowModMap[m]) = Flow(e)
                                       THEN doubt \union {Flow(e)} ELSE doubt
                      ELSE UNCHANGED <<table, doubt>>
<1>1. /\ job.pc = "delete"
      /\ Given \/ Sent
      /\ UNCHANGED <<memVars, dbVars, stale>>
    BY DEF DeleteFromSwitch
<1> HIDE DEF Given, Sent
<1>2. job \in BusyJobs /\ n \in Name
    BY <1>1, JobShape DEF StaticInv, StaticType, Steps
<1>3. CASE Given
    BY <1>1, <1>2, <1>3, AfterOperation, Quiet DEF history, Given
<1>4. CASE Sent
  <2>1. job' \in BusyJobs /\ job'.pc = "dbDelete" /\ job'.op = job.op
    BY <1>2, <1>4, NextStep DEF Steps, Sent
  <2>2. e # None
    BY <1>2, <1>4 DEF StaticInv, IndexesAgree, Sent
  <2>3. /\ e \in Entry /\ e.switch = d /\ d \in Dpid /\ e.match \in Match
        /\ e.active \in BOOLEAN
    BY <1>2, <2>2, EntryShape
  <2>4. table' \in [Dpid -> SUBSET Match]
    BY <1>4 DEF StaticInv, StaticType, Sent
  <2> USE <1>1 DEF memVars, dbVars
  <2>5. StaticType' /\ IndexesAgree'
    BY <2>1, <2>4 DEF StaticInv, StaticType, IndexesAgree
  <2>6. StepsInOrder'
    BY <2>1, <2>2 DEF StepsInOrder
  <2>7. DocsFollow'
    BY <2>1, <1>1 DEF StaticInv, DocsFollow, Busy
  <2>8. ASSUME NEW x \in Dpid, NEW m \in Match, <<x, m>> \notin doubt'
        PROVE  /\ Deleting(x, m)' => /\ m \notin table'[x]
                                     /\ \A k \in Name \ {job'.op.name} : ~IsFor(flowModMap'[k], x, m)
               /\ Adding(x, m)' => m \in table'[x]
               /\ ~Deleting(x, m)' /\ ~Adding(x, m)' => (m \in table'[x] <=> Wanted(x, m)')
    <3>1. <<x, m>> \notin doubt
      BY <1>4, <2>8 DEF Sent
    <3>2. m \in table[x] <=> Wanted(x, m)
      BY <3>1 DEF StaticInv, TableFollows, Deleting, Adding
    <3>3. ~Adding(x, m)' /\ (Wanted(x, m)' <=> Wanted(x, m))
      BY <2>1 DEF Adding, Wanted
    <3>4. Deleting(x, m)' <=> IsFor(e, x, m)
      BY <2>1 DEF Deleting
    <3>5. CASE IsFor(e, x, m)
      <4>1. e.active /\ x = d /\ m = e.match /\ <<x, m>> = Flow(e)
        BY <2>3, <3>5 DEF IsFor, Flow
      <4>2. m \notin table'[x]
        BY <1>4, <2>3, <4>1 DEF StaticInv, StaticType, Sent
      <4>3. ~ \E k \in Name \ {n} : flowModMap[k] # None /\ Flow(flowModMap[k]) = Flow(e)
        BY <1>4, <2>2, <2>8, <4>1 DEF Sent
      <4>4. \A k \in Name \ {n} : ~IsFor(flowModMap[k], x, m)
        BY <4>1, <4>3 DEF IsFor, Flow
      <4> QED BY <2>1, <3>3, <3>4, <3>5, <4>2, <4>4
    <3>6. CASE ~IsFor(e, x, m)
      <4>1. m \in table'[x] <=> m \in table[x]
        BY <1>4, <2>2, <2>3, <3>6 DEF IsFor, StaticInv, StaticType, Sent
      <4> QED BY <3>2, <3>3, <3>4, <3>6, <4>1
    <3> QED BY <3>5, <3>6
  <2>9. TableFollows'
    BY <2>8 DEF TableFollows
  <2> QED BY <2>5, <2>6, <2>7, <2>9 DEF StaticInv
<1> QED BY <1>1, <1>3, <1>4

(* A document that was deleted is gone; an operation that gives up here leaves  *)
(* the flow in doubt.                                                            *)
LEMMA DeleteDBEntryStep == StaticInv /\ DeleteDBEntry => StaticInv'
<1> SUFFICES ASSUME StaticInv, DeleteDBEntry PROVE StaticInv'
    OBVIOUS
<1> DEFINE n == job.op.name
           e == flowModMap[n]
           Deleted == /\ job' = [job EXCEPT !.pc = "forget"]
                      /\ UNCHANGED doubt
                      /\ \/ ~dbConnected /\ UNCHANGED db
                         \/ dbConnected /\ \E doc \in Docs(n) : db' = db \ {doc}
           Given == /\ job' = Throw(job)
                    /\ doubt' = doubt \union {Flow(e)}
                    /\ UNCHANGED db
<1>1. /\ job.pc = "dbDelete"
      /\ Deleted \/ Given
      /\ UNCHANGED <<memVars, dbConnected, table, stale>>
    BY DEF DeleteDBEntry, swVars
<1> HIDE DEF Deleted, Given
<1>2. job \in BusyJobs /\ n \in Name
    BY <1>1, JobShape DEF StaticInv, StaticType, Steps
<1>3. e # None
    BY <1>1 DEF StaticInv, StepsInOrder
<1>4. e \in Entry /\ e.name = n
    BY <1>2, <1>3, EntryShape
<1> USE <1>1 DEF memVars
<1>5. CASE Deleted
  <2>1. job' \in BusyJobs /\ job'.pc = "forget" /\ job'.op = job.op
    BY <1>2, <1>5, NextStep DEF Steps, Deleted
  <2>2. db' \subseteq db
    BY <1>5 DEF Deleted
  <2>3. dbConnected => \A f \in db' : f.name # n
    BY <1>5 DEF Deleted, Docs, StaticInv, DocsFollow
  <2>4. StaticType' /\ IndexesAgree'
    BY <2>1, <2>2 DEF StaticInv, StaticType, IndexesAgree
  <2>5. StepsInOrder'
    BY <2>1, <1>3 DEF StepsInOrder
  <2>6. DocsFollow'
    BY <2>1, <2>2, <2>3 DEF StaticInv, DocsFollow, Busy
  <2>7. TableFollows'
    BY <1>5, <2>1 DEF StaticInv, TableFollows, Deleting, Adding, Wanted, Deleted
  <2> QED BY <2>4, <2>5, <2>6, <2>7 DEF StaticInv
<1>6. CASE Given
  <2>1. job' \in {Idle} \union NextJobs /\ job'.pc \in {"idle", "next"}
    BY <1>2, <1>6, AfterOperation, JobShape DEF Given
  <2>2. UNCHANGED db
    BY <1>6 DEF Given
  <2>3. StaticType' /\ IndexesAgree'
    BY <2>1, <2>2 DEF StaticInv, StaticType, IndexesAgree
  <2>4. StepsInOrder'
    BY <2>1 DEF StepsInOrder
  <2>5. DocsFollow'
    BY <2>1, <2>2 DEF StaticInv, DocsFollow, Busy
  <2>6. ASSUME NEW x \in Dpid, NEW m \in Match, <<x, m>> \notin doubt'
        PROVE  m \in table'[x] <=> Wanted(x, m)'
    <3>1. <<x, m>> \notin doubt /\ <<x, m>> # <<e.switch, e.match>>
      BY <1>6, <2>6 DEF Given, Flow
    <3>2. ~Deleting(x, m) /\ ~Adding(x, m)
      BY <3>1 DEF Deleting, Adding, IsFor
    <3> QED BY <3>1, <3>2 DEF StaticInv, TableFollows, Wanted
  <2>7. TableFollows'
    BY <2>1, <2>6 DEF TableFollows, Deleting, Adding
  <2> QED BY <2>3, <2>4, <2>5, <2>7 DEF StaticInv
<1> QED BY <1>1, <1>5, <1>6

(* When the entry leaves the map its flow and its document are gone already. *)
LEMMA ForgetStep == StaticInv /\ Forget => StaticInv'
<1> SUFFICES ASSUME StaticInv, Forget PROVE StaticInv'
    OBVIOUS
<1> DEFINE n == job.op.name
           e == flowModMap[n]
           d == flowModNameToDpidIndex[n]
<1>1. /\ job.pc = "forget"
      /\ flowModMap' = [flowModMap EXCEPT ![n] = None]
      /\ dpidToFlowModNameIndex' = [dpidToFlowModNameIndex EXCEPT ![d] = @ \ {n}]
      /\ flowModNameToDpidIndex' = [flowModNameToDpidIndex EXCEPT ![n] = None]
      /\ job' = AfterDelete
      /\ UNCHANGED <<dbVars, table, history>>
    BY DEF Forget, swVars
<1>2. job \in BusyJobs /\ n \in Name
    BY <1>1, JobShape DEF StaticInv, StaticType, Steps
<1>3. e # None
    BY <1>1 DEF StaticInv, StepsInOrder
<1>4. e \in Entry /\ e.name = n /\ e.switch = d /\ d \in Dpid
    BY <1>2, <1>3, EntryShape
<1>5. \/ job' \in {Idle} \union NextJobs /\ job'.pc \in {"idle", "next"}
      \/ job' \in BusyJobs /\ job'.pc = "install" /\ job'.op = job.op /\ job.op.kind # "delete"
  <2>1. CASE job.op.kind = "delete"
    BY <1>1, <1>2, <2>1, AfterOperation, JobShape DEF AfterDelete
  <2>2. CASE job.op.kind # "delete"
    BY <1>1, <1>2, <2>2, NextStep DEF AfterDelete, Steps
  <2> QED BY <2>1, <2>2
<1>6. /\ flowModMap'[n] = None
      /\ \A k \in Name \ {n} : flowModMap'[k] = flowModMap[k]
    BY <1>1, <1>2 DEF StaticInv, StaticType
<1>7. StaticType'
  <2>1. flowModMap' \in [Name -> Entry \union {None}]
    BY <1>1 DEF StaticInv, StaticType
  <2>2. dpidToFlowModNameIndex' \in [Dpid -> SUBSET Name]
    BY <1>1 DEF StaticInv, StaticType
  <2>3. flowModNameToDpidIndex' \in [Name -> Dpid \union {None}]
    BY <1>1 DEF StaticInv, StaticType
  <2>4. job' \in {Idle} \union NextJobs \union BusyJobs
    BY <1>5
  <2> QED BY <1>1, <2>1, <2>2, <2>3, <2>4 DEF StaticInv, StaticType, dbVars
<1>8. IndexesAgree'
  <2>1. \A k \in Name : flowModNameToDpidIndex'[k] =
                           IF k = n THEN None ELSE flowModNameToDpidIndex[k]
    BY <1>1 DEF StaticInv, StaticType
  <2>2. \A k \in Name, x \in Dpid :
           k \in dpidToFlowModNameIndex'[x] <=> k # n /\ k \in dpidToFlowModNameIndex[x]
    BY <1>1, <1>2, <1>3, <1>4 DEF StaticInv, StaticType, IndexesAgree
  <2> QED BY <1>6, <2>1, <2>2 DEF StaticInv, IndexesAgree
<1>9. StepsInOrder'
    BY <1>5, <1>6 DEF StepsInOrder
<1>10. DocsFollow'
  <2>1. UNCHANGED <<db, dbConnected, stale>>
    BY <1>1 DEF dbVars, history
  <2>2. \A f \in db : f.name \in Name
    BY StaticAssumptions DEF StaticInv, StaticType
  <2>3. dbConnected => \A f \in db : f.name # n /\ flowModMap[f.name] = f
    BY <1>1 DEF StaticInv, DocsFollow
  <2> QED BY <1>5, <1>6, <2>1, <2>2, <2>3 DEF StaticInv, DocsFollow
<1>11. ASSUME NEW x \in Dpid, NEW m \in Match, <<x, m>> \notin doubt
       PROVE  m \in table[x] <=> Wanted(x, m)'
  <2>1. Wanted(x, m)' <=> \E k \in Name \ {n} : IsFor(flowModMap[k], x, m)
    BY <1>6 DEF Wanted, IsFor
  <2>2. ~Adding(x, m) /\ (Deleting(x, m) <=> IsFor(e, x, m))
    BY <1>1 DEF Adding, Deleting
  <2>3. CASE IsFor(e, x, m)
    BY <1>11, <2>1, <2>2, <2>3 DEF StaticInv, TableFollows
  <2>4. CASE ~IsFor(e, x, m)
    BY <1>11, <2>1, <2>2, <2>4 DEF StaticInv, TableFollows, Wanted
  <2> QED BY <2>3, <2>4
<1>12. TableFollows'
    BY <1>1, <1>5, <1>11 DEF TableFollows, Deleting, Adding, history
<1> QED BY <1>7, <1>8, <1>9, <1>10, <1>12 DEF StaticInv
-----------------------------------------------------------------------------
(* An active entry that could be sent is in the table, and out of doubt. *)
LEMMA InstallStep == StaticInv /\ Install => StaticInv'
<1> SUFFICES ASSUME StaticInv, Install PROVE StaticInv'
    OBVIOUS
<1> DEFINE n == job.op.name
           e == job.op.entry
           Given == job' = Throw(job) /\ UNCHANGED <<table, doubt>>
           Sent == /\ job' = [job EXCEPT !.pc = "dbInsert"]
                   /\ IF e.active
                      THEN /\ table' = [table EXCEPT ![e.switch] = @ \union {e.match}]
                           /\ doubt' = doubt \ {Flow(e)}
                      ELSE UNCHANGED <<table, doubt>>
<1>1. /\ job.pc = "install"
      /\ Given \/ Sent
      /\ UNCHANGED <<memVars, dbVars, stale>>
    BY DEF Install
<1> HIDE DEF Given, Sent
<1>2. job \in BusyJobs /\ n \in Name
    BY <1>1, JobShape DEF StaticInv, StaticType, Steps
<1>3. job.op.kind # "delete" /\ flowModMap[n] = None
    BY <1>1 DEF StaticInv, StepsInOrder
<1>4. e \in Entry /\ e.name = n
    BY <1>2, <1>3, JobShape DEF StaticInv, StaticType
<1>5. /\ e.switch \in Dpid /\ e.match \in Match
      /\ e.active \in BOOLEAN /\ e # None
    BY <1>4, StaticAssumptions
<1>6. CASE Given
    BY <1>1, <1>2, <1>6, AfterOperation, Quiet DEF history, Given
<1>7. CASE Sent
  <2> USE <1>1 DEF memVars, dbVars
  <2>1. job' \in BusyJobs /\ job'.pc = "dbInsert" /\ job'.op = job.op
    BY <1>2, <1>7, NextStep DEF Steps, Sent
  <2>2. table' \in [Dpid -> SUBSET Match]
    BY <1>5, <1>7 DEF StaticInv, StaticType, Sent
  <2>3. StaticType' /\ IndexesAgree'
    BY <2>1, <2>2 DEF StaticInv, StaticType, IndexesAgree
  <2>4. StepsInOrder'
    BY <2>1, <1>3 DEF StepsInOrder
  <2>5. DocsFollow'
    BY <2>1 DEF StaticInv, DocsFollow, Busy
  <2>6. ASSUME NEW x \in Dpid, NEW m \in Match, <<x, m>> \notin doubt'
        PROVE  /\ Adding(x, m)' => m \in table'[x]
               /\ ~Adding(x, m)' => (m \in table'[x] <=> Wanted(x, m)')
    <3>1. Wanted(x, m)' <=> Wanted(x, m)
      BY DEF Wanted
    <3>2. Adding(x, m)' <=> IsFor(e, x, m)
      BY <2>1 DEF Adding
    <3>3. CASE IsFor(e, x, m)
      <4>1. e.active /\ x = e.switch /\ m = e.match
        BY <3>3 DEF IsFor
      <4> QED BY <1>5, <1>7, <3>2, <3>3, <4>1 DEF StaticInv, StaticType, Sent
    <3>4. CASE ~IsFor(e, x, m)
      <4>1. <<x, m>> \notin doubt
        BY <1>5, <1>7, <2>6, <3>4 DEF Sent, Flow, IsFor
      <4>2. m \in table[x] <=> Wanted(x, m)
        BY <4>1 DEF StaticInv, TableFollows, Deleting, Adding
      <4>3. m \in table'[x] <=> m \in table[x]
        BY <1>5, <1>7, <3>4 DEF Sent, IsFor, StaticInv, StaticType
      <4> QED BY <3>1, <3>2, <3>4, <4>2, <4>3
    <3> QED BY <3>3, <3>4
  <2>7. TableFollows'
    BY <2>1, <2>6 DEF TableFollows, Deleting
  <2> QED BY <2>3, <2>4, <2>5, <2>7 DEF StaticInv
<1> QED BY <1>1, <1>6, <1>7

(* The document of an entry is put in when none has its name. *)
LEMMA InsertDBEntryStep == StaticInv /\ InsertDBEntry => StaticInv'
<1> SUFFICES ASSUME StaticInv, InsertDBEntry PROVE StaticInv'
    OBVIOUS
<1> DEFINE n == job.op.name
           e == job.op.entry
           Inserted == /\ db' \in IF dbConnected THEN {db, db \union {e}} ELSE {db}
                       /\ job' = [job EXCEPT !.pc = "remember"]
                       /\ UNCHANGED doubt
           Given == /\ job' = Throw(job)
                    /\ doubt' = doubt \union {Flow(e)}
                    /\ UNCHANGED db
<1>1. /\ job.pc = "dbInsert"
      /\ Inserted \/ Given
      /\ UNCHANGED <<memVars, dbConnected, table, stale>>
    BY DEF InsertDBEntry, swVars
<1> HIDE DEF Inserted, Given
<1>2. job \in BusyJobs /\ n \in Name
    BY <1>1, JobShape DEF StaticInv, StaticType, Steps
<1>3. job.op.kind # "delete" /\ flowModMap[n] = None
    BY <1>1 DEF StaticInv, StepsInOrder
<1>4. e \in Entry /\ e.name = n
    BY <1>2, <1>3, JobShape DEF StaticInv, StaticType
<1>5. dbConnected => \A f \in db : f.name # n /\ flowModMap[f.name] = f
    BY <1>1 DEF StaticInv, DocsFollow
<1> USE <1>1 DEF memVars
<1>6. CASE Inserted
  <2>1. job' \in BusyJobs /\ job'.pc = "remember" /\ job'.op = job.op
    BY <1>2, <1>6, NextStep DEF Steps, Inserted
  <2>2. /\ db' \subseteq db \union {e}
        /\ ~dbConnected => db' = db
    BY <1>6 DEF Inserted
  <2>3. StaticType' /\ IndexesAgree'
    BY <1>4, <2>1, <2>2 DEF StaticInv, StaticType, IndexesAgree
  <2>4. StepsInOrder'
    BY <2>1, <1>3 DEF StepsInOrder
  <2>5. DocsFollow'
    <3>1. \A f, g \in db' : f.name = g.name => f = g
      BY <1>4, <1>5, <2>2 DEF StaticInv, DocsFollow
    <3>2. dbConnected => \A f \in db' : IF f.name = n THEN f = e ELSE flowModMap[f.name] = f
      BY <1>4, <1>5, <2>2
    <3> QED BY <2>1, <2>2, <3>1, <3>2 DEF StaticInv, DocsFollow, Busy
  <2>6. TableFollows'
    BY <1>6, <2>1 DEF StaticInv, TableFollows, Deleting, Adding, Wanted, Inserted
  <2> QED BY <2>3, <2>4, <2>5, <2>6 DEF StaticInv
<1>7. CASE Given
  <2>1. job' \in {Idle} \union NextJobs /\ job'.pc \in {"idle", "next"}
    BY <1>2, <1>7, AfterOperation, JobShape DEF Given
  <2>2. UNCHANGED db
    BY <1>7 DEF Given
  <2>3. StaticType' /\ IndexesAgree'
    BY <2>1, <2>2 DEF StaticInv, StaticType, IndexesAgree
  <2>4. StepsInOrder'
    BY <2>1 DEF StepsInOrder
  <2>5. DocsFollow'
    BY <1>5, <2>1, <2>2 DEF StaticInv, DocsFollow, Busy
  <2>6. ASSUME NEW x \in Dpid, NEW m \in Match, <<x, m>> \notin doubt'
        PROVE  m \in table'[x] <=> Wanted(x, m)'
    <3>1. <<x, m>> \notin doubt /\ <<x, m>> # <<e.switch, e.match>>
      BY <1>7, <2>6 DEF Given, Flow
    <3>2. ~Deleting(x, m) /\ ~Adding(x, m)
      BY <3>1 DEF Deleting, Adding, IsFor
    <3> QED BY <3>1, <3>2 DEF StaticInv, TableFollows, Wanted
  <2>7. TableFollows'
    BY <2>1, <2>6 DEF TableFollows, Deleting, Adding
  <2> QED BY <2>3, <2>4, <2>5, <2>7 DEF StaticInv
<1> QED BY <1>1, <1>6, <1>7

(* When an entry enters the map its flow and its document are there already. *)
LEMMA RememberStep == StaticInv /\ Remember => StaticInv'
<1> SUFFICES ASSUME StaticInv, Remember PROVE StaticInv'
    OBVIOUS
<1> DEFINE n == job.op.name
           e == job.op.entry
<1>1. /\ job.pc = "remember"
      /\ flowModMap' = [flowModMap EXCEPT ![e.name] = e]
      /\ dpidToFlowModNameIndex' =
           [dpidToFlowModNameIndex EXCEPT ![e.switch] = @ \union {e.name}]
      /\ flowModNameToDpidIndex' = [flowModNameToDpidIndex EXCEPT ![e.name] = e.switch]
      /\ job' = Finish(job)
      /\ UNCHANGED <<dbVars, table, history>>
    BY DEF Remember, swVars
<1>2. job \in BusyJobs /\ n \in Name
    BY <1>1, JobShape DEF StaticInv, StaticType, Steps
<1>3. job.op.kind # "delete" /\ flowModMap[n] = None
    BY <1>1 DEF StaticInv, StepsInOrder
<1>4. e \in Entry /\ e.name = n
    BY <1>2, <1>3, JobShape DEF StaticInv, StaticType
<1>5. e.switch \in Dpid /\ e # None
    BY <1>4, StaticAssumptions
<1>6. job' \in {Idle} \union NextJobs /\ job'.pc \in {"idle", "next"}
    BY <1>1, <1>2, AfterOperation, JobShape
<1>7. /\ flowModMap'[n] = e
      /\ \A k \in Name \ {n} : flowModMap'[k] = flowModMap[k]
    BY <1>1, <1>2, <1>4 DEF StaticInv, StaticType
<1>8. StaticType'
  <2>1. flowModMap' \in [Name -> Entry \union {None}]
    BY <1>1, <1>4 DEF StaticInv, StaticType
  <2>2. dpidToFlowModNameIndex' \in [Dpid -> SUBSET Name]
    BY <1>1, <1>2, <1>4 DEF StaticInv, StaticType
  <2>3. flowModNameToDpidIndex' \in [Name -> Dpid \union {None}]
    BY <1>1, <1>5 DEF StaticInv, StaticType
  <2> QED BY <1>1, <1>6, <2>1, <2>2, <2>3 DEF StaticInv, StaticType, dbVars
<1>9. IndexesAgree'
  <2>1. \A k \in Name : flowModNameToDpidIndex'[k] =
                           IF k = n THEN e.switch ELSE flowModNameToDpidIndex[k]
    BY <1>1, <1>4 DEF StaticInv, StaticType
  <2>2. \A k \in Name, x \in Dpid :
           k \in dpidToFlowModNameIndex'[x] <=>
              (k = n /\ x = e.switch) \/ k \in dpidToFlowModNameIndex[x]
    BY <1>1, <1>4, <1>5 DEF StaticInv, StaticType
  <2> QED BY <1>3, <1>4, <1>5, <1>7, <2>1, <2>2 DEF StaticInv, IndexesAgree
<1>10. StepsInOrder'
    BY <1>6 DEF StepsInOrder
<1>11. DocsFollow'
  <2>1. UNCHANGED <<db, dbConnected, stale>>
    BY <1>1 DEF dbVars, history
  <2>2. \A f \in db : f.name \in Name
    BY StaticAssumptions DEF StaticInv, StaticType
  <2>3. dbConnected => \A f \in db : IF f.name = n THEN f = e ELSE flowModMap[f.name] = f
    BY <1>1 DEF StaticInv, DocsFollow
  <2> QED BY <1>6, <1>7, <2>1, <2>2, <2>3 DEF StaticInv, DocsFollow, Busy
<1>12. ASSUME NEW x \in Dpid, NEW m \in Match, <<x, m>> \notin doubt
       PROVE  m \in table[x] <=> Wanted(x, m)'
  <2>1. Wanted(x, m)' <=> IsFor(e, x, m) \/ Wanted(x, m)
    BY <1>2, <1>3, <1>7 DEF Wanted, IsFor
  <2>2. ~Deleting(x, m) /\ (Adding(x, m) <=> IsFor(e, x, m))
    BY <1>1 DEF Adding, Deleting
  <2> QED BY <1>12, <2>1, <2>2 DEF StaticInv, TableFollows
<1>13. TableFollows'
    BY <1>1, <1>6, <1>12 DEF TableFollows, Deleting, Adding, history
<1> QED BY <1>8, <1>9, <1>10, <1>11, <1>13 DEF StaticInv
-----------------------------------------------------------------------------
(* A switch that comes back without its flows has them all in doubt. *)
LEMMA SwitchStep ==
    StaticInv /\ (\E d \in Dpid : SwitchLeaves(d) \/ SwitchReturns(d)) => StaticInv'
<1> SUFFICES ASSUME StaticInv, NEW d \in Dpid, SwitchLeaves(d) \/ SwitchReturns(d)
             PROVE  StaticInv'
    OBVIOUS
<1>1. UNCHANGED <<memVars, dbVars, job, stale>>
    BY DEF SwitchLeaves, SwitchReturns, history
<1>2. \/ UNCHANGED <<table, doubt>>
      \/ table' = [table EXCEPT ![d] = {}] /\ doubt' = doubt \union ({d} \X Match)
    BY DEF SwitchLeaves, SwitchReturns, history
<1> USE <1>1 DEF memVars, dbVars
<1>3. StaticType'
    BY <1>2 DEF StaticInv, StaticType
<1>4. IndexesAgree' /\ StepsInOrder' /\ DocsFollow'
    BY DEF StaticInv, IndexesAgree, StepsInOrder, DocsFollow, Busy
<1>5. TableFollows'
  <2>1. \A x \in Dpid, m \in Match : <<x, m>> \notin doubt' =>
            <<x, m>> \notin doubt /\ table'[x] = table[x]
    BY <1>2 DEF StaticInv, StaticType
  <2> QED BY <2>1 DEF StaticInv, TableFollows, Deleting, Adding, Wanted
<1> QED BY <1>3, <1>4, <1>5 DEF StaticInv

(* At boot a name gets its one document; every flow is in doubt. *)
LEMMA RestartStep == StaticInv /\ Restart => StaticInv'
<1> SUFFICES ASSUME StaticInv, Restart PROVE StaticInv'
    OBVIOUS
<1> DEFINE docs == IF dbConnected' THEN db ELSE {}
           Own(n) == {e \in docs : e.name = n}
<1>1. /\ dbConnected' \in BOOLEAN
      /\ Load(docs)
      /\ job' = Idle
      /\ stale' = IF dbConnected' THEN {} ELSE {e.name : e \in db}
      /\ doubt' = Flows
      /\ UNCHANGED <<db, table>>
    BY DEF Restart, swVars
<1>2. /\ flowModMap' \in [Name -> Entry \union {None}]
      /\ \A n \in Name : IF Own(n) = {} THEN flowModMap'[n] = None ELSE flowModMap'[n] \in Own(n)
    BY <1>1 DEF Load
<1>3. /\ dpidToFlowModNameIndex' =
           [x \in Dpid |-> {n \in Name : flowModMap'[n] # None /\ flowModMap'[n].switch = x}]
      /\ flowModNameToDpidIndex' =
           [n \in Name |-> IF flowModMap'[n] = None THEN None ELSE flowModMap'[n].switch]
    BY <1>1 DEF Load
<1>4. \A e \in db : e \in Entry /\ e.name \in Name /\ e # None
    BY StaticAssumptions DEF StaticInv, StaticType
<1>5. \A n \in Name : flowModMap'[n] # None =>
          /\ flowModMap'[n] \in Entry /\ flowModMap'[n].name = n
          /\ flowModMap'[n].switch \in Dpid
    BY <1>2, StaticAssumptions
<1>6. job'.pc = "idle"
    BY <1>1 DEF Idle
<1>7. StaticType'
  <2>1. dpidToFlowModNameIndex' \in [Dpid -> SUBSET Name]
    BY <1>3
  <2>2. flowModNameToDpidIndex' \in [Name -> Dpid \union {None}]
    BY <1>3, <1>5
  <2> QED BY <1>1, <1>2, <2>1, <2>2 DEF StaticInv, StaticType
<1>8. IndexesAgree'
    BY <1>3, <1>5 DEF IndexesAgree
<1>9. StepsInOrder'
    BY <1>6 DEF StepsInOrder
<1>10. DocsFollow'
  <2>1. dbConnected' => \A e \in db : flowModMap'[e.name] = e
    <3> SUFFICES ASSUME dbConnected', NEW e \in db PROVE flowModMap'[e.name] = e
        OBVIOUS
    <3>1. e \in Own(e.name)
        OBVIOUS
    <3>2. flowModMap'[e.name] \in Own(e.name)
        BY <1>2, <1>4, <3>1
    <3> QED BY <3>2 DEF StaticInv, DocsFollow
  <2>2. ~dbConnected' => \A e \in db : e.name \in stale'
    BY <1>1
  <2>3. \A e, f \in db : e.name = f.name => e = f
    BY DEF StaticInv, DocsFollow
  <2> QED BY <1>1, <1>6, <2>1, <2>2, <2>3 DEF DocsFollow
<1>11. TableFollows'
    BY <1>1 DEF TableFollows, Flows
<1> QED BY <1>7, <1>8, <1>9, <1>10, <1>11 DEF StaticInv

(* A step that changes nothing. *)
LEMMA StaticStutter == StaticInv /\ UNCHANGED vars => StaticInv'
BY DEF StaticInv, StaticType, IndexesAgree, StepsInOrder, DocsFollow, Busy, TableFollows,
       Deleting, Adding, Wanted, vars, memVars, dbVars, swVars, history

(* Every step keeps the three copies together. *)
LEMMA StaticStep == StaticInv /\ [Next]_vars => StaticInv'
<1>1. StaticInv /\ Work => StaticInv'
    BY ReloadStep, StartStep, DeleteFromSwitchStep, DeleteDBEntryStep, ForgetStep,
       InstallStep, InsertDBEntryStep, RememberStep DEF Work
<1> QED BY <1>1, RequestStep, SwitchStep, RestartStep, StaticStutter DEF Next

(* The invariant of all three theorems. *)
LEMMA StaticInvHolds == Spec => []StaticInv
<1> QED BY StaticInit, StaticStep, PTL DEF Spec
-----------------------------------------------------------------------------
(* flowModMap and the two indexes of StaticFlowEntryStorage always tell the same *)
(* about a name, wherever addFlow or deleteFlow throws and after every restart.  *)
THEOREM IndexesAgreeHolds == Spec => []IndexesAgree
<1>1. StaticInv => IndexesAgree
    BY DEF StaticInv
<1> QED BY <1>1, StaticInvHolds, PTL

(* No document outlives its entry: a restart brings back nothing that deleteFlow *)
(* has deleted or that addFlow has not finished, except after a boot without the *)
(* database.                                                                     *)
THEOREM NoGhostDocsHolds == Spec => []NoGhostDocs
<1>1. StaticInv => NoGhostDocs
  <2> SUFFICES ASSUME StaticInv, NEW e \in db
               PROVE  \/ flowModMap[e.name] = e
                      \/ e.name \in stale
                      \/ Busy /\ job.op.name = e.name
    BY DEF NoGhostDocs
  <2>1. dbConnected \in BOOLEAN
    BY DEF StaticInv, StaticType
  <2> QED BY <2>1 DEF StaticInv, DocsFollow
<1> QED BY <1>1, StaticInvHolds, PTL

(* A switch has a static flow exactly if there is an active entry for it, unless *)
(* an operation is at it, or one that threw half way, the deletion of an equal   *)
(* flow, or a restart has put it in doubt since it was last sent.                *)
THEOREM FlowsAgreeHolds == Spec => []FlowsAgree
<1>1. StaticInv => FlowsAgree
  <2> SUFFICES ASSUME StaticInv, NEW f \in Flows \ (doubt \union AtWork)
               PROVE  f[2] \in table[f[1]] <=>
                        \E n \in Name : /\ flowModMap[n] # None /\ flowModMap[n].active
                                        /\ Flow(flowModMap[n]) = f
    BY DEF FlowsAgree
  <2>1. PICK d \in Dpid, m \in Match : f = <<d, m>>
    BY DEF Flows
  <2>2. f[1] = d /\ f[2] = m
    BY <2>1
  <2>3. ~Deleting(d, m)
    <3> SUFFICES ASSUME Deleting(d, m) PROVE f \in AtWork
      OBVIOUS
    <3> DEFINE e == flowModMap[job.op.name]
    <3>1. Busy /\ e # None /\ Flow(e) = f
      BY <2>1 DEF Deleting, IsFor, Busy, Flow
    <3> QED BY <3>1 DEF AtWork
  <2>4. ~Adding(d, m)
    <3> SUFFICES ASSUME Adding(d, m) PROVE f \in AtWork
      OBVIOUS
    <3>1. Busy /\ job.op.entry # None /\ Flow(job.op.entry) = f
      BY <2>1 DEF Adding, IsFor, Busy, Flow
    <3> QED BY <3>1 DEF AtWork
  <2>5. m \in table[d] <=> Wanted(d, m)
    BY <2>1, <2>3, <2>4 DEF StaticInv, TableFollows
  <2>6. \A n \in Name : IsFor(flowModMap[n], d, m) <=>
           /\ flowModMap[n] # None /\ flowModMap[n].active /\ Flow(flowModMap[n]) = f
    BY <2>1 DEF IsFor, Flow
  <2> QED BY <2>2, <2>5, <2>6 DEF Wanted
<1> QED BY <1>1, StaticInvHolds, PTL
=============================================================================
