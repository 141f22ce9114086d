-------------------------- MODULE SwitchPageProofs --------------------------
(***************************************************************************)
(* A caller of getSwitchStatistics that is woken by the switch has every   *)
(* part of the reply that the QP thread did not drop: a proof for any      *)
(* number of calls, any length of replies and any number of list requests  *)
(* of the page that makes the calls.  The parts of a reply are accounted   *)
(* for: those taken, those dropped and those still under way go up to the  *)
(* last one sent, so nothing is left when the last one has been taken.     *)
(***************************************************************************)
EXTENDS SwitchPage, TLAPS

(* Where a call is once its request was written, until it gives its list up. *)
Live == {"enter", "wait", "finally"}

Filed == {"check", "write"} \union Live
PCs == {"start", "null", "failed", "returned"} \union Filed

(* Calls whose list takes every part that gets to the QP thread. *)
Kept(r) == pc[r] \in Live \/ (pc[r] = "returned" /\ r \notin timedOut)

StatsType ==
    /\ pc \in [Call -> PCs]
    /\ cache \subseteq Call
    /\ list \in [Call -> Seq(Nat)]
    /\ wire \in Seq(Part)
    /\ lost \subseteq Part
    /\ sent \in [Call -> Nat] /\ \A r \in Call : sent[r] <= Parts[r]
    /\ job \in Part \union {None}

Holds(r) == job # None /\ job.call = r

(* A part of a reply is in the list, has been dropped, or waits on the wire. *)
Listed(r, p) == \E i \in 1..Len(list[r]) : list[r][i] = p
Got(r, p) == Listed(r, p) \/ (Holds(r) /\ job.part = p)
Lost(r, p) == \E m \in lost : m.call = r /\ m.part = p
OnWire(r, p) == \E i \in 1..Len(wire) : wire[i].call = r /\ wire[i].part = p

(* A call in progress has its list in the cache, and one that has returned has *)
(* not; one that has not written its request has got nothing.                  *)
CallsInOrder ==
    \A r \in Call : /\ pc[r] \in Filed => r \in cache
                    /\ pc[r] = "returned" => r \notin cache
                    /\ pc[r] \notin Live \union {"returned"} =>
                          /\ sent[r] = 0 /\ list[r] = <<>> /\ ~UnderWay(r)
                          /\ \A m \in lost : m.call # r

(* A list grows in the order of the parts, and the part in the hands of the QP *)
(* thread is a later one; parts that were dropped are not among them.          *)
ListsInOrder ==
    /\ \A r \in Call : \A i, j \in 1..Len(list[r]) : i < j => list[r][i] < list[r][j]
    /\ job # None => \A i \in 1..Len(list[job.call]) : list[job.call][i] < job.part
    /\ \A r \in Call, p \in Nat : Got(r, p) => p <= sent[r] /\ ~Lost(r, p)

(* What is on the wire comes in order, after all that has left it. *)
WireInOrder ==
    /\ \A i \in 1..Len(wire) : wire[i].part <= sent[wire[i].call]
    /\ \A i, j \in 1..Len(wire) :
          i < j /\ wire[i].call = wire[j].call => wire[i].part < wire[j].part
    /\ \A i \in 1..Len(wire) : \A p \in Nat :
          Got(wire[i].call, p) \/ Lost(wire[i].call, p) => p < wire[i].part
    /\ \A r \in Call, p \in Nat : Lost(r, p) => p <= sent[r]

PartsAccounted ==
    \A r \in Call : Kept(r) =>
        \A p \in 1..sent[r] : Got(r, p) \/ Lost(r, p) \/ OnWire(r, p)

(* A call that was woken has got the last part. *)
WokenHasLast ==
    \A r \in Call : pc[r] \in {"finally", "returned"} /\ r \notin timedOut
                        => Listed(r, Parts[r])

PartsInv ==
    StatsType /\ CallsInOrder /\ ListsInOrder /\ WireInOrder /\ PartsAccounted /\ WokenHasLast
-----------------------------------------------------------------------------
(* What the invariant is about; the rest of the state does not matter to it. *)
calls == <<pc, cache, list, wire, lost, sent, job, timedOut>>

(* The page opens in a state that satisfies the invariant. *)
LEMMA PartsInit == PageInit => PartsInv
<1> SUFFICES ASSUME PageInit PROVE PartsInv
    OBVIOUS
<1>1. /\ pc = [r \in Call |-> "start"] /\ cache = {} /\ timedOut = {} /\ wire = <<>> /\ lost = {}
      /\ list = [r \in Call |-> <<>>] /\ sent = [r \in Call |-> 0] /\ job = None
    BY DEF PageInit, Init
<1> USE StatsAssumptions
<1>2. StatsType
    BY <1>1 DEF StatsType, PCs
<1>3. CallsInOrder /\ ListsInOrder
    BY <1>1 DEF CallsInOrder, ListsInOrder, UnderWay, Filed, Live, Got, Listed, Holds
<1>4. WireInOrder /\ PartsAccounted /\ WokenHasLast
    BY <1>1 DEF WireInOrder, PartsAccounted, WokenHasLast, Live, Lost, Kept
<1> QED BY <1>2, <1>3, <1>4 DEF PartsInv

(* A step of a caller moves its call on and leaves the replies alone; it is     *)
(* harmless if the call has its list in the cache while it waits, has got       *)
(* nothing when it starts to, and has timed out if it gives up before the end.  *)
LEMMA CallerStep ==
    ASSUME PartsInv, NEW r \in Call, NEW to \in PCs,
           pc' = [pc EXCEPT ![r] = to],
           UNCHANGED <<list, wire, lost, sent, job>>,
           cache' \subseteq Call,
           \A q \in Call \ {r} : q \in cache' <=> q \in cache,
           to \in Filed => r \in cache',
           to \in Live => pc[r] \in Live \union {"write"},
           to = "returned" => pc[r] \in Live /\ r \notin cache',
           to \in PCs \ (Live \union {"returned"}) => pc[r] \notin Live \union {"returned"},
           timedOut \subseteq timedOut',
           to \in {"finally", "returned"} /\ pc[r] # "finally" => r \in timedOut'
    PROVE  PartsInv'
<1> USE StatsAssumptions
<1>t. pc \in [Call -> PCs]
    BY DEF PartsInv, StatsType
<1>0. pc'[r] = to /\ \A q \in Call \ {r} : pc'[q] = pc[q]
    BY <1>t
<1>g. \A q, p : /\ Got(q, p)' <=> Got(q, p)
                /\ Lost(q, p)' <=> Lost(q, p)
                /\ OnWire(q, p)' <=> OnWire(q, p)
                /\ Listed(q, p)' <=> Listed(q, p)
    BY DEF Got, Lost, OnWire, Listed, Holds
<1>1. StatsType'
    BY <1>t DEF PartsInv, StatsType
<1>2. CallsInOrder'
  <2> SUFFICES ASSUME NEW q \in Call
               PROVE  /\ pc'[q] \in Filed => q \in cache'
                      /\ pc'[q] = "returned" => q \notin cache'
                      /\ pc'[q] \notin Live \union {"returned"} =>
                            /\ sent[q] = 0 /\ list[q] = <<>> /\ ~UnderWay(q)
                            /\ \A m \in lost : m.call # q
      BY DEF CallsInOrder, UnderWay
  <2>1. CASE q = r
      BY <2>1, <1>0 DEF PartsInv, CallsInOrder
  <2>2. CASE q # r
      BY <2>2, <1>0 DEF PartsInv, CallsInOrder
  <2> QED BY <2>1, <2>2
<1>3. ListsInOrder'
    BY <1>g DEF PartsInv, ListsInOrder
<1>4. WireInOrder'
    BY <1>g DEF PartsInv, WireInOrder
<1>5. PartsAccounted'
  <2> SUFFICES ASSUME NEW q \in Call, Kept(q)', NEW p \in 1..sent[q]
               PROVE  Got(q, p) \/ Lost(q, p) \/ OnWire(q, p)
      BY <1>g DEF PartsAccounted
  <2>1. CASE Kept(q)
      BY <2>1 DEF PartsInv, PartsAccounted
  <2>2. CASE ~Kept(q)
    <3>1. q = r /\ pc[q] = "write"
        BY <2>2, <1>0, <1>t DEF Kept, PCs
    <3>2. sent[q] = 0
        BY <3>1 DEF PartsInv, CallsInOrder, Live
    <3> QED BY <3>2
  <2> QED BY <2>1, <2>2
<1>6. WokenHasLast'
  <2> SUFFICES ASSUME NEW q \in Call, pc'[q] \in {"finally", "returned"}, q \notin timedOut'
               PROVE  Listed(q, Parts[q])
      BY <1>g DEF WokenHasLast
  <2>1. pc[q] \in {"finally", "returned"} /\ q \notin timedOut
      BY <1>0
  <2> QED BY <2>1 DEF PartsInv, WokenHasLast
<1> QED BY <1>1, <1>2, <1>3, <1>4, <1>5, <1>6 DEF PartsInv

(* The switch sends the next part of a reply: it goes to the end of the wire. *)
LEMMA SendStep == ASSUME PartsInv, NEW r \in Call, SendPart(r) PROVE PartsInv'
<1> USE StatsAssumptions
<1> DEFINE m == [call |-> r, part |-> sent[r] + 1]
           n == Len(wire)
<1>t. /\ wire \in Seq(Part) /\ sent \in [Call -> Nat] /\ \A q \in Call : sent[q] <= Parts[q]
    BY DEF PartsInv, StatsType
<1>0. /\ pc[r] \in Live \union {"returned"} /\ sent[r] < Parts[r]
      /\ wire' = Append(wire, m) /\ sent' = [sent EXCEPT ![r] = @ + 1]
      /\ UNCHANGED <<pc, cache, list, lost, job, timedOut>>
    BY DEF SendPart, Live
<1>m. m \in Part /\ m.call = r /\ m.part = sent[r] + 1 /\ sent[r] \in Nat
    BY <1>0, <1>t DEF Part
<1>w. /\ n \in Nat /\ Len(wire') = n + 1 /\ wire'[n + 1] = m
      /\ \A i \in 1..n : wire'[i] = wire[i] /\ wire[i].call \in Call /\ wire[i].part \in Nat
  <2>1. /\ n \in Nat /\ Len(wire') = n + 1 /\ wire'[n + 1] = m
        /\ \A i \in 1..n : wire'[i] = wire[i] /\ wire[i] \in Part
      BY <1>0, <1>t, <1>m
  <2> QED BY <2>1 DEF Part
<1>s. /\ sent'[r] = sent[r] + 1 /\ \A q \in Call \ {r} : sent'[q] = sent[q]
      /\ \A q \in Call : sent[q] \in Nat
    BY <1>0, <1>t
<1>1. StatsType'
  <2>1. wire' \in Seq(Part)
      BY <1>0, <1>t, <1>m
  <2>2. sent' \in [Call -> Nat] /\ \A q \in Call : sent'[q] <= Parts[q]
      BY <1>0, <1>t, <1>s
  <2> QED BY <2>1, <2>2, <1>0 DEF PartsInv, StatsType
<1> HIDE DEF m, n
<1>g. \A q, p : /\ Got(q, p)' <=> Got(q, p)
                /\ Lost(q, p)' <=> Lost(q, p)
                /\ Listed(q, p)' <=> Listed(q, p)
    BY <1>0 DEF Got, Lost, Listed, Holds
<1>2. CallsInOrder'
  <2> SUFFICES ASSUME NEW q \in Call
               PROVE  /\ pc'[q] \in Filed => q \in cache'
                      /\ pc'[q] = "returned" => q \notin cache'
                      /\ pc'[q] \notin Live \union {"returned"} =>
                            /\ sent'[q] = 0 /\ list'[q] = <<>> /\ ~UnderWay(q)'
                            /\ \A l \in lost' : l.call # q
      BY DEF CallsInOrder
  <2>1. CASE q = r
      BY <2>1, <1>0 DEF PartsInv, CallsInOrder
  <2>2. CASE q # r
    <3>1. UnderWay(q)' => UnderWay(q)
      <4> SUFFICES ASSUME NEW i \in 1..n + 1, wire'[i].call = q PROVE UnderWay(q)
          BY <1>0, <1>w DEF UnderWay
      <4>1. i \in 1..n
          BY <2>2, <1>w, <1>m
      <4> QED BY <4>1, <1>w DEF UnderWay, n
    <3> QED BY <3>1, <2>2, <1>0, <1>s DEF PartsInv, CallsInOrder
  <2> QED BY <2>1, <2>2
<1>3. ListsInOrder'
  <2>1. \A q \in Call, p \in Nat : Got(q, p)' => p <= sent'[q] /\ ~Lost(q, p)'
    <3> SUFFICES ASSUME NEW q \in Call, NEW p \in Nat, Got(q, p)
                 PROVE  p <= sent'[q] /\ ~Lost(q, p)
        BY <1>g
    <3>1. p <= sent[q] /\ ~Lost(q, p)
        BY DEF PartsInv, ListsInOrder
    <3> QED BY <3>1, <1>s
  <2> QED BY <2>1, <1>0 DEF PartsInv, ListsInOrder
<1>4. WireInOrder'
  <2>1. \A i \in 1..n : wire[i].part <= sent[wire[i].call]
      BY <1>w DEF PartsInv, WireInOrder, n
  <2>2. \A i \in 1..n + 1 : wire'[i].part <= sent'[wire'[i].call]
      BY <2>1, <1>w, <1>s, <1>m
  <2>3. \A i, j \in 1..n + 1 :
           i < j /\ wire'[i].call = wire'[j].call => wire'[i].part < wire'[j].part
    <3> SUFFICES ASSUME NEW i \in 1..n + 1, NEW j \in 1..n + 1,
                        i < j, wire'[i].call = wire'[j].call
                 PROVE  wire'[i].part < wire'[j].part
        OBVIOUS
    <3>1. CASE j = n + 1
        BY <3>1, <2>1, <1>w, <1>m
    <3>2. CASE j \in 1..n
      <4>1. wire[i].call = wire[j].call => wire[i].part < wire[j].part
          BY <3>2, <1>w DEF PartsInv, WireInOrder, n
      <4> QED BY <4>1, <3>2, <1>w
    <3> QED BY <3>1, <3>2, <1>w
  <2>4. \A q \in Call, p \in Nat : Got(q, p) \/ Lost(q, p) => p <= sent[q]
      BY DEF PartsInv, ListsInOrder, WireInOrder
  <2>5. ASSUME NEW i \in 1..n + 1, NEW p \in Nat, Got(wire'[i].call, p) \/ Lost(wire'[i].call, p)
        PROVE  p < wire'[i].part
    <3>1. CASE i = n + 1
        BY <2>4, <2>5, <3>1, <1>w, <1>m
    <3>2. CASE i \in 1..n
        BY <2>5, <3>2, <1>w DEF PartsInv, WireInOrder, n
    <3> QED BY <3>1, <3>2, <1>w
  <2>6. \A q \in Call, p \in Nat : Lost(q, p) => p <= sent'[q]
    <3> SUFFICES ASSUME NEW q \in Call, NEW p \in Nat, Lost(q, p) PROVE p <= sent'[q]
        OBVIOUS
    <3>1. p <= sent[q]
        BY <2>4
    <3> QED BY <3>1, <1>s
  <2> QED BY <2>2, <2>3, <2>5, <2>6, <1>g, <1>w DEF WireInOrder
<1>5. PartsAccounted'
  <2> SUFFICES ASSUME NEW q \in Call, Kept(q), NEW p \in 1..sent'[q]
               PROVE  Got(q, p) \/ Lost(q, p) \/ OnWire(q, p)'
      BY <1>0, <1>g DEF PartsAccounted, Kept
  <2>1. CASE p \in 1..sent[q]
    <3>1. OnWire(q, p) => OnWire(q, p)'
      <4> SUFFICES ASSUME NEW i \in 1..n, wire[i].call = q, wire[i].part = p PROVE OnWire(q, p)'
          BY DEF OnWire, n
      <4>1. i \in 1..n + 1 /\ wire'[i] = wire[i]
          BY <1>w
      <4> QED BY <4>1, <1>w DEF OnWire
    <3> QED BY <2>1, <3>1 DEF PartsInv, PartsAccounted
  <2>2. CASE p \notin 1..sent[q]
    <3>1. q = r /\ p = sent[r] + 1
        BY <2>2, <1>s
    <3>2. n + 1 \in 1..n + 1 /\ wire'[n + 1].call = q /\ wire'[n + 1].part = p
        BY <3>1, <1>w, <1>m
    <3> QED BY <3>2, <1>w DEF OnWire
  <2> QED BY <2>1, <2>2
<1>6. WokenHasLast'
    BY <1>0, <1>g DEF PartsInv, WokenHasLast
<1> QED BY <1>1, <1>2, <1>3, <1>4, <1>5, <1>6 DEF PartsInv

(* The first part leaves the wire: the rest is in the order it was in. *)
LEMMA TakeOff ==
    ASSUME PartsInv, wire # <<>>, wire' = Tail(wire), UNCHANGED sent
    PROVE  LET h == wire[1] n == Len(wire)
           IN  /\ n \in Nat \ {0} /\ Len(wire') = n - 1 /\ 1 \in 1..n
               /\ h = Head(wire) /\ h \in Part /\ h.call \in Call /\ h.part \in Nat /\ h # None
               /\ wire' \in Seq(Part)
               /\ h.part <= sent[h.call] /\ UnderWay(h.call)
               /\ \A i \in 1..n - 1 : /\ wire'[i] = wire[i + 1] /\ i + 1 \in 1..n
                                      /\ wire'[i].call \in Call /\ wire'[i].part \in Nat
                                      /\ wire'[i].part <= sent[wire'[i].call]
                                      /\ wire'[i].call = h.call => h.part < wire'[i].part
               /\ \A i, j \in 1..n - 1 :
                     i < j /\ wire'[i].call = wire'[j].call => wire'[i].part < wire'[j].part
               /\ \A q, p : OnWire(q, p) => OnWire(q, p)' \/ (q = h.call /\ p = h.part)
               /\ \A q : (\E i \in 1..Len(wire') : wire'[i].call = q)
                            => \E i \in 1..Len(wire) : wire[i].call = q
<1> DEFINE h == wire[1]
           n == Len(wire)
<1>t. wire \in Seq(Part)
    BY DEF PartsInv, StatsType
<1>1. /\ n \in Nat \ {0} /\ Len(wire') = n - 1 /\ 1 \in 1..n /\ h = Head(wire) /\ h \in Part
      /\ wire' \in Seq(Part)
      /\ \A i \in 1..n - 1 : wire'[i] = wire[i + 1] /\ i + 1 \in 1..n /\ 1 < i + 1
      /\ \A i \in 1..n : wire[i] \in Part
    BY <1>t
<1>2. /\ h.call \in Call /\ h.part \in Nat /\ h # None
      /\ \A i \in 1..n : wire[i].call \in Call /\ wire[i].part \in Nat
    BY <1>1, StatsAssumptions DEF Part
<1>f. /\ \A i \in 1..n : wire[i].part <= sent[wire[i].call]
      /\ \A i, j \in 1..n : i < j /\ wire[i].call = wire[j].call => wire[i].part < wire[j].part
    BY DEF PartsInv, WireInOrder
<1>3. \A i \in 1..n - 1 : /\ wire'[i].call \in Call /\ wire'[i].part \in Nat
                          /\ wire'[i].part <= sent[wire'[i].call]
                          /\ wire'[i].call = h.call => h.part < wire'[i].part
    BY <1>1, <1>2, <1>f
<1>4. ASSUME NEW i \in 1..n - 1, NEW j \in 1..n - 1, i < j, wire'[i].call = wire'[j].call
      PROVE  wire'[i].part < wire'[j].part
  <2>1. i + 1 \in 1..n /\ j + 1 \in 1..n /\ i + 1 < j + 1
      BY <1>1, <1>4
  <2> QED BY <2>1, <1>1, <1>4, <1>f
<1>5. ASSUME NEW q, NEW p, OnWire(q, p) PROVE OnWire(q, p)' \/ (q = h.call /\ p = h.part)
  <2>1. PICK i \in 1..n : wire[i].call = q /\ wire[i].part = p
      BY <1>5 DEF OnWire
  <2>2. CASE i = 1
      BY <2>1, <2>2
  <2>3. CASE i # 1
    <3>1. i - 1 \in 1..n - 1 /\ wire'[i - 1] = wire[i]
        BY <2>3, <1>1
    <3> QED BY <2>1, <3>1, <1>1 DEF OnWire
  <2> QED BY <2>2, <2>3
<1>6. \A q : (\E i \in 1..Len(wire') : wire'[i].call = q) => \E i \in 1..Len(wire) : wire[i].call = q
    BY <1>1
<1>7. UnderWay(h.call)
    BY <1>1 DEF UnderWay
<1>8. h.part <= sent[h.call]
    BY <1>1, <1>f
<1> HIDE DEF h, n
<1>9. /\ n \in Nat \ {0} /\ Len(wire') = n - 1 /\ 1 \in 1..n
      /\ h = Head(wire) /\ h \in Part /\ h.call \in Call /\ h.part \in Nat /\ h # None
      /\ wire' \in Seq(Part)
      /\ h.part <= sent[h.call] /\ UnderWay(h.call)
      /\ \A i \in 1..n - 1 : /\ wire'[i] = wire[i + 1] /\ i + 1 \in 1..n
                             /\ wire'[i].call \in Call /\ wire'[i].part \in Nat
                             /\ wire'[i].part <= sent[wire'[i].call]
                             /\ wire'[i].call = h.call => h.part < wire'[i].part
      /\ \A i, j \in 1..n - 1 :
            i < j /\ wire'[i].call = wire'[j].call => wire'[i].part < wire'[j].part
      /\ \A q, p : OnWire(q, p) => OnWire(q, p)' \/ (q = h.call /\ p = h.part)
      /\ \A q : (\E i \in 1..Len(wire') : wire'[i].call = q)
                   => \E i \in 1..Len(wire) : wire[i].call = q
  <2>1. \A i \in 1..n - 1 : /\ wire'[i] = wire[i + 1] /\ i + 1 \in 1..n
                            /\ wire'[i].call \in Call /\ wire'[i].part \in Nat
                            /\ wire'[i].part <= sent[wire'[i].call]
                            /\ wire'[i].call = h.call => h.part < wire'[i].part
      BY <1>1, <1>3
  <2>2. \A i, j \in 1..n - 1 :
            i < j /\ wire'[i].call = wire'[j].call => wire'[i].part < wire'[j].part
      BY <1>4
  <2>3. \A q, p : OnWire(q, p) => OnWire(q, p)' \/ (q = h.call /\ p = h.part)
      BY <1>5
  <2> QED BY <1>1, <1>2, <1>6, <1>7, <1>8, <2>1, <2>2, <2>3
<1> QED BY <1>9 DEF h, n

(* The QP thread drops the first part with the rest of a batch. *)
LEMMA DropStep == ASSUME PartsInv, DropRest PROVE PartsInv'
<1> USE StatsAssumptions
<1> DEFINE h == wire[1]
           n == Len(wire)
<1>0. /\ job = None /\ wire # <<>> /\ wire' = Tail(wire)
      /\ UNCHANGED <<pc, cache, list, sent, job, timedOut>>
      /\ lost' = lost \union {Head(wire)}
    BY DEF DropRest
<1>w. /\ n \in Nat \ {0} /\ Len(wire') = n - 1 /\ 1 \in 1..n
      /\ h = Head(wire) /\ h \in Part /\ h.call \in Call /\ h.part \in Nat
      /\ wire' \in Seq(Part)
      /\ h.part <= sent[h.call] /\ UnderWay(h.call)
      /\ \A i \in 1..n - 1 : /\ wire'[i] = wire[i + 1] /\ i + 1 \in 1..n
                             /\ wire'[i].part <= sent[wire'[i].call]
                             /\ wire'[i].call = h.call => h.part < wire'[i].part
      /\ \A i, j \in 1..n - 1 :
            i < j /\ wire'[i].call = wire'[j].call => wire'[i].part < wire'[j].part
      /\ \A q, p : OnWire(q, p) => OnWire(q, p)' \/ (q = h.call /\ p = h.part)
      /\ \A q : (\E i \in 1..Len(wire') : wire'[i].call = q)
                   => \E i \in 1..Len(wire) : wire[i].call = q
    BY <1>0, TakeOff
<1>b. \A p \in Nat : Got(h.call, p) => p < h.part
    BY <1>w DEF PartsInv, WireInOrder
<1>f. \A i \in 1..n - 1 : \A p \in Nat :
         Got(wire'[i].call, p) \/ Lost(wire'[i].call, p) => p < wire'[i].part
    BY <1>w DEF PartsInv, WireInOrder
<1> HIDE DEF h, n
<1>g. \A q, p : /\ Got(q, p)' <=> Got(q, p)
                /\ Listed(q, p)' <=> Listed(q, p)
                /\ Lost(q, p)' <=> Lost(q, p) \/ (q = h.call /\ p = h.part)
    BY <1>0, <1>w DEF Got, Lost, Listed, Holds
<1>1. StatsType'
    BY <1>0, <1>w DEF PartsInv, StatsType
<1>2. CallsInOrder'
  <2> SUFFICES ASSUME NEW q \in Call, pc[q] \notin Live \union {"returned"}
               PROVE  ~UnderWay(q)' /\ \A m \in lost' : m.call # q
      BY <1>0 DEF PartsInv, CallsInOrder
  <2>1. ~UnderWay(q) /\ \A m \in lost : m.call # q
      BY DEF PartsInv, CallsInOrder
  <2>2. h.call # q
      BY <2>1, <1>w
  <2>3. ~UnderWay(q)'
      BY <2>1, <1>0, <1>w DEF UnderWay
  <2> QED BY <2>1, <2>2, <2>3, <1>0, <1>w
<1>3. ListsInOrder'
  <2>1. \A q \in Call, p \in Nat : Got(q, p)' => p <= sent'[q] /\ ~Lost(q, p)'
    <3> SUFFICES ASSUME NEW q \in Call, NEW p \in Nat, Got(q, p)
                 PROVE  p <= sent[q] /\ ~Lost(q, p)'
        BY <1>0, <1>g
    <3>1. p <= sent[q] /\ ~Lost(q, p)
        BY DEF PartsInv, ListsInOrder
    <3>2. q = h.call => p < h.part
        BY <1>b
    <3> QED BY <3>1, <3>2, <1>g, <1>w
  <2> QED BY <2>1, <1>0 DEF PartsInv, ListsInOrder
<1>4. WireInOrder'
  <2>1. ASSUME NEW i \in 1..n - 1, NEW q, q = wire'[i].call, NEW p \in Nat,
               Got(q, p)' \/ Lost(q, p)'
        PROVE  p < wire'[i].part
      BY <2>1, <1>f, <1>g, <1>w
  <2>2. \A q \in Call, p \in Nat : Lost(q, p)' => p <= sent[q]
      BY <1>g, <1>w DEF PartsInv, WireInOrder
  <2> QED BY <2>1, <2>2, <1>0, <1>w DEF WireInOrder
<1>5. PartsAccounted'
  <2> SUFFICES ASSUME NEW q \in Call, Kept(q), NEW p \in 1..sent[q]
               PROVE  Got(q, p)' \/ Lost(q, p)' \/ OnWire(q, p)'
      BY <1>0 DEF PartsAccounted, Kept
  <2>1. Got(q, p) \/ Lost(q, p) \/ OnWire(q, p)
      BY DEF PartsInv, PartsAccounted
  <2> QED BY <2>1, <1>g, <1>w
<1>6. WokenHasLast'
    BY <1>0, <1>g DEF PartsInv, WokenHasLast
<1> QED BY <1>1, <1>2, <1>3, <1>4, <1>5, <1>6 DEF PartsInv

(* The QP thread takes the first part off the wire; if its call still has its *)
(* list in the cache it is to go there, and otherwise nobody misses it.       *)
LEMMA LookupStep == ASSUME PartsInv, Lookup PROVE PartsInv'
<1> USE StatsAssumptions
<1> DEFINE h == wire[1]
           n == Len(wire)
<1>0. /\ job = None /\ wire # <<>> /\ wire' = Tail(wire)
      /\ UNCHANGED <<pc, cache, list, lost, sent, timedOut>>
      /\ job' = IF Head(wire).call \in cache THEN Head(wire) ELSE None
    BY DEF Lookup
<1>w. /\ n \in Nat \ {0} /\ Len(wire') = n - 1 /\ 1 \in 1..n
      /\ h = Head(wire) /\ h \in Part /\ h.call \in Call /\ h.part \in Nat /\ h # None
      /\ wire' \in Seq(Part)
      /\ h.part <= sent[h.call] /\ UnderWay(h.call)
      /\ \A i \in 1..n - 1 : /\ wire'[i] = wire[i + 1] /\ i + 1 \in 1..n
                             /\ wire'[i].part <= sent[wire'[i].call]
                             /\ wire'[i].call = h.call => h.part < wire'[i].part
      /\ \A i, j \in 1..n - 1 :
            i < j /\ wire'[i].call = wire'[j].call => wire'[i].part < wire'[j].part
      /\ \A q, p : OnWire(q, p) => OnWire(q, p)' \/ (q = h.call /\ p = h.part)
      /\ \A q : (\E i \in 1..Len(wire') : wire'[i].call = q)
                   => \E i \in 1..Len(wire) : wire[i].call = q
    BY <1>0, TakeOff
<1>b. \A p \in Nat : Got(h.call, p) \/ Lost(h.call, p) => p < h.part
    BY <1>w DEF PartsInv, WireInOrder
<1>f. \A i \in 1..n - 1 : \A p \in Nat :
         Got(wire'[i].call, p) \/ Lost(wire'[i].call, p) => p < wire'[i].part
    BY <1>w DEF PartsInv, WireInOrder
<1>l. \A i \in 1..Len(list[h.call]) : list[h.call][i] \in Nat /\ Listed(h.call, list[h.call][i])
    BY <1>w DEF PartsInv, StatsType, Listed
<1> HIDE DEF h, n
<1>g. \A q, p : /\ Got(q, p)' <=> Got(q, p) \/ (h.call \in cache /\ q = h.call /\ p = h.part)
                /\ Listed(q, p)' <=> Listed(q, p)
                /\ Lost(q, p)' <=> Lost(q, p)
    BY <1>0, <1>w DEF Got, Lost, Listed, Holds
<1>1. StatsType'
    BY <1>0, <1>w DEF PartsInv, StatsType
<1>2. CallsInOrder'
  <2> SUFFICES ASSUME NEW q \in Call, pc[q] \notin Live \union {"returned"}
               PROVE  ~UnderWay(q)'
      BY <1>0 DEF PartsInv, CallsInOrder
  <2>1. ~UnderWay(q)
      BY DEF PartsInv, CallsInOrder
  <2>2. h.call # q
      BY <2>1, <1>w
  <2> QED BY <2>1, <2>2, <1>0, <1>w DEF UnderWay
<1>3. ListsInOrder'
  <2>1. \A q \in Call, p \in Nat : Got(q, p)' => p <= sent'[q] /\ ~Lost(q, p)'
    <3> SUFFICES ASSUME NEW q \in Call, NEW p \in Nat, Got(q, p)'
                 PROVE  p <= sent[q] /\ ~Lost(q, p)
        BY <1>0, <1>g
    <3>1. CASE Got(q, p)
        BY <3>1 DEF PartsInv, ListsInOrder
    <3>2. CASE q = h.call /\ p = h.part
        BY <3>2, <1>b, <1>w
    <3> QED BY <3>1, <3>2, <1>g
  <2>2. job' # None => \A i \in 1..Len(list[job'.call]) : list[job'.call][i] < job'.part
      BY <1>0, <1>b, <1>l, <1>w DEF Got
  <2> QED BY <2>1, <2>2, <1>0 DEF PartsInv, ListsInOrder
<1>4. WireInOrder'
  <2>1. ASSUME NEW i \in 1..n - 1, NEW q, q = wire'[i].call, NEW p \in Nat,
               Got(q, p)' \/ Lost(q, p)'
        PROVE  p < wire'[i].part
      BY <2>1, <1>f, <1>g, <1>w
  <2>2. \A q \in Call, p \in Nat : Lost(q, p)' => p <= sent[q]
      BY <1>g DEF PartsInv, WireInOrder
  <2> QED BY <2>1, <2>2, <1>0, <1>w DEF WireInOrder
<1>5. PartsAccounted'
  <2> SUFFICES ASSUME NEW q \in Call, Kept(q), NEW p \in 1..sent[q]
               PROVE  Got(q, p)' \/ Lost(q, p)' \/ OnWire(q, p)'
      BY <1>0 DEF PartsAccounted, Kept
  <2>1. Got(q, p) \/ Lost(q, p) \/ OnWire(q, p)
      BY DEF PartsInv, PartsAccounted
  <2>2. CASE q = h.call /\ p = h.part /\ h.call \notin cache
    <3>1. pc[q] = "returned" /\ q \notin timedOut
        BY <2>2 DEF Kept, PartsInv, CallsInOrder, Filed
    <3>2. Got(q, Parts[q])
        BY <3>1 DEF PartsInv, WokenHasLast, Got
    <3>3. Parts[q] \in Nat /\ sent[q] <= Parts[q] /\ sent[q] \in Nat
        BY DEF PartsInv, StatsType
    <3>4. Parts[q] < h.part /\ h.part <= sent[q]
        BY <2>2, <3>2, <3>3, <1>b, <1>w
    <3> QED BY <3>3, <3>4, <1>w
  <2> QED BY <2>1, <2>2, <1>g, <1>w
<1>6. WokenHasLast'
    BY <1>0, <1>g DEF PartsInv, WokenHasLast
<1> QED BY <1>1, <1>2, <1>3, <1>4, <1>5, <1>6 DEF PartsInv

(* The QP thread adds the part it holds; after the last one it wakes the caller. *)
LEMMA DeliverStep == ASSUME PartsInv, Deliver PROVE PartsInv'
<1> USE StatsAssumptions
<1> DEFINE r == job.call
           n == Len(list[r])
<1>t. /\ pc \in [Call -> PCs] /\ list \in [Call -> Seq(Nat)] /\ job \in Part \union {None}
    BY DEF PartsInv, StatsType
<1>0. /\ job # None /\ list' = [list EXCEPT ![r] = Append(@, job.part)]
      /\ pc' = (IF IsLast(job) /\ pc[r] = "wait" THEN [pc EXCEPT ![r] = "finally"] ELSE pc)
      /\ job' = None /\ UNCHANGED <<cache, wire, lost, sent, timedOut>>
    BY DEF Deliver
<1>r. r \in Call /\ job.part \in Nat /\ list[r] \in Seq(Nat)
    BY <1>0, <1>t DEF Part
<1>u. pc[r] \in Live \union {"returned"}
    BY <1>0, <1>r DEF PartsInv, CallsInOrder, UnderWay
<1>c. /\ \A q \in Call : q # r => pc'[q] = pc[q]
      /\ pc'[r] = pc[r] \/ (pc[r] = "wait" /\ pc'[r] = "finally" /\ job.part = Parts[r])
      /\ pc' \in [Call -> PCs]
    BY <1>0, <1>t, <1>r DEF IsLast, PCs, Filed, Live
<1>d. \A q \in Call : (pc'[q] \in Live <=> pc[q] \in Live)
                      /\ (pc'[q] = "returned" <=> pc[q] = "returned")
                      /\ (pc'[q] \in Filed <=> pc[q] \in Filed)
    BY <1>c DEF Live, Filed
<1>l. /\ list' \in [Call -> Seq(Nat)] /\ n \in Nat /\ Len(list'[r]) = n + 1
      /\ list'[r][n + 1] = job.part
      /\ \A i \in 1..n : list'[r][i] = list[r][i]
      /\ \A q \in Call : q # r => list'[q] = list[q]
    BY <1>0, <1>r, <1>t
<1>h. \A q \in Call : (Holds(q) <=> q = r) /\ ~Holds(q)'
    BY <1>0, <1>r DEF Holds
<1>j. \A i \in 1..n : list[r][i] < job.part
    BY <1>0 DEF PartsInv, ListsInOrder
<1> HIDE DEF r
<1>i. ASSUME NEW q \in Call, NEW p
      PROVE  Listed(q, p)' <=> Listed(q, p) \/ (q = r /\ p = job.part)
  <2>1. CASE q # r
    <3>1. list'[q] = list[q]
        BY <2>1, <1>l
    <3> QED BY <2>1, <3>1 DEF Listed
  <2>2. CASE q = r
    <3>1. /\ Len(list[q]) = n /\ Len(list'[q]) = n + 1 /\ list'[q][n + 1] = job.part
          /\ \A i \in 1..n : list'[q][i] = list[q][i]
        BY <2>2, <1>l
    <3>2. (\E i \in 1..n + 1 : list'[q][i] = p) <=> (\E i \in 1..n : list[q][i] = p) \/ job.part = p
      <4>1. ASSUME NEW i \in 1..n + 1, list'[q][i] = p
            PROVE  (\E k \in 1..n : list[q][k] = p) \/ job.part = p
        <5>1. i = n + 1 \/ i \in 1..n
            BY <1>l
        <5> QED BY <4>1, <5>1, <3>1
      <4>2. \A i \in 1..n : i \in 1..n + 1
          BY <1>l
      <4>3. n + 1 \in 1..n + 1
          BY <1>l
      <4> QED BY <4>1, <4>2, <4>3, <3>1
    <3> HIDE DEF n
    <3> QED BY <2>2, <3>1, <3>2 DEF Listed
  <2> QED BY <2>1, <2>2
<1>g. \A q \in Call : \A p : (Got(q, p)' <=> Got(q, p)) /\ (Lost(q, p)' <=> Lost(q, p))
                             /\ (OnWire(q, p)' <=> OnWire(q, p))
    BY <1>0, <1>h, <1>i DEF Got, Lost, OnWire
<1>1. StatsType'
    BY <1>0, <1>c, <1>l DEF PartsInv, StatsType
<1>2. CallsInOrder'
  <2> SUFFICES ASSUME NEW q \in Call
               PROVE  /\ pc'[q] \in Filed => q \in cache'
                      /\ pc'[q] = "returned" => q \notin cache'
                      /\ pc'[q] \notin Live \union {"returned"} =>
                            /\ sent'[q] = 0 /\ list'[q] = <<>> /\ ~UnderWay(q)'
                            /\ \A m \in lost' : m.call # q
      BY DEF CallsInOrder
  <2>1. UnderWay(q)' => UnderWay(q)
      BY <1>0 DEF UnderWay
  <2>2. CASE q = r
      BY <2>2, <1>d, <1>u, <1>0 DEF PartsInv, CallsInOrder
  <2>3. CASE q # r
      BY <2>1, <2>3, <1>d, <1>l, <1>0 DEF PartsInv, CallsInOrder
  <2> QED BY <2>2, <2>3
<1>3. ListsInOrder'
  <2>1. ASSUME NEW q \in Call, NEW i \in 1..Len(list'[q]), NEW j \in 1..Len(list'[q]), i < j
        PROVE  list'[q][i] < list'[q][j]
    <3>1. CASE q # r
        BY <2>1, <3>1, <1>l DEF PartsInv, ListsInOrder
    <3>2. CASE q = r /\ j = n + 1
        BY <2>1, <3>2, <1>l, <1>j
    <3>3. CASE q = r /\ j \in 1..n
      <4>1. i \in 1..n /\ j \in 1..n
          BY <2>1, <3>3, <1>l
      <4>2. \A k, l \in 1..n : k < l => list[r][k] < list[r][l]
          BY <1>r DEF PartsInv, ListsInOrder
      <4> QED BY <2>1, <3>3, <4>1, <4>2, <1>l
    <3> QED BY <3>1, <3>2, <3>3, <1>l
  <2>2. \A q \in Call, p \in Nat : Got(q, p)' => p <= sent'[q] /\ ~Lost(q, p)'
      BY <1>g, <1>0 DEF PartsInv, ListsInOrder
  <2> QED BY <2>1, <2>2, <1>0 DEF ListsInOrder
<1>4. WireInOrder'
  <2>1. \A i \in 1..Len(wire) : wire[i].call \in Call
    <3>1. wire \in Seq(Part)
        BY DEF PartsInv, StatsType
    <3>2. \A i \in 1..Len(wire) : wire[i] \in Part
        BY <3>1
    <3> QED BY <3>2 DEF Part
  <2> QED BY <2>1, <1>0, <1>g DEF PartsInv, WireInOrder
<1>5. PartsAccounted'
  <2>1. \A q \in Call : Kept(q)' <=> Kept(q)
      BY <1>d, <1>0 DEF Kept
  <2> QED BY <2>1, <1>g, <1>0 DEF PartsInv, PartsAccounted
<1>6. WokenHasLast'
  <2> SUFFICES ASSUME NEW q \in Call, pc'[q] \in {"finally", "returned"}, q \notin timedOut
               PROVE  Listed(q, Parts[q])'
      BY <1>0 DEF WokenHasLast
  <2>1. CASE pc'[q] = pc[q]
    <3>1. Listed(q, Parts[q])
        BY <2>1 DEF PartsInv, WokenHasLast
    <3> QED BY <3>1, <1>i
  <2>2. CASE pc'[q] # pc[q]
      BY <2>2, <1>c, <1>i
  <2> QED BY <2>1, <2>2
<1> QED BY <1>1, <1>2, <1>3, <1>4, <1>5, <1>6 DEF PartsInv

(* The page takes an answer and the call becomes the next one. *)
LEMMA AggregateStep == ASSUME PartsInv, NEW r \in Call, GotAggregate(r) PROVE PartsInv'
<1> USE StatsAssumptions
<1>t. /\ pc \in [Call -> PCs] /\ list \in [Call -> Seq(Nat)] /\ wire \in Seq(Part)
      /\ sent \in [Call -> Nat] /\ job \in Part \union {None} /\ lost \subseteq Part
      /\ \A q \in Call : sent[q] <= Parts[q]
    BY DEF PartsInv, StatsType
<1>0. /\ ~UnderWay(r) /\ pc' = [pc EXCEPT ![r] = "start"]
      /\ cache' = (IF pc[r] = "returned" THEN cache ELSE cache \ {r})
      /\ timedOut' = timedOut \ {r} /\ list' = [list EXCEPT ![r] = <<>>]
      /\ lost' = {m \in lost : m.call # r}
      /\ sent' = [sent EXCEPT ![r] = 0] /\ UNCHANGED <<wire, job>>
    BY DEF GotAggregate
<1>r. /\ pc'[r] = "start" /\ list'[r] = <<>> /\ sent'[r] = 0
      /\ \A q \in Call \ {r} : /\ pc'[q] = pc[q] /\ list'[q] = list[q] /\ sent'[q] = sent[q]
                              /\ (q \in cache' <=> q \in cache)
                              /\ (q \in timedOut' <=> q \in timedOut)
    BY <1>0, <1>t
<1>u. ~Holds(r) /\ \A i \in 1..Len(wire) : wire[i].call # r
    BY <1>0 DEF UnderWay, Holds
<1>g. \A p : /\ ~Got(r, p)' /\ ~Lost(r, p)'
             /\ \A q \in Call \ {r} : /\ Got(q, p)' <=> Got(q, p)
                                      /\ Lost(q, p)' <=> Lost(q, p)
                                      /\ OnWire(q, p)' <=> OnWire(q, p)
                                      /\ Listed(q, p)' <=> Listed(q, p)
    BY <1>0, <1>r, <1>u DEF Got, Lost, OnWire, Listed, Holds
<1>1. StatsType'
  <2>1. pc' \in [Call -> PCs]
      BY <1>0, <1>t DEF PCs
  <2>2. list' \in [Call -> Seq(Nat)]
      BY <1>0, <1>t
  <2>3. sent' \in [Call -> Nat] /\ \A q \in Call : sent'[q] <= Parts[q]
      BY <1>0, <1>t, <1>r
  <2> QED BY <2>1, <2>2, <2>3, <1>0 DEF PartsInv, StatsType
<1>2. CallsInOrder'
  <2>1. \A q \in Call : UnderWay(q)' <=> UnderWay(q)
      BY <1>0 DEF UnderWay
  <2>2. "start" \notin Filed
      BY DEF Filed, Live
  <2> QED BY <2>1, <2>2, <1>0, <1>r DEF PartsInv, CallsInOrder
<1>3. ListsInOrder'
  <2>1. job # None => job.call \in Call \ {r}
      BY <1>u, <1>t DEF Holds, Part
  <2>2. job' # None => \A i \in 1..Len(list'[job'.call]) : list'[job'.call][i] < job'.part
      BY <2>1, <1>0, <1>r DEF PartsInv, ListsInOrder
  <2>3. \A q \in Call, p \in Nat : Got(q, p)' => p <= sent'[q] /\ ~Lost(q, p)'
      BY <1>g, <1>r DEF PartsInv, ListsInOrder
  <2>4. \A q \in Call : \A i, j \in 1..Len(list'[q]) : i < j => list'[q][i] < list'[q][j]
      BY <1>r DEF PartsInv, ListsInOrder
  <2> QED BY <2>2, <2>3, <2>4 DEF ListsInOrder
<1>4. WireInOrder'
  <2>1. \A i \in 1..Len(wire) : wire[i].call \in Call \ {r}
    <3>1. \A i \in 1..Len(wire) : wire[i] \in Part
        BY <1>t
    <3>2. \A m \in Part : m.call \in Call
        BY DEF Part
    <3> QED BY <3>1, <3>2, <1>u
  <2>2. \A i \in 1..Len(wire) : wire[i].part <= sent'[wire[i].call]
      BY <2>1, <1>r DEF PartsInv, WireInOrder
  <2>3. ASSUME NEW i \in 1..Len(wire), NEW q, q = wire[i].call, NEW p \in Nat,
               Got(q, p)' \/ Lost(q, p)'
        PROVE  p < wire[i].part
    <3>1. q \in Call \ {r} /\ (Got(q, p) \/ Lost(q, p))
        BY <2>1, <2>3, <1>g
    <3> QED BY <2>3, <3>1 DEF PartsInv, WireInOrder
  <2>4. \A q \in Call, p \in Nat : Lost(q, p)' => p <= sent'[q]
      BY <1>g, <1>r DEF PartsInv, WireInOrder
  <2> QED BY <2>2, <2>3, <2>4, <1>0 DEF PartsInv, WireInOrder
<1>5. PartsAccounted'
  <2> SUFFICES ASSUME NEW q \in Call, Kept(q)', NEW p \in 1..sent'[q]
               PROVE  Got(q, p)' \/ Lost(q, p)' \/ OnWire(q, p)'
      BY DEF PartsAccounted
  <2>1. q # r
      BY <1>r DEF Kept, Live
  <2>2. Kept(q) /\ p \in 1..sent[q]
      BY <2>1, <1>r DEF Kept
  <2> QED BY <2>1, <2>2, <1>g DEF PartsInv, PartsAccounted
<1>6. WokenHasLast'
    BY <1>r, <1>g DEF PartsInv, WokenHasLast
<1> QED BY <1>1, <1>2, <1>3, <1>4, <1>5, <1>6 DEF PartsInv

(* A step that leaves the calls and their replies alone preserves the invariant. *)
LEMMA QuietStep == PartsInv /\ UNCHANGED calls => PartsInv'
<1> SUFFICES ASSUME PartsInv, UNCHANGED calls PROVE PartsInv'
    OBVIOUS
<1>1. UNCHANGED <<pc, cache, list, wire, lost, sent, job, timedOut>>
    BY DEF calls
<1>2. \A r \in Call : (UnderWay(r)' <=> UnderWay(r)) /\ (Kept(r)' <=> Kept(r))
    BY <1>1 DEF UnderWay, Kept
<1>3. \A r, p : /\ Got(r, p)' <=> Got(r, p)
                /\ Lost(r, p)' <=> Lost(r, p)
                /\ OnWire(r, p)' <=> OnWire(r, p)
                /\ Listed(r, p)' <=> Listed(r, p)
    BY <1>1 DEF Got, Lost, OnWire, Listed, Holds
<1>4. StatsType' /\ CallsInOrder' /\ ListsInOrder'
    BY <1>1, <1>2, <1>3 DEF PartsInv, StatsType, CallsInOrder, ListsInOrder
<1>5. WireInOrder' /\ PartsAccounted' /\ WokenHasLast'
    BY <1>1, <1>2, <1>3 DEF PartsInv, WireInOrder, PartsAccounted, WokenHasLast
<1> QED BY <1>4, <1>5 DEF PartsInv

(* Every step of a caller preserves the invariant. *)
LEMMA ServeStep == ASSUME PartsInv, NEW r \in Call, ServeCall(r) PROVE PartsInv'
<1> USE DEF PCs, Filed, Live
<1>t. pc \in [Call -> PCs] /\ cache \subseteq Call
    BY DEF PartsInv, StatsType
<1>c. pc[r] \in Filed => r \in cache
    BY DEF PartsInv, CallsInOrder
<1>1. CASE NoSwitch(r)
    BY <1>1, <1>t, <1>c, CallerStep DEF NoSwitch, Goto
<1>2. CASE Ask(r)
    BY <1>2, <1>t, <1>c, CallerStep DEF Ask, SetResponseCacheItem, Goto
<1>3. CASE CheckConnection(r)
    BY <1>3, <1>t, <1>c, CallerStep DEF CheckConnection, Goto
<1>4. CASE Write(r)
    BY <1>4, <1>t, <1>c, CallerStep DEF Write, Goto
<1>5. CASE Wait(r)
    BY <1>5, <1>t, <1>c, CallerStep DEF Wait, Goto
<1>6. CASE Timeout(r)
    BY <1>6, <1>t, <1>c, CallerStep DEF Timeout, Goto
<1>7. CASE Return(r)
    BY <1>7, <1>t, <1>c, CallerStep DEF Return, Goto
<1> QED BY <1>1, <1>2, <1>3, <1>4, <1>5, <1>6, <1>7 DEF ServeCall

(* Every step of the controller, the switch and the page preserves the invariant. *)
LEMMA PartsStep == PartsInv /\ [PageNext]_pageVars => PartsInv'
<1> SUFFICES ASSUME PartsInv, [PageNext]_pageVars PROVE PartsInv'
    OBVIOUS
<1>1. ASSUME NEW r \in Call, ServeCall(r) PROVE PartsInv'
    BY <1>1, ServeStep
<1>2. ASSUME NEW r \in Call, SwitchSends(r) PROVE PartsInv'
    BY <1>2, SendStep DEF SwitchSends
<1>3. CASE ServeQP
    BY <1>3, DropStep, LookupStep, DeliverStep DEF ServeQP, QP
<1>4. ASSUME NEW r \in Call, GotAggregate(r) PROVE PartsInv'
    BY <1>4, AggregateStep
<1>5. ASSUME Register \/ Disconnect \/ Expire \/ Poll \/ GotError \/ UNCHANGED pageVars
      PROVE  PartsInv'
    BY <1>5, QuietStep DEF Register, Disconnect, Expire, ExpireConnection, Poll, GotError,
                           pageVars, server, calls
<1>6. ASSUME NEW listed \in BOOLEAN, GotList(listed) PROVE PartsInv'
    BY <1>6, QuietStep DEF GotList, server, calls
<1> QED BY <1>1, <1>2, <1>3, <1>4, <1>5, <1>6 DEF PageNext, Browser

(* For any number of calls, any length of replies, any loss, delay or timeout:   *)
(* a caller that the switch has woken returns, in order, exactly the parts of    *)
(* its reply that the QP thread did not drop with the rest of a batch, and so    *)
(* the whole reply if it dropped none.                                           *)
THEOREM NotifiedHolds == PageSpec => []NotifiedIsComplete
<1>1. PartsInv => NotifiedIsComplete
  <2> SUFFICES ASSUME PartsInv, NEW r \in Call,
                      pc[r] \in {"finally", "returned"}, r \notin timedOut
               PROVE  /\ \A i, j \in 1..Len(list[r]) : i < j => list[r][i] < list[r][j]
                      /\ \A p \in 1..Parts[r] : (\E i \in 1..Len(list[r]) : list[r][i] = p)
                                                   <=> [call |-> r, part |-> p] \notin lost
      BY DEF NotifiedIsComplete
  <2>1. \A i, j \in 1..Len(list[r]) : i < j => list[r][i] < list[r][j]
      BY DEF PartsInv, ListsInOrder
  <2>2. Listed(r, Parts[r]) /\ Kept(r) /\ Parts[r] \in Nat
      BY StatsAssumptions DEF PartsInv, WokenHasLast, Kept, Live
  <2>3. sent[r] = Parts[r]
      BY <2>2 DEF PartsInv, StatsType, ListsInOrder, Got
  <2>4. ASSUME NEW p \in 1..Parts[r] PROVE Listed(r, p) <=> ~Lost(r, p)
    <3>1. Listed(r, p) => ~Lost(r, p)
        BY <2>2 DEF PartsInv, ListsInOrder, Got
    <3>2. ~OnWire(r, p)
      <4> SUFFICES ASSUME NEW i \in 1..Len(wire), wire[i].call = r, wire[i].part = p PROVE FALSE
          BY DEF OnWire
      <4>1. Parts[r] < p
          BY <2>2 DEF PartsInv, WireInOrder, Got
      <4> QED BY <2>2, <4>1
    <3>3. ~(Holds(r) /\ job.part = p)
      <4> SUFFICES ASSUME Holds(r), job.part = p PROVE FALSE
          OBVIOUS
      <4>1. PICK i \in 1..Len(list[r]) : list[r][i] = Parts[r]
          BY <2>2 DEF Listed
      <4>2. Parts[r] < p
          BY <4>1 DEF Holds, PartsInv, ListsInOrder
      <4> QED BY <2>2, <4>2
    <3>4. Got(r, p) \/ Lost(r, p) \/ OnWire(r, p)
        BY <2>2, <2>3 DEF PartsInv, PartsAccounted
    <3> QED BY <3>1, <3>2, <3>3, <3>4 DEF Got
  <2>5. ASSUME NEW p \in 1..Parts[r] PROVE Lost(r, p) <=> [call |-> r, part |-> p] \in lost
    <3>1. \A m \in lost : m \in [call : Call, part : Nat \ {0}]
        BY DEF PartsInv, StatsType, Part
    <3>2. \A m \in lost : m.call = r /\ m.part = p => m = [call |-> r, part |-> p]
        BY <3>1
    <3> QED BY <3>2 DEF Lost
  <2> QED BY <2>1, <2>4, <2>5 DEF Listed
<1> QED BY <1>1, PartsInit, PartsStep, PTL DEF PageSpec
=============================================================================
