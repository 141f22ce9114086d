--------------------------- MODULE DevicesProofs ---------------------------
(***************************************************************************)
(* Proofs about Devices, for any hosts, switches, ports and topologies.    *)
(* First the lists of attachment points, then the types of what the        *)
(* threads share, then what an undisturbed call has found and placed.      *)
(***************************************************************************)
EXTENDS Devices, FiniteSetTheorems, WellFoundedInduction, TLAPS

(* A set of positions has a first one. *)
LEMMA MinIn ==
    ASSUME NEW S \in SUBSET Nat, S # {}
    PROVE  Min(S) \in S /\ \A i \in S : Min(S) <= i
<1> DEFINE R == OpToRel(<, Nat)
<1>1. IsWellFoundedOn(R, Nat)
    BY NatLessThanWellFounded
<1>2. \A x, y \in Nat : x < y => <<x, y>> \in R
    BY DEF OpToRel
<1> HIDE DEF R
<1>3. PICK v \in S : \A w \in S : ~(<<w, v>> \in R)
    BY <1>1, WFMin
<1>4. \A w \in S : v <= w
  <2> TAKE w \in S
  <2>1. v \in Nat /\ w \in Nat /\ ~(w < v)
    BY <1>2, <1>3
  <2> QED BY <2>1
<1> QED BY <1>4 DEF Min

(* The positions of a list that are kept are counted through, up to their number. *)
LEMMA PositionsCounted ==
    ASSUME NEW m \in Nat, NEW K \in SUBSET (1..m)
    PROVE  /\ Cardinality(K) \in Nat
           /\ \A i \in K : Cardinality({j \in K : j <= i}) \in 1..Cardinality(K)
           /\ \A n \in 1..Cardinality(K) : \E i \in K : Cardinality({j \in K : j <= i}) = n
<1> DEFINE upto(i) == {j \in K : j <= i}
           f == [i \in K |-> Cardinality(upto(i))]
<1>1. IsFiniteSet(K) /\ Cardinality(K) \in Nat
  <2>1. IsFiniteSet(1..m)
    BY FS_Interval
  <2> QED BY <2>1, FS_Subset, FS_CardinalityType
<1>2. \A i \in K : /\ IsFiniteSet(upto(i)) /\ Cardinality(upto(i)) \in Nat
                   /\ Cardinality(upto(i)) <= Cardinality(K) /\ Cardinality(upto(i)) # 0
  <2> TAKE i \in K
  <2>1. upto(i) \in SUBSET K /\ i \in upto(i)
    OBVIOUS
  <2> HIDE DEF upto
  <2> QED BY <1>1, <2>1, FS_Subset, FS_CardinalityType, FS_EmptySet
<1>3. \A i \in K : Cardinality(upto(i)) \in 1..Cardinality(K)
    BY <1>1, <1>2
<1>4. ASSUME NEW i \in K, NEW k \in K, i < k PROVE Cardinality(upto(i)) # Cardinality(upto(k))
  <2>1. i \in Nat /\ k \in Nat /\ \A j \in K : j \in Nat
    OBVIOUS
  <2>2. upto(i) \in SUBSET upto(k) /\ k \in upto(k) /\ k \notin upto(i)
    <3>1. \A j \in K : j <= i => j <= k
      BY <1>4, <2>1
    <3>2. k <= k /\ ~(k <= i)
      BY <1>4, <2>1
    <3> QED BY <3>1, <3>2
  <2> HIDE DEF upto
  <2> QED BY <1>2, <2>2, FS_Subset
<1> HIDE DEF upto
<1>5. f \in Injection(K, 1..Cardinality(K))
  <2>1. f \in [K -> 1..Cardinality(K)]
    BY <1>3
  <2>2. \A i, k \in K : i < k \/ k < i \/ i = k
    OBVIOUS
  <2>3. \A i, k \in K : f[i] = f[k] => i = k
    BY <1>4, <2>2
  <2> QED BY <2>1, <2>3 DEF Injection, IsInjective
<1>6. IsFiniteSet(1..Cardinality(K)) /\ Cardinality(1..Cardinality(K)) = Cardinality(K)
    BY <1>1, FS_Interval
<1>7. f \in Surjection(K, 1..Cardinality(K))
    BY <1>5, <1>6, FS_Injection
<1>8. \A n \in 1..Cardinality(K) : \E i \in K : f[i] = n
    BY <1>7 DEF Surjection
<1> QED BY <1>1, <1>3, <1>8 DEF upto

(* What is kept of a list is a list, of the elements at the positions kept.       *)
LEMMA KeptIs ==
    ASSUME NEW S, NEW l \in Seq(S), NEW K \in SUBSET DOMAIN l
    PROVE  /\ Kept(l, K) \in Seq(S)
           /\ \A n \in DOMAIN Kept(l, K) : \E i \in K : Kept(l, K)[n] = l[i]
           /\ \A i \in K : \E n \in DOMAIN Kept(l, K) : Kept(l, K)[n] = l[i]
<1> DEFINE C == Cardinality(K)
           count(i) == Cardinality({j \in K : j <= i})
           at(n) == CHOOSE i \in K : count(i) = n
<1>1. Len(l) \in Nat /\ DOMAIN l = 1..Len(l) /\ \A i \in DOMAIN l : l[i] \in S
    OBVIOUS
<1>2. /\ C \in Nat /\ \A i \in K : count(i) \in 1..C
      /\ \A n \in 1..C : \E i \in K : count(i) = n
    BY <1>1, PositionsCounted
<1>3. Kept(l, K) = [n \in 1..C |-> l[at(n)]]
    BY DEF Kept
<1> HIDE DEF C, count
<1>4. \A n \in 1..C : at(n) \in K /\ count(at(n)) = n
    BY <1>2
<1>5. \A i, k \in K : count(i) = count(k) => i = k
  <2>1. IsFiniteSet(K)
    <3>1. IsFiniteSet(1..Len(l))
      BY <1>1, FS_Interval
    <3> QED BY <1>1, <3>1, FS_Subset
  <2>2. \A i, k \in K : i < k => count(i) # count(k)
    <3> TAKE i, k \in K
    <3> DEFINE A == {j \in K : j <= i}
               B == {j \in K : j <= k}
    <3>1. SUFFICES ASSUME i < k PROVE Cardinality(A) # Cardinality(B)
      BY DEF count
    <3>2. A \in SUBSET B /\ B \in SUBSET K /\ k \in B /\ k \notin A
      BY <1>1, <3>1
    <3> HIDE DEF A, B
    <3> QED BY <2>1, <3>2, FS_Subset
  <2>3. \A i, k \in K : i < k \/ k < i \/ i = k
    BY <1>1
  <2> QED BY <2>2, <2>3
<1>6. \A i \in K : at(count(i)) = i
    BY <1>2, <1>4, <1>5
<1> HIDE DEF at
<1>7. Kept(l, K) \in [1..C -> S]
    BY <1>1, <1>3, <1>4
<1>8. Kept(l, K) \in Seq(S) /\ DOMAIN Kept(l, K) = 1..C
    BY <1>2, <1>7
<1> QED BY <1>2, <1>3, <1>4, <1>6, <1>8

(* A finite set is listed by its own elements.                                    *)
LEMMA SetToSeqIs ==
    ASSUME NEW T, NEW S \in SUBSET T, IsFiniteSet(S)
    PROVE  /\ SetToSeq(S) \in Seq(T)
           /\ \A i \in DOMAIN SetToSeq(S) : SetToSeq(S)[i] \in S
<1>1. Cardinality(S) \in Nat /\ ExistsBijection(1..Cardinality(S), S)
    BY FS_CardinalityType
<1>2. \E f \in [1..Cardinality(S) -> S] : IsInjective(f)
    BY <1>1 DEF ExistsBijection, Bijection, Injection
<1>3. SetToSeq(S) \in [1..Cardinality(S) -> S]
    BY <1>2 DEF SetToSeq
<1> QED BY <1>1, <1>3
-----------------------------------------------------------------------------
(* getAPMap: valid attachment points of the list, at most one of a domain.        *)
LEMMA APMapIs ==
    ASSUME NEW k \in Nat, NEW l \in Seq(1..k)
    PROVE  /\ APMap(l) \in SUBSET (1..k) /\ IsFiniteSet(APMap(l))
           /\ \A a \in APMap(l) : Valid(port(a)) /\ \E i \in DOMAIN l : l[i] = a
           /\ \A a, b \in APMap(l) : Domain(port(a)) = Domain(port(b)) => a = b
<1> DEFINE Latest(j) == \A i \in DOMAIN l : i > j /\ Valid(port(l[i]))
                                              => Domain(port(l[i])) # Domain(port(l[j]))
<1>1. DOMAIN l = 1..Len(l) /\ Len(l) \in Nat /\ \A i \in DOMAIN l : l[i] \in 1..k
    OBVIOUS
<1>2. \A a \in APMap(l) : \E i \in DOMAIN l : l[i] = a /\ Valid(port(l[i])) /\ Latest(i)
    BY DEF APMap
<1>3. APMap(l) \in SUBSET (1..k)
    BY <1>1, <1>2
<1>4. IsFiniteSet(APMap(l))
  <2>1. IsFiniteSet(1..k)
    BY FS_Interval
  <2> QED BY <1>3, <2>1, FS_Subset
<1>5. ASSUME NEW a \in APMap(l), NEW b \in APMap(l), Domain(port(a)) = Domain(port(b))
      PROVE  a = b
  <2>1. PICK i \in DOMAIN l : l[i] = a /\ Valid(port(l[i])) /\ Latest(i)
    BY <1>2
  <2>2. PICK j \in DOMAIN l : l[j] = b /\ Valid(port(l[j])) /\ Latest(j)
    BY <1>2
  <2>3. ~(i > j) /\ ~(j > i)
    BY <1>5, <2>1, <2>2
  <2>4. i = j
    BY <1>1, <2>3
  <2> QED BY <2>1, <2>2, <2>4
<1> QED BY <1>2, <1>3, <1>4, <1>5

(* A domain in which the list has a valid attachment point has one in the map.    *)
LEMMA DomainHasOne ==
    ASSUME NEW k \in Nat, NEW l \in Seq(1..k), NEW m \in DOMAIN l, Valid(port(l[m]))
    PROVE  \E i \in DOMAIN l : /\ l[i] \in APMap(l)
                               /\ Domain(port(l[i])) = Domain(port(l[m]))
<1> DEFINE D == {i \in DOMAIN l : Valid(port(l[i])) /\ Domain(port(l[i])) = Domain(port(l[m]))}
           B == {Len(l) - i : i \in D}
<1>1. DOMAIN l = 1..Len(l) /\ Len(l) \in Nat
    OBVIOUS
<1>2. B \in SUBSET Nat /\ B # {}
    BY <1>1
<1>3. Min(B) \in B /\ \A x \in B : Min(B) <= x
  <2> HIDE DEF B
  <2> QED BY <1>2, MinIn
<1>4. PICK i \in D : \A j \in D : Len(l) - i <= Len(l) - j
    BY <1>3
<1>5. \A j \in D : j <= i
    BY <1>1, <1>4
<1>6. \A j \in DOMAIN l : j > i /\ Valid(port(l[j])) => Domain(port(l[j])) # Domain(port(l[i]))
    BY <1>1, <1>5
<1>7. l[i] \in APMap(l)
    BY <1>6 DEF APMap
<1> QED BY <1>7

(* A valid attachment point at the end of the list is in the map.                 *)
LEMMA LastOneIn ==
    ASSUME NEW k \in Nat, NEW l \in Seq(1..k), NEW n \in 1..k, Valid(port(n))
    PROVE  n \in APMap(Append(l, n))
<1> DEFINE r == Append(l, n)
           e == Len(l) + 1
<1>1. DOMAIN r = 1..e /\ Len(l) \in Nat /\ r[e] = n
    OBVIOUS
<1> HIDE DEF r
<1>2. e \in DOMAIN r /\ \A i \in DOMAIN r : ~(i > e)
    BY <1>1
<1>3. r[e] \in APMap(r)
    BY <1>1, <1>2 DEF APMap
<1> QED BY <1>1, <1>3 DEF r

(* What retainAll leaves is of the list; all that is in the map stays, and of     *)
(* their domains nothing else is valid.                                           *)
LEMMA RetainAllIs ==
    ASSUME NEW k \in Nat, NEW l \in Seq(1..k), NEW S \in SUBSET (1..k)
    PROVE  /\ RetainAll(l, S) \in Seq(1..k)
           /\ \A m \in DOMAIN RetainAll(l, S) : \E b \in S : port(b) = port(RetainAll(l, S)[m])
           /\ \A i \in DOMAIN l : l[i] \in S =>
                 \E m \in DOMAIN RetainAll(l, S) : RetainAll(l, S)[m] = l[i]
<1> DEFINE K == {i \in DOMAIN l : \E b \in S : port(b) = port(l[i])}
<1>1. K \in SUBSET DOMAIN l /\ \A i \in K : \E b \in S : port(b) = port(l[i])
    OBVIOUS
<1>2. \A i \in DOMAIN l : l[i] \in S => i \in K
    OBVIOUS
<1>3. RetainAll(l, S) = Kept(l, K)
    BY DEF RetainAll
<1> HIDE DEF K
<1> QED BY <1>1, <1>2, <1>3, KeptIs

(* retainAll with the map leaves the port of each of its attachment points.       *)
LEMMA RetainedStays ==
    ASSUME NEW k \in Nat, NEW l \in Seq(1..k), NEW old \in APMap(l)
    PROVE  \E a \in APMap(RetainAll(l, APMap(l))) : port(a) = port(old)
<1> DEFINE V == APMap(l)
           r == RetainAll(l, V)
<1>0. V \in SUBSET (1..k)
    BY APMapIs
<1>1. /\ r \in Seq(1..k)
      /\ \A m \in DOMAIN r : \E b \in V : port(b) = port(r[m])
      /\ \A m \in DOMAIN l : l[m] \in V => \E n \in DOMAIN r : r[n] = l[m]
  <2> HIDE DEF V
  <2> QED BY <1>0, RetainAllIs
<1>2. PICK i \in DOMAIN l : l[i] = old
    BY APMapIs
<1>3. PICK m \in DOMAIN r : r[m] = old
  <2> HIDE DEF r
  <2> QED BY <1>1, <1>2
<1>4. Valid(port(r[m]))
    BY <1>3, APMapIs
<1> HIDE DEF r
<1>5. PICK j \in DOMAIN r : r[j] \in APMap(r) /\ Domain(port(r[j])) = Domain(port(r[m]))
    BY <1>1, <1>4, DomainHasOne
<1>6. PICK b \in APMap(l) : port(b) = port(r[j])
    BY <1>1, <1>5
<1>7. Domain(port(b)) = Domain(port(old))
    BY <1>3, <1>5, <1>6
<1>8. b = old
    BY <1>7, APMapIs
<1> QED BY <1>5, <1>6, <1>8 DEF r

(* addIfAbsent gives a list, which is in the map with the port of the new one     *)
(* unless an equal one was there.                                                 *)
LEMMA AddIfAbsentIs ==
    ASSUME NEW k \in Nat, NEW l \in Seq(1..k), NEW n \in 1..k
    PROVE  /\ AddIfAbsent(l, n) \in Seq(1..k)
           /\ Valid(port(n)) /\ (\A i \in DOMAIN l : port(l[i]) # port(n))
                => n \in APMap(AddIfAbsent(l, n))
<1>1. Append(l, n) \in Seq(1..k)
    OBVIOUS
<1> QED BY <1>1, LastOneIn DEF AddIfAbsent
-----------------------------------------------------------------------------
(* The second half of updateAttachmentPoint, case by case.                        *)
LEMMA PlaceIs ==
    ASSUME NEW k \in Nat, NEW d \in Device(k), NEW view \in SUBSET (1..k), NEW n \in 1..k,
           NEW reused \in BOOLEAN
    PROVE  LET r == Place(d, view, n, reused)
           IN  /\ r \in Device(k) /\ r.id = d.id /\ r.ents = d.ents
               /\ view = {} => r.aps = Append(d.aps, n)
               /\ view # {} /\ SameDomain(view, n) = {} => r.aps = AddIfAbsent(SetToSeq(view), n)
               /\ SameDomain(view, n) # {} =>
                     \E old \in SameDomain(view, n) :
                        /\ port(old) = port(n) => r.aps = RetainAll(d.aps, view)
                        /\ port(old) # port(n) /\ Displaces(old, n)
                             => r.aps = AddIfAbsent(RetainAll(d.aps, view), n)
                        /\ port(old) # port(n) /\ ~Displaces(old, n) => r.aps = d.aps
<1> DEFINE found == SameDomain(view, n)
           old == CHOOSE a \in found : TRUE
           A == Append(d.aps, n)
           B == AddIfAbsent(SetToSeq(view), n)
           C == RetainAll(d.aps, view)
           D == AddIfAbsent(C, n)
           O == Append(d.old, old)
           N == Append(d.old, n)
           r == Place(d, view, n, reused)
<1>1. d.aps \in Seq(1..k) /\ d.old \in Seq(1..k)
    BY DEF Device
<1>2. IsFiniteSet(view)
  <2>1. IsFiniteSet(1..k)
    BY FS_Interval
  <2> QED BY <2>1, FS_Subset
<1>3. A \in Seq(1..k) /\ N \in Seq(1..k)
    BY <1>1
<1>4. B \in Seq(1..k)
  <2>1. SetToSeq(view) \in Seq(1..k)
    BY <1>2, SetToSeqIs
  <2> QED BY <2>1, AddIfAbsentIs
<1>5. C \in Seq(1..k) /\ D \in Seq(1..k)
    BY <1>1, RetainAllIs, AddIfAbsentIs
<1>6. found # {} => old \in found /\ O \in Seq(1..k)
  <2>1. found \in SUBSET (1..k)
    BY DEF SameDomain
  <2>2. found # {} => old \in found
    OBVIOUS
  <2>3. \A o \in 1..k : Append(d.old, o) \in Seq(1..k)
    BY <1>1
  <2> QED BY <2>1, <2>2, <2>3
<1>7. found # {} => view # {}
    BY DEF SameDomain
<1>8. r = CASE view = {} -> [d EXCEPT !.aps = A]
            [] view # {} /\ found = {} -> [d EXCEPT !.aps = B]
            [] found # {} /\ port(old) = port(n) -> [d EXCEPT !.aps = C]
            [] found # {} /\ port(old) # port(n) /\ Displaces(old, n) ->
                 [d EXCEPT !.aps = D, !.old = O]
            [] OTHER -> IF reused THEN [d EXCEPT !.old = N] ELSE d
    BY DEF Place
<1> HIDE DEF found, old, A, B, C, D, O, N, r
<1>9. CASE view = {}
  <2>1. r = [d EXCEPT !.aps = A]
    BY <1>7, <1>8, <1>9
  <2> QED BY <1>3, <1>7, <1>9, <2>1 DEF Device, A, r, found
<1>10. CASE view # {} /\ found = {}
  <2>1. r = [d EXCEPT !.aps = B]
    BY <1>8, <1>10
  <2> QED BY <1>4, <1>10, <2>1 DEF Device, B, r, found
<1>11. CASE found # {} /\ port(old) = port(n)
  <2>1. r = [d EXCEPT !.aps = C]
    BY <1>7, <1>8, <1>11
  <2>2. r \in Device(k) /\ r.id = d.id /\ r.ents = d.ents /\ r.aps = C
    BY <1>5, <2>1 DEF Device
  <2> QED BY <1>6, <1>7, <1>11, <2>2 DEF C, r, found
<1>12. CASE found # {} /\ port(old) # port(n) /\ Displaces(old, n)
  <2>1. r = [d EXCEPT !.aps = D, !.old = O]
    BY <1>7, <1>8, <1>12
  <2>2. r \in Device(k) /\ r.id = d.id /\ r.ents = d.ents /\ r.aps = D
    BY <1>5, <1>6, <1>12, <2>1 DEF Device
  <2> QED BY <1>6, <1>7, <1>12, <2>2 DEF C, D, r, found
<1>13. CASE found # {} /\ port(old) # port(n) /\ ~Displaces(old, n)
  <2>1. r = IF reused THEN [d EXCEPT !.old = N] ELSE d
    BY <1>7, <1>8, <1>13
  <2>2. r \in Device(k) /\ r.id = d.id /\ r.ents = d.ents /\ r.aps = d.aps
    BY <1>3, <2>1 DEF Device
  <2> QED BY <1>6, <1>7, <1>13, <2>2 DEF r, found
<1> QED BY <1>9, <1>10, <1>11, <1>12, <1>13

(* A new attachment point is in the map after that, or an equal one is, or the   *)
(* one of its domain that it does not displace.                                   *)
LEMMA PlacePuts ==
    ASSUME NEW k \in Nat, NEW d \in Device(k), NEW n \in 1..k, NEW reused \in BOOLEAN,
           Valid(port(n))
    PROVE  \E a \in APMap(Place(d, APMap(d.aps), n, reused).aps) :
              \/ port(a) = port(n)
              \/ /\ a \in APMap(d.aps) /\ Domain(port(a)) = Domain(port(n))
                 /\ port(a) # port(n) /\ ~Displaces(a, n)
<1> DEFINE view == APMap(d.aps)
           r == Place(d, view, n, reused)
<1>1. d.aps \in Seq(1..k)
    BY DEF Device
<1>2. view \in SUBSET (1..k) /\ IsFiniteSet(view)
    BY <1>1, APMapIs
<1> HIDE DEF view, r
<1>3. CASE view = {}
  <2>1. r.aps = Append(d.aps, n)
    BY <1>2, <1>3, PlaceIs DEF r
  <2> QED BY <1>1, <2>1, LastOneIn DEF r, view
<1>4. CASE view # {} /\ SameDomain(view, n) = {}
  <2>1. r.aps = AddIfAbsent(SetToSeq(view), n)
    BY <1>2, <1>4, PlaceIs DEF r
  <2>2. /\ SetToSeq(view) \in Seq(1..k)
        /\ \A i \in DOMAIN SetToSeq(view) : port(SetToSeq(view)[i]) # port(n)
    <3>1. /\ SetToSeq(view) \in Seq(1..k)
          /\ \A i \in DOMAIN SetToSeq(view) : SetToSeq(view)[i] \in view
      BY <1>2, SetToSeqIs
    <3>2. \A b \in view : port(b) # port(n)
      BY <1>4 DEF SameDomain
    <3> QED BY <3>1, <3>2
  <2> QED BY <2>1, <2>2, AddIfAbsentIs DEF r, view
<1>5. CASE SameDomain(view, n) # {}
  <2>1. PICK old \in SameDomain(view, n) :
               /\ port(old) = port(n) => r.aps = RetainAll(d.aps, view)
               /\ port(old) # port(n) /\ Displaces(old, n)
                    => r.aps = AddIfAbsent(RetainAll(d.aps, view), n)
               /\ port(old) # port(n) /\ ~Displaces(old, n) => r.aps = d.aps
    <3>1. LET p == Place(d, view, n, reused)
          IN  SameDomain(view, n) # {} =>
                \E old \in SameDomain(view, n) :
                   /\ port(old) = port(n) => p.aps = RetainAll(d.aps, view)
                   /\ port(old) # port(n) /\ Displaces(old, n)
                        => p.aps = AddIfAbsent(RetainAll(d.aps, view), n)
                   /\ port(old) # port(n) /\ ~Displaces(old, n) => p.aps = d.aps
      BY <1>2, PlaceIs, ZenonT(40)
    <3> QED BY <1>5, <3>1 DEF r
  <2>2. old \in view /\ Domain(port(old)) = Domain(port(n))
    BY DEF SameDomain
  <2>3. CASE port(old) = port(n)
    BY <1>1, <2>1, <2>2, <2>3, RetainedStays DEF r, view
  <2>4. CASE port(old) # port(n) /\ Displaces(old, n)
    <3>1. r.aps = AddIfAbsent(RetainAll(d.aps, view), n)
      BY <2>1, <2>2, <2>4 DEF view
    <3>2. RetainAll(d.aps, view) \in Seq(1..k)
      BY <1>1, <1>2, RetainAllIs
    <3>3. \A m \in DOMAIN RetainAll(d.aps, view) : port(RetainAll(d.aps, view)[m]) # port(n)
      <4> SUFFICES ASSUME NEW m \in DOMAIN RetainAll(d.aps, view),
                          port(RetainAll(d.aps, view)[m]) = port(n)
                   PROVE  FALSE
        OBVIOUS
      <4>1. PICK b \in view : port(b) = port(n)
        BY <1>1, <1>2, RetainAllIs
      <4>2. b = old
        BY <1>1, <2>2, <4>1, APMapIs DEF view
      <4> QED BY <2>4, <4>1, <4>2
    <3> QED BY <3>1, <3>2, <3>3, AddIfAbsentIs DEF r, view
  <2>5. CASE port(old) # port(n) /\ ~Displaces(old, n)
    <3>1. r.aps = d.aps
      BY <2>1, <2>5
    <3> QED BY <2>2, <2>5, <3>1 DEF r, view
  <2> QED BY <2>3, <2>4, <2>5
<1> QED BY <1>3, <1>4, <1>5
-----------------------------------------------------------------------------
(* The types of what the threads share: maps, objects and stamps.                 *)
Stored ==
    /\ lastSeen \in [1..MaxPackets -> Nat]
    /\ ap \in [1..MaxPackets -> [since : Nat, seen : Nat]]
    /\ index \in [Host -> 0..MaxDevices]
    /\ map \in [1..MaxDevices -> 0..Len(objs)]
    /\ objs \in Seq(Device(Len(packets)))
    /\ counter \in 0..MaxDevices

(* A call that holds what it needs still does when packets or objects are added.  *)
LEMMA HoldsMore ==
    ASSUME NEW n \in Nat, NEW m \in Nat, n <= m, NEW A, NEW B, A \subseteq B,
           NEW q \in Call(n), CallHolds(q, n, A)
    PROVE  q \in Call(m) /\ CallHolds(q, m, B)
<1>1. 0..n \subseteq 0..m /\ 1..n \subseteq 1..m
    OBVIOUS
<1>2. q \in Call(m)
    BY <1>1 DEF Call
<1>3. q.pc = "place" => \E a \in 1..m : q.todo = {a}
    BY <1>1 DEF CallHolds
<1> QED BY <1>2, <1>3 DEF CallHolds

(* A device is one of more packets, too.                                          *)
LEMMA DeviceMore ==
    ASSUME NEW n \in Nat, NEW m \in Nat, n <= m
    PROVE  Device(n) \subseteq Device(m)
<1>1. 1..n \subseteq 1..m
    OBVIOUS
<1>2. ASSUME NEW l \in Seq(1..n) PROVE l \in Seq(1..m)
  <2>1. Len(l) \in Nat /\ l \in [1..Len(l) -> 1..n]
    OBVIOUS
  <2>2. l \in [1..Len(l) -> 1..m]
    BY <1>1, <2>1
  <2> QED BY <2>1, <2>2
<1> QED BY <1>1, <1>2 DEF Device

(* A packet has a host and a time stamp.                                          *)
LEMMA PacketIs ==
    ASSUME TypeOK, NEW n \in 1..Len(packets)
    PROVE  packets[n] \in [host : Host, port : Port, time : Nat]
           /\ host(n) \in Host /\ port(n) \in Port /\ time(n) \in Nat
<1> DEFINE P == [host : Host, port : Port, time : Nat]
<1>1. packets \in Seq(P)
    BY DEF TypeOK
<1> HIDE DEF P
<1>2. packets[n] \in P
    BY <1>1
<1> QED BY <1>2 DEF P, host, port, time

(* What is known of a call by its type.                                           *)
LEMMA CallIs ==
    ASSUME TypeOK, NEW q \in Queue
    PROVE  /\ Len(packets) \in Nat /\ Len(packets) <= MaxPackets
           /\ qp[q] \in Call(Len(packets))
           /\ CallHolds(qp[q], Len(packets), DOMAIN objs)
           /\ Stored /\ DOMAIN objs = 1..Len(objs) /\ Len(objs) \in Nat
           /\ qp[q].pkt \in 0..Len(packets) /\ qp[q].id \in 0..MaxDevices
           /\ qp[q].pc \in Learning =>
                 /\ qp[q].pkt \in 1..Len(packets) /\ qp[q].pkt \in 1..MaxPackets
                 /\ host(qp[q].pkt) \in Host /\ time(qp[q].pkt) \in Nat
<1>1. /\ Len(packets) \in Nat /\ qp[q] \in Call(Len(packets)) /\ Len(packets) <= MaxPackets
      /\ CallHolds(qp[q], Len(packets), DOMAIN objs)
    BY DEF TypeOK
<1>2. Stored /\ DOMAIN objs = 1..Len(objs) /\ Len(objs) \in Nat
    BY DEF TypeOK, Stored
<1>3. qp[q].pkt \in 0..Len(packets) /\ qp[q].id \in 0..MaxDevices
    BY <1>1 DEF Call
<1>4. qp[q].pc \in Learning => qp[q].pkt \in 1..Len(packets) /\ qp[q].pkt \in 1..MaxPackets
    BY <1>1, <1>3, DeviceAssumptions DEF CallHolds
<1>5. \A n \in 1..Len(packets) : host(n) \in Host /\ time(n) \in Nat
    BY PacketIs
<1> QED BY <1>1, <1>2, <1>3, <1>4, <1>5

(* A step of one call keeps the types, if it keeps those of what it touches.      *)
LEMMA CallStep ==
    ASSUME TypeOK, NEW q \in Queue, NEW x \in Call(Len(packets)), qp' = [qp EXCEPT ![q] = x],
           CallHolds(x, Len(packets), DOMAIN objs'), Stored', Len(objs) <= Len(objs'),
           packets' = packets, Step(q),
           learnt' \subseteq [pkt : 1..Len(packets), reused : BOOLEAN]
    PROVE  TypeOK'
<1>1. objs \in Seq(Device(Len(packets))) /\ objs' \in Seq(Device(Len(packets)))
    BY DEF TypeOK, Stored
<1>2. DOMAIN objs \subseteq DOMAIN objs'
    BY <1>1
<1>3. qp \in [Queue -> Call(Len(packets))] /\ qp' \in [Queue -> Call(Len(packets))]
    BY DEF TypeOK
<1>4. \A t \in Queue : CallHolds(qp'[t], Len(packets), DOMAIN objs')
  <2> TAKE t \in Queue
  <2>1. CASE t = q
    BY <1>3, <2>1
  <2>2. CASE t # q
    <3>1. qp'[t] = qp[t] /\ qp[t] \in Call(Len(packets)) /\ Len(packets) \in Nat
      BY <1>3, <2>2 DEF TypeOK
    <3>2. CallHolds(qp[t], Len(packets), DOMAIN objs)
      BY DEF TypeOK
    <3> QED BY <1>2, <3>1, <3>2, HoldsMore
  <2> QED BY <2>1, <2>2
<1>5. WalkHolds(cleaner, DOMAIN objs')
    BY <1>2 DEF TypeOK, WalkHolds
<1>6. \A s \in Switch : PartHolds(leaver[s], DOMAIN objs')
    BY <1>2 DEF TypeOK, PartHolds
<1>7. /\ UNCHANGED <<topo, up, leaver, cleaner, updater, events>> /\ solo' \subseteq Queue
    BY DEF Step, TypeOK
<1> QED BY <1>3, <1>4, <1>5, <1>6, <1>7 DEF TypeOK, Stored

(* A step of learnDeviceByEntity is one ...                                       *)
LEMMA GoStep ==
    ASSUME TypeOK, NEW q \in Queue, NEW x \in Call(Len(packets)), Go(q, x),
           CallHolds(x, Len(packets), DOMAIN objs'), Stored', Len(objs) <= Len(objs'),
           packets' = packets
    PROVE  TypeOK'
BY CallStep DEF Go

(* ... and so is its last one.                                                    *)
LEMMA FinishStep ==
    ASSUME TypeOK, NEW q \in Queue, NEW b \in BOOLEAN, Finish(q, b), qp[q].pc \in Learning,
           Stored', Len(objs) <= Len(objs'), packets' = packets
    PROVE  TypeOK'
<1> DEFINE rest == Resting
           n == Len(packets)
<1>1. rest \in Call(n) /\ rest.pc = "idle"
    BY CallIs, DeviceAssumptions DEF Call, Resting
<1>2. qp' = [qp EXCEPT ![q] = rest] /\ Step(q)
    BY DEF Finish
<1> HIDE DEF rest
<1>3. CallHolds(rest, n, DOMAIN objs')
    BY <1>1 DEF CallHolds, Learning
<1>4. learnt' \subseteq [pkt : 1..n, reused : BOOLEAN]
    BY CallIs DEF Finish
<1> QED BY <1>1, <1>2, <1>3, <1>4, CallStep

(* What the threads hold is still there when objects are added.                   *)
LEMMA AllHoldMore ==
    ASSUME TypeOK, objs' \in Seq(Device(Len(packets))), Len(objs) <= Len(objs')
    PROVE  /\ \A q \in Queue : CallHolds(qp[q], Len(packets), DOMAIN objs')
           /\ \A s \in Switch : PartHolds(leaver[s], DOMAIN objs')
           /\ WalkHolds(cleaner, DOMAIN objs')
<1>1. objs \in Seq(Device(Len(packets))) /\ Len(packets) \in Nat
    BY DEF TypeOK
<1>2. DOMAIN objs \subseteq DOMAIN objs'
    BY <1>1
<1>3. ASSUME NEW q \in Queue PROVE CallHolds(qp[q], Len(packets), DOMAIN objs')
  <2>1. qp[q] \in Call(Len(packets)) /\ CallHolds(qp[q], Len(packets), DOMAIN objs)
    BY DEF TypeOK
  <2> QED BY <1>1, <1>2, <2>1, HoldsMore
<1>4. \A s \in Switch : PartHolds(leaver[s], DOMAIN objs')
    BY <1>2 DEF TypeOK, PartHolds
<1>5. WalkHolds(cleaner, DOMAIN objs')
    BY <1>2 DEF TypeOK, WalkHolds
<1> QED BY <1>3, <1>4, <1>5

(* A step of deleteDevice keeps the types likewise.                               *)
LEMMA DepartStep ==
    ASSUME TypeOK, NEW s \in Switch, NEW l \in Parting, Depart(s, l), PartHolds(l, DOMAIN objs'),
           index' \in [Host -> 0..MaxDevices], map' \in [1..MaxDevices -> 0..Len(objs')],
           objs' \in Seq(Device(Len(packets))), Len(objs) <= Len(objs'),
           up' \subseteq Switch, events' \in 0..MaxEvents
    PROVE  TypeOK'
<1>1. /\ leaver' = [leaver EXCEPT ![s] = l] /\ solo' = {} /\ learnt' = {}
      /\ UNCHANGED <<topo, packets, lastSeen, ap, counter, qp, cleaner, updater>>
    BY DEF Depart
<1>2. leaver \in [Switch -> Parting]
    BY DEF TypeOK
<1>3. leaver' \in [Switch -> Parting] /\ \A t \in Switch : PartHolds(leaver'[t], DOMAIN objs')
    BY <1>1, <1>2, AllHoldMore
<1> QED BY <1>1, <1>3, AllHoldMore DEF TypeOK

(* And so does a step of the clean-up.                                            *)
LEMMA CleanStep ==
    ASSUME TypeOK, NEW w \in Walk, Clean(w), WalkHolds(w, DOMAIN objs'),
           index' \in [Host -> 0..MaxDevices], map' \in [1..MaxDevices -> 0..Len(objs')],
           objs' \in Seq(Device(Len(packets))), Len(objs) <= Len(objs'),
           events' \in 0..MaxEvents
    PROVE  TypeOK'
<1>1. /\ cleaner' = w /\ solo' = {} /\ learnt' = {}
      /\ UNCHANGED <<topo, up, packets, lastSeen, ap, counter, qp, leaver, updater>>
    BY DEF Clean
<1> QED BY <1>1, AllHoldMore DEF TypeOK

(* One more object, or one that is changed.                                       *)
LEMMA Appended ==
    ASSUME NEW S, NEW l \in Seq(S), NEW d \in S
    PROVE  /\ Append(l, d) \in Seq(S) /\ Len(Append(l, d)) = Len(l) + 1
           /\ Len(l) \in Nat /\ DOMAIN l = 1..Len(l) /\ DOMAIN l \subseteq DOMAIN Append(l, d)
           /\ Len(l) + 1 \in DOMAIN Append(l, d) /\ Len(l) + 1 \notin DOMAIN l
           /\ Append(l, d)[Len(l) + 1] = d /\ \A i \in DOMAIN l : Append(l, d)[i] = l[i]
OBVIOUS

(* A list of which one element is replaced is one of the same length.           *)
LEMMA Changed ==
    ASSUME NEW S, NEW l \in Seq(S), NEW d \in S, NEW o \in DOMAIN l
    PROVE  /\ [l EXCEPT ![o] = d] \in Seq(S) /\ Len([l EXCEPT ![o] = d]) = Len(l)
           /\ DOMAIN [l EXCEPT ![o] = d] = DOMAIN l
           /\ [l EXCEPT ![o] = d][o] = d
           /\ \A i \in DOMAIN l : i # o => [l EXCEPT ![o] = d][i] = l[i]
<1>1. [l EXCEPT ![o] = d] \in [1..Len(l) -> S] /\ Len(l) \in Nat
    OBVIOUS
<1> QED BY <1>1

(* setLastSeen keeps the types.                                                   *)
LEMMA SetLastSeenType ==
    ASSUME ap \in [1..MaxPackets -> [since : Nat, seen : Nat]], NEW n \in 1..MaxPackets,
           NEW t \in Nat
    PROVE  /\ SetLastSeen(n, t) \in [1..MaxPackets -> [since : Nat, seen : Nat]]
           /\ \A a \in 1..MaxPackets : a # n => SetLastSeen(n, t)[a] = ap[a]
           /\ SetLastSeen(n, t)[n].seen = IF ap[n].seen < t THEN t ELSE ap[n].seen
           /\ SetLastSeen(n, t)[n].since = IF ap[n].seen + INACTIVITY_INTERVAL < t THEN t
                                           ELSE ap[n].since
<1> DEFINE r == [since |-> IF ap[n].seen + INACTIVITY_INTERVAL < t THEN t ELSE ap[n].since,
                 seen  |-> IF ap[n].seen < t THEN t ELSE ap[n].seen]
<1>1. SetLastSeen(n, t) = [ap EXCEPT ![n] = r]
    BY DEF SetLastSeen
<1>2. r \in [since : Nat, seen : Nat]
    OBVIOUS
<1> HIDE DEF r
<1> QED BY <1>1, <1>2 DEF r
-----------------------------------------------------------------------------
(* A call that starts again holds nothing.                                        *)
LEMMA CallEnds ==
    ASSUME NEW n \in Nat, NEW q \in Queue, qp[q] \in Call(n), qp[q].pkt # 0, NEW M
    PROVE  /\ Restart(q) \in Call(n) /\ CallHolds(Restart(q), n, M)
           /\ Restart(q).pc = "find" /\ Restart(q).pkt = qp[q].pkt
           /\ Restart(q).reused = FALSE
<1> DEFINE rest == Resting
<1>1. rest \in Call(n) /\ rest.reused = FALSE
    BY DeviceAssumptions DEF Call, Resting, Learning
<1>2. qp[q].pkt \in 0..n
    BY DEF Call
<1>3. Restart(q) = [rest EXCEPT !.pc = "find", !.pkt = qp[q].pkt]
    BY DEF Restart
<1> HIDE DEF rest
<1>4. /\ Restart(q) \in Call(n) /\ Restart(q).pc = "find" /\ Restart(q).pkt = qp[q].pkt
      /\ Restart(q).reused = FALSE
    BY <1>1, <1>2, <1>3 DEF Call, Learning
<1>5. CallHolds(Restart(q), n, M)
    BY <1>4 DEF CallHolds, Learning
<1> QED BY <1>4, <1>5

(* After updateAttachmentPoint a call ends, or has a copy to put in its place.    *)
LEMMA AfterAPIs ==
    ASSUME NEW n \in Nat, NEW q \in Queue, qp[q] \in Call(n), NEW M,
           NEW b \in BOOLEAN, CallHolds(qp[q], n, M), qp[q].pc \in {"ap", "place"},
           AfterAP(q, b)
    PROVE  \/ qp[q].new = qp[q].obj /\ Finish(q, b)
           \/ \E x \in Call(n) :
                 /\ Go(q, x) /\ CallHolds(x, n, M) /\ x.pkt = qp[q].pkt /\ x.reused = b
                 /\ x.pc = "replace" /\ x.id = qp[q].id
                 /\ x.obj = qp[q].obj /\ x.new = qp[q].new /\ x.new # x.obj
<1>1. CASE qp[q].new = qp[q].obj
    BY <1>1 DEF AfterAP
<1>2. CASE qp[q].new # qp[q].obj
  <2> DEFINE x == [To(q, "replace") EXCEPT !.view = {}, !.todo = {}, !.reused = b]
  <2>1. Go(q, x)
    BY <1>2 DEF AfterAP
  <2>2. /\ x \in Call(n) /\ x.pkt = qp[q].pkt /\ x.pc = "replace" /\ x.id = qp[q].id
        /\ x.obj = qp[q].obj /\ x.new = qp[q].new
    BY DEF Call, To, Learning
  <2>3. x.reused = b
    BY DEF Call, To, Learning
  <2> HIDE DEF x
  <2>4. qp[q].pkt # 0 /\ qp[q].id # 0 /\ qp[q].obj \in M /\ qp[q].new \in M
    BY DEF CallHolds, Learning
  <2>5. CallHolds(x, n, M)
    BY <2>2, <2>4 DEF CallHolds, Learning
  <2> QED BY <1>2, <2>1, <2>2, <2>3, <2>5
<1> QED BY <1>1, <1>2

(* updateAttachmentPoint takes its new attachment point out of oldAPs, if it is   *)
(* there.                                                                         *)
LEMMA TakeNewIs ==
    ASSUME NEW n \in Nat, NEW d \in Device(n), NEW p \in 1..n
    PROVE  /\ NewAP(d, p) \in 1..n
           /\ TakeNew(d, p) \in Device(n) /\ TakeNew(d, p).ents = d.ents
           /\ TakeNew(d, p).aps = d.aps /\ TakeNew(d, p).id = d.id
           /\ Flagged(d, p) = {} => NewAP(d, p) = p
<1>1. d.old \in Seq(1..n) /\ DOMAIN d.old = 1..Len(d.old) /\ Len(d.old) \in Nat
    BY DEF Device
<1>2. Flagged(d, p) \in SUBSET DOMAIN d.old
    BY DEF Flagged
<1>3. CASE Flagged(d, p) = {}
    BY <1>3 DEF NewAP, TakeNew
<1>4. CASE Flagged(d, p) # {}
  <2> DEFINE K == DOMAIN d.old \ {Min(Flagged(d, p))}
  <2>1. Flagged(d, p) \in SUBSET Nat
    BY <1>1, <1>2
  <2>2. Min(Flagged(d, p)) \in DOMAIN d.old
    BY <1>2, <1>4, <2>1, MinIn
  <2>3. NewAP(d, p) \in 1..n
    BY <1>1, <1>4, <2>2 DEF NewAP
  <2>4. K \in SUBSET DOMAIN d.old
    OBVIOUS
  <2>5. TakeNew(d, p) = [d EXCEPT !.old = Kept(d.old, K)]
    BY <1>4 DEF TakeNew
  <2> HIDE DEF K
  <2>6. Kept(d.old, K) \in Seq(1..n)
    BY <1>1, <2>4, KeptIs
  <2> QED BY <1>4, <2>3, <2>5, <2>6 DEF Device
<1> QED BY <1>3, <1>4

(* Device.toString touches oldAPs only.                                           *)
LEMMA DropExpiredIs ==
    ASSUME NEW n \in Nat, NEW d \in Device(n)
    PROVE  /\ DropExpired(d) \in Device(n) /\ DropExpired(d).ents = d.ents
           /\ DropExpired(d).aps = d.aps
<1> DEFINE K == {i \in DOMAIN d.old : ap[d.old[i]].seen + INACTIVITY_INTERVAL >= Now}
<1>1. K \in SUBSET DOMAIN d.old /\ d.old \in Seq(1..n)
    BY DEF Device
<1>2. DropExpired(d) = [d EXCEPT !.old = Kept(d.old, K)]
    BY DEF DropExpired
<1> HIDE DEF K
<1>3. Kept(d.old, K) \in Seq(1..n)
    BY <1>1, KeptIs
<1> QED BY <1>2, <1>3 DEF Device

(* Every step of learnDeviceByEntity keeps the types.                             *)
LEMMA LearnTypes ==
    ASSUME TypeOK, NEW q \in Queue, Learn(q)
    PROVE  TypeOK'
<1> DEFINE c == qp[q]
           n == Len(packets)
           Types(r) == r \in Call(n) /\ CallHolds(r, n, DOMAIN objs')
<1>t. /\ n \in Nat /\ c \in Call(n) /\ CallHolds(c, n, DOMAIN objs) /\ Stored
      /\ DOMAIN objs = 1..Len(objs) /\ Len(objs) \in Nat
      /\ c.pkt \in 0..n /\ c.id \in 0..MaxDevices
      /\ c.pc \in Learning => /\ c.pkt \in 1..n /\ c.pkt \in 1..MaxPackets
                              /\ host(c.pkt) \in Host /\ time(c.pkt) \in Nat
    BY CallIs
<1>q. /\ c.pc \in Learning \union {"idle"} /\ c.obj \in Nat /\ c.new \in Nat
      /\ c.view \in SUBSET (1..n) /\ c.reused \in BOOLEAN /\ c.todo \in SUBSET (1..n)
    BY <1>t DEF Call
<1>c. n \in Nat /\ c \in Call(n)
    BY <1>t
<1>s. \A x \in Call(n) : Go(q, x) /\ CallHolds(x, n, DOMAIN objs') /\ Stored'
                         /\ Len(objs) <= Len(objs') /\ packets' = packets => TypeOK'
    BY GoStep
<1>f. \A b \in BOOLEAN : Finish(q, b) /\ c.pc \in Learning /\ Stored'
                         /\ Len(objs) <= Len(objs') /\ packets' = packets => TypeOK'
    BY FinishStep
<1>r. c.pc \in Learning => Types(Restart(q))
  <2>1. ASSUME c.pc \in Learning PROVE c.pkt # 0
    BY <1>t, <2>1
  <2> QED BY <1>c, <2>1, CallEnds
<1>1. CASE Find(q)
  <2> DEFINE i == index[host(c.pkt)]
             x == [To(q, IF i = 0 THEN "create" ELSE "get") EXCEPT !.id = i]
  <2>1. c.pc = "find" /\ Go(q, x) /\ UNCHANGED <<packets, lastSeen, ap, index, map, objs, counter>>
    BY <1>1 DEF Find, At
  <2>2. i \in 0..MaxDevices
    BY <1>t, <2>1 DEF Learning, Stored
  <2> HIDE DEF i
  <2>3. /\ x \in Call(n) /\ x.pkt = c.pkt /\ x.id = i
        /\ x.pc = IF i = 0 THEN "create" ELSE "get"
    BY <1>t, <2>2 DEF Call, To, Learning
  <2>4. CallHolds(x, n, DOMAIN objs')
    BY <1>t, <2>1, <2>3 DEF CallHolds, Learning
  <2>5. Stored' /\ Len(objs) <= Len(objs')
    BY <1>t, <2>1 DEF Stored
  <2> HIDE DEF x
  <2> QED BY <1>s, <2>1, <2>3, <2>4, <2>5
<1>2. CASE Get(q)
  <2> DEFINE o == map[c.id]
             goes == CASE o = 0 -> "heal" [] o # 0 /\ HasEntity(o, c.pkt) -> "touch" [] OTHER -> "copy"
             x == [To(q, goes) EXCEPT !.obj = o]
  <2>1. c.pc = "get" /\ Go(q, x) /\ UNCHANGED <<packets, lastSeen, ap, index, map, objs, counter>>
    BY <1>2 DEF Get, At
  <2>2. o \in 0..Len(objs)
    BY <1>t, <2>1 DEF CallHolds, Learning, Stored
  <2>3. goes \in {"heal", "touch", "copy"} /\ (o = 0 => goes = "heal")
    BY <2>2
  <2> HIDE DEF o, goes
  <2>4. x \in Call(n) /\ x.pkt = c.pkt /\ x.id = c.id /\ x.obj = o /\ x.pc = goes
    <3>1. o \in Nat
      BY <1>t, <2>2
    <3> QED BY <1>c, <2>3, <3>1 DEF Call, To, Learning
  <2>5. o # 0 => o \in DOMAIN objs
    BY <1>t, <2>2
  <2>6. goes \in {"touch", "copy"} => o \in DOMAIN objs
    BY <2>3, <2>5
  <2>7. CallHolds(x, n, DOMAIN objs')
    BY <1>t, <2>1, <2>3, <2>4, <2>6 DEF CallHolds, Learning
  <2>8. Stored' /\ Len(objs) <= Len(objs')
    BY <1>t, <2>1 DEF Stored
  <2> HIDE DEF x
  <2> QED BY <1>s, <2>1, <2>4, <2>7, <2>8
<1>3. CASE Heal(q)
  <2>1. /\ c.pc = "heal" /\ Go(q, Restart(q)) /\ UNCHANGED <<packets, lastSeen, ap, map, objs, counter>>
        /\ index' = [index EXCEPT ![host(c.pkt)] = 0]
    BY <1>3 DEF Heal, At
  <2>2. Stored' /\ Len(objs) <= Len(objs')
    <3>1. index' \in [Host -> 0..MaxDevices]
      <4>1. index \in [Host -> 0..MaxDevices] /\ 0 \in 0..MaxDevices
        BY <1>t, DeviceAssumptions DEF Stored
      <4> QED BY <2>1, <4>1
    <3> QED BY <1>t, <2>1, <3>1 DEF Stored
  <2>3. Types(Restart(q))
    BY <1>r, <2>1 DEF Learning
  <2> QED BY <1>s, <2>1, <2>2, <2>3
<1>4. CASE Create(q)
  <2> DEFINE p == c.pkt
             id == counter + 1
             d == [id |-> id, ents |-> {p}, aps |-> <<p>>, old |-> <<>>]
             x == [To(q, "put") EXCEPT !.id = id, !.obj = Len(objs) + 1]
  <2>1. /\ c.pc = "create" /\ counter < MaxDevices /\ counter' = id
        /\ UNCHANGED <<packets, lastSeen, ap, map>>
        /\ \/ (Finish(q, FALSE) \/ Go(q, Restart(q))) /\ UNCHANGED <<index, objs>>
           \/ /\ index' = [index EXCEPT ![host(p)] = id]
              /\ objs' = Append(objs, d) /\ Go(q, x)
    BY <1>4 DEF Create, At
  <2>2. p \in 1..n /\ id \in 1..MaxDevices
    BY SMTT(30), <1>t, <2>1, DeviceAssumptions DEF Learning, Stored
  <2>3. d \in Device(n)
    BY <2>2 DEF Device
  <2> HIDE DEF d, id
  <2>4. CASE (Finish(q, FALSE) \/ Go(q, Restart(q))) /\ UNCHANGED <<index, objs>>
    <3>1. Stored' /\ Len(objs) <= Len(objs')
      <4>1. counter' \in 0..MaxDevices
        BY <2>1, <2>2
      <4>2. UNCHANGED <<packets, lastSeen, ap, map, index, objs>>
        BY <2>1, <2>4
      <4> QED BY <1>t, <4>1, <4>2 DEF Stored
    <3>2. Types(Restart(q)) /\ c.pc \in Learning
      BY <1>r, <2>1 DEF Learning
    <3> QED BY <1>s, <1>f, <2>1, <2>4, <3>1, <3>2
  <2>5. CASE index' = [index EXCEPT ![host(p)] = id] /\ objs' = Append(objs, d) /\ Go(q, x)
    <3>1. /\ objs' \in Seq(Device(n)) /\ Len(objs') = Len(objs) + 1
          /\ DOMAIN objs \subseteq DOMAIN objs' /\ Len(objs) + 1 \in DOMAIN objs'
      BY <1>t, <2>3, <2>5, Appended DEF Stored
    <3>2. map \in [1..MaxDevices -> 0..Len(objs')]
      BY <1>t, <3>1 DEF Stored
    <3>3. Stored' /\ Len(objs) <= Len(objs')
      <4>1. counter' \in 0..MaxDevices /\ index' \in [Host -> 0..MaxDevices]
        <5>1. index \in [Host -> 0..MaxDevices]
          BY <1>t DEF Stored
        <5>2. id \in 0..MaxDevices
          BY <2>2
        <5> QED BY <2>1, <2>5, <5>1, <5>2
      <4> QED BY <1>t, <2>1, <3>1, <3>2, <4>1 DEF Stored
    <3>4. /\ x \in Call(n) /\ x.pc = "put" /\ x.pkt = p /\ x.id = id /\ x.obj = Len(objs) + 1
      <4>1. Len(objs) + 1 \in Nat /\ id \in 0..MaxDevices
        BY <1>t, <2>2
      <4> QED BY <1>c, <4>1 DEF Call, To, Learning
    <3>5. CallHolds(x, n, DOMAIN objs')
      BY <2>2, <3>1, <3>4 DEF CallHolds, Learning
    <3> HIDE DEF x
    <3> QED BY <1>s, <2>1, <2>5, <3>3, <3>4, <3>5
  <2> QED BY <2>1, <2>4, <2>5
<1>5. CASE Put(q)
  <2>1. /\ c.pc = "put" /\ Finish(q, FALSE) /\ UNCHANGED <<packets, lastSeen, ap, index, objs, counter>>
        /\ map' = [map EXCEPT ![c.id] = c.obj]
    BY <1>5 DEF Put, At
  <2>2. c.obj \in 0..Len(objs)
    BY <1>t, <2>1 DEF CallHolds, Learning
  <2>3. Stored' /\ Len(objs) <= Len(objs')
    <3>1. map' \in [1..MaxDevices -> 0..Len(objs)]
      BY <1>t, <2>1, <2>2 DEF Stored
    <3> QED BY <1>t, <2>1, <3>1 DEF Stored
  <2>4. c.pc \in Learning
    BY <2>1 DEF Learning
  <2> QED BY <1>f, <2>1, <2>3, <2>4
<1>6. CASE Touch(q)
  <2> DEFINE known == {e \in objs[c.obj].ents : port(e) = port(c.pkt)}
             L == [e \in DOMAIN lastSeen |-> IF e \in known THEN time(c.pkt) ELSE lastSeen[e]]
             x == [To(q, "ap") EXCEPT !.new = c.obj]
  <2>1. /\ c.pc = "touch" /\ Go(q, x) /\ UNCHANGED <<packets, ap, index, map, objs, counter>>
        /\ lastSeen' = L
    BY <1>6 DEF Touch, At
  <2>2. c.obj \in DOMAIN objs /\ c.id # 0 /\ time(c.pkt) \in Nat
    BY <1>t, <2>1 DEF CallHolds, Learning
  <2>3. L \in [1..MaxPackets -> Nat]
    BY <1>t, <2>2 DEF Stored
  <2>4. Stored' /\ Len(objs) <= Len(objs')
    BY <1>t, <2>1, <2>3 DEF Stored
  <2>5. /\ x \in Call(n) /\ x.pc = "ap" /\ x.pkt = c.pkt /\ x.id = c.id /\ x.obj = c.obj
        /\ x.new = c.obj
    BY <1>t, <1>q DEF Call, To, Learning
  <2>6. CallHolds(x, n, DOMAIN objs')
    BY <1>t, <2>1, <2>2, <2>5 DEF CallHolds, Learning
  <2> HIDE DEF x
  <2> QED BY <1>s, <2>1, <2>4, <2>5, <2>6
<1>7. CASE Copy(q)
  <2> DEFINE d == objs[c.obj]
             e == [d EXCEPT !.ents = @ \union {c.pkt}]
             x == [To(q, "ap") EXCEPT !.new = Len(objs) + 1]
  <2>1. /\ c.pc = "copy" /\ Go(q, x) /\ UNCHANGED <<packets, lastSeen, ap, index, map, counter>>
        /\ objs' = Append(objs, e)
    BY <1>7 DEF Copy, At
  <2>2. c.obj \in DOMAIN objs /\ c.id # 0 /\ c.pkt \in 1..n
    BY <1>t, <2>1 DEF CallHolds, Learning
  <2>3. d \in Device(n)
    BY <1>t, <2>2 DEF Stored
  <2>4. e \in Device(n)
    BY <2>2, <2>3 DEF Device
  <2> HIDE DEF e, d
  <2>5. /\ objs' \in Seq(Device(n)) /\ Len(objs') = Len(objs) + 1
        /\ DOMAIN objs \subseteq DOMAIN objs' /\ Len(objs) + 1 \in DOMAIN objs'
    BY <1>t, <2>1, <2>4, Appended DEF Stored
  <2>6. map \in [1..MaxDevices -> 0..Len(objs')]
    BY <1>t, <2>5 DEF Stored
  <2>7. Stored' /\ Len(objs) <= Len(objs')
    BY <1>t, <2>1, <2>5, <2>6 DEF Stored
  <2>8. /\ x \in Call(n) /\ x.pc = "ap" /\ x.pkt = c.pkt /\ x.id = c.id /\ x.obj = c.obj
        /\ x.new = Len(objs) + 1
    <3>1. Len(objs) + 1 \in Nat
      BY <1>t
    <3> QED BY <1>c, <3>1 DEF Call, To, Learning
  <2>9. CallHolds(x, n, DOMAIN objs')
    BY <1>t, <2>1, <2>2, <2>5, <2>8 DEF CallHolds, Learning
  <2> HIDE DEF x
  <2> QED BY <1>s, <2>1, <2>7, <2>8, <2>9
<1>8. CASE ReadAPs(q)
  <2> DEFINE d == objs[c.new]
             p == c.pkt
             nap == NewAP(d, p)
             e == TakeNew(d, p)
             V == APMap(d.aps)
             x == [To(q, "place") EXCEPT !.view = V, !.todo = {nap}, !.reused = Flagged(d, p) # {}]
  <2>1. /\ c.pc = "ap" /\ UNCHANGED <<packets, lastSeen, index, map, counter>>
        /\ \/ objs' = [objs EXCEPT ![c.new] = e] /\ ap' = SetLastSeen(nap, time(p)) /\ Go(q, x)
           \/ AfterAP(q, FALSE) /\ UNCHANGED <<objs, ap>>
    BY <1>8 DEF ReadAPs, At
  <2>2. /\ c.obj \in DOMAIN objs /\ c.new \in DOMAIN objs /\ c.id # 0 /\ p \in 1..n
        /\ p \in 1..MaxPackets
    BY <1>t, <2>1 DEF CallHolds, Learning
  <2>3. CASE AfterAP(q, FALSE) /\ UNCHANGED <<objs, ap>>
    <3>1. Stored' /\ Len(objs) <= Len(objs')
      BY <1>t, <2>1, <2>3 DEF Stored
    <3>2. CallHolds(c, n, DOMAIN objs') /\ c.pc \in {"ap", "place"} /\ c.pc \in Learning
      BY <1>t, <2>1, <2>3 DEF Learning
    <3>3. Finish(q, FALSE) \/ \E y \in Call(n) : Go(q, y) /\ CallHolds(y, n, DOMAIN objs')
      BY <1>c, <2>3, <3>2, AfterAPIs
    <3> QED BY <1>s, <1>f, <2>1, <3>1, <3>2, <3>3
  <2>4. CASE objs' = [objs EXCEPT ![c.new] = e] /\ ap' = SetLastSeen(nap, time(p)) /\ Go(q, x)
    <3>1. d \in Device(n)
      BY <1>t, <2>2 DEF Stored
    <3>2. nap \in 1..n /\ e \in Device(n) /\ d.aps \in Seq(1..n)
      <4>1. d.aps \in Seq(1..n)
        BY <3>1 DEF Device
      <4> HIDE DEF d
      <4>2. NewAP(d, p) \in 1..n /\ TakeNew(d, p) \in Device(n)
        BY <1>c, <2>2, <3>1, TakeNewIs
      <4> QED BY <4>1, <4>2
    <3>3. V \in SUBSET (1..n)
      BY <1>t, <3>2, APMapIs
    <3> DEFINE R == Flagged(d, p) # {}
    <3>4. PICK b \in BOOLEAN : b = R
      OBVIOUS
    <3> HIDE DEF d, nap, e, V, R
    <3>5. x = [To(q, "place") EXCEPT !.view = V, !.todo = {nap}, !.reused = b]
      BY <3>4 DEF R
    <3> HIDE DEF x
    <3>6. /\ x \in Call(n) /\ x.pc = "place" /\ x.pkt = p /\ x.id = c.id /\ x.obj = c.obj
          /\ x.new = c.new /\ x.todo = {nap}
      <4>1. {nap} \in SUBSET (1..n)
        BY <3>2
      <4> QED BY <1>c, <3>3, <3>5, <4>1 DEF Call, To, Learning
    <3>7. objs' \in Seq(Device(n)) /\ Len(objs') = Len(objs) /\ DOMAIN objs' = DOMAIN objs
      BY <1>t, <2>2, <2>4, <3>2, Changed DEF Stored
    <3>8. nap \in 1..MaxPackets
      BY <1>t, <3>2, DeviceAssumptions DEF TypeOK
    <3>9. ap' \in [1..MaxPackets -> [since : Nat, seen : Nat]]
      <4>1. ap \in [1..MaxPackets -> [since : Nat, seen : Nat]] /\ time(p) \in Nat
        BY <1>t, <2>1 DEF Stored, Learning
      <4> QED BY <2>4, <3>8, <4>1, SetLastSeenType
    <3>10. Stored' /\ Len(objs) <= Len(objs')
      BY <1>t, <2>1, <3>7, <3>9 DEF Stored
    <3>11. CallHolds(x, n, DOMAIN objs')
      <4>1. \E a \in 1..n : x.todo = {a}
        BY <3>2, <3>6
      <4>2. x.pkt # 0 /\ x.id # 0 /\ x.obj \in DOMAIN objs' /\ x.new \in DOMAIN objs'
        BY <1>c, <2>2, <3>6, <3>7
      <4> QED BY <3>6, <4>1, <4>2 DEF CallHolds, Learning
    <3> QED BY <1>s, <2>1, <2>4, <3>6, <3>10, <3>11
  <2> QED BY <2>1, <2>3, <2>4
<1>9. CASE WriteAPs(q)
  <2> DEFINE d == objs[c.new]
             p == CHOOSE a \in c.todo : TRUE
             e == Place(d, c.view, p, c.reused)
             f == IF Moves(c.view, p) /\ c.new = c.obj THEN DropExpired(e) ELSE e
             A == [a \in DOMAIN ap |-> IF a \in SeenAgain(c.view, p)
                                       THEN SetLastSeen(a, ap[p].seen)[a] ELSE ap[a]]
  <2>1. /\ c.pc = "place" /\ UNCHANGED <<packets, lastSeen, index, map, counter>>
        /\ objs' = [objs EXCEPT ![c.new] = f] /\ ap' = A /\ AfterAP(q, c.reused)
    BY <1>9 DEF WriteAPs, At
  <2>2. /\ c.obj \in DOMAIN objs /\ c.new \in DOMAIN objs /\ c.id # 0 /\ c.pkt # 0
        /\ \E a \in 1..n : c.todo = {a}
    BY <1>t, <2>1 DEF CallHolds, Learning
  <2>3. p \in 1..n
    BY <2>2
  <2>4. d \in Device(n)
    BY <1>t, <2>2 DEF Stored
  <2> HIDE DEF d, p
  <2>5. e \in Device(n)
    BY <1>t, <1>q, <2>3, <2>4, PlaceIs
  <2> HIDE DEF e
  <2>6. f \in Device(n)
    BY <1>t, <2>5, DropExpiredIs
  <2> HIDE DEF f
  <2>7. objs' \in Seq(Device(n)) /\ Len(objs') = Len(objs) /\ DOMAIN objs' = DOMAIN objs
    BY <1>t, <2>1, <2>2, <2>6, Changed DEF Stored
  <2>8. A \in [1..MaxPackets -> [since : Nat, seen : Nat]]
    <3>1. ap \in [1..MaxPackets -> [since : Nat, seen : Nat]] /\ p \in 1..MaxPackets
      <4>1. n <= MaxPackets /\ MaxPackets \in Nat
        BY DeviceAssumptions DEF TypeOK
      <4>2. p \in 1..MaxPackets
        BY <1>c, <2>3, <4>1
      <4> QED BY <1>t, <4>2 DEF Stored
    <3>2. ap[p].seen \in Nat
      BY <3>1
    <3>3. \A a \in 1..MaxPackets : SetLastSeen(a, ap[p].seen)[a] \in [since : Nat, seen : Nat]
      <4> TAKE a \in 1..MaxPackets
      <4> DEFINE t == ap[p].seen
                 L == SetLastSeen(a, t)
      <4>1. t \in Nat
        BY <3>2
      <4> HIDE DEF t
      <4>2. L \in [1..MaxPackets -> [since : Nat, seen : Nat]]
        BY <3>1, <4>1, SetLastSeenType
      <4> HIDE DEF L
      <4> QED BY <4>2 DEF L, t
    <3> QED BY <3>1, <3>3
  <2> HIDE DEF A
  <2>9. Stored' /\ Len(objs) <= Len(objs')
    BY <1>t, <2>1, <2>7, <2>8 DEF Stored
  <2>10. CallHolds(c, n, DOMAIN objs') /\ c.pc \in {"ap", "place"} /\ c.pc \in Learning
    BY <1>t, <2>1, <2>7 DEF Learning
  <2>11. PICK b \in BOOLEAN : b = c.reused
    BY <1>q
  <2>12. Finish(q, b) \/ \E x \in Call(n) : Go(q, x) /\ CallHolds(x, n, DOMAIN objs')
    <3>1. AfterAP(q, b)
      BY <2>1, <2>11
    <3> QED BY <1>c, <2>10, <3>1, AfterAPIs
  <2> QED BY <1>s, <1>f, <2>1, <2>9, <2>10, <2>12
<1>10. CASE Replace(q)
  <2> DEFINE x == To(q, "reindex")
  <2>1. /\ c.pc = "replace" /\ UNCHANGED <<packets, lastSeen, ap, index, objs, counter>>
        /\ \/ map' = [map EXCEPT ![c.id] = c.new] /\ Go(q, x)
           \/ UNCHANGED map /\ Go(q, Restart(q))
    BY <1>10 DEF Replace, At
  <2>2. /\ c.obj \in DOMAIN objs /\ c.new \in DOMAIN objs /\ c.id # 0 /\ c.pkt # 0
    BY <1>t, <2>1 DEF CallHolds, Learning
  <2>3. Stored' /\ Len(objs) <= Len(objs')
    <3>1. map' \in [1..MaxDevices -> 0..Len(objs)]
      <4>1. map \in [1..MaxDevices -> 0..Len(objs)] /\ c.new \in 0..Len(objs)
        BY <1>t, <2>2 DEF Stored
      <4> QED BY <2>1, <4>1
    <3> QED BY <1>t, <2>1, <3>1 DEF Stored
  <2>4. /\ x \in Call(n) /\ x.pc = "reindex" /\ x.pkt = c.pkt /\ x.id = c.id /\ x.obj = c.obj
        /\ x.new = c.new
    BY <1>c DEF Call, To, Learning
  <2>5. CallHolds(x, n, DOMAIN objs')
    BY <1>t, <2>1, <2>2, <2>4 DEF CallHolds, Learning
  <2>6. Types(Restart(q))
    BY <1>r, <2>1 DEF Learning
  <2> HIDE DEF x
  <2> QED BY <1>s, <2>1, <2>3, <2>4, <2>5, <2>6
<1>11. CASE Reindex(q)
  <2> DEFINE i == index[host(c.pkt)]
  <2>1. /\ c.pc = "reindex" /\ UNCHANGED <<packets, lastSeen, ap, map, objs, counter>>
        /\ index' = [index EXCEPT ![host(c.pkt)] = IF i = 0 THEN c.id ELSE i]
        /\ Finish(q, c.reused) \/ Go(q, Restart(q))
    BY <1>11 DEF Reindex, At
  <2>2. i \in 0..MaxDevices
    BY <1>t, <2>1 DEF Learning, Stored
  <2> HIDE DEF i
  <2>3. Stored' /\ Len(objs) <= Len(objs')
    <3>1. index' \in [Host -> 0..MaxDevices]
      <4>1. index \in [Host -> 0..MaxDevices] /\ c.id \in 0..MaxDevices
        BY <1>t DEF Stored
      <4> QED BY <2>1, <2>2, <4>1
    <3> QED BY <1>t, <2>1, <3>1 DEF Stored
  <2>4. Types(Restart(q)) /\ c.pc \in Learning
    BY <1>r, <2>1 DEF Learning
  <2> QED BY <1>s, <1>f, <1>q, <2>1, <2>3, <2>4
<1> QED
    BY <1>1, <1>2, <1>3, <1>4, <1>5, <1>6, <1>7, <1>8, <1>9, <1>10, <1>11 DEF Learn
-----------------------------------------------------------------------------
(* removeEntity and remove leave a typed index and a typed map.                   *)
LEMMA WithoutTyped ==
    ASSUME TypeOK, NEW o \in DOMAIN objs
    PROVE  /\ WithoutEntry(o) \in [Host -> 0..MaxDevices]
           /\ WithoutDevice(o) \in [1..MaxDevices -> 0..Len(objs)]
<1> DEFINE i == objs[o].id
           g == hostOf(o)
<1>1. /\ index \in [Host -> 0..MaxDevices] /\ map \in [1..MaxDevices -> 0..Len(objs)]
      /\ 0 \in 0..MaxDevices /\ 0 \in 0..Len(objs)
    BY DeviceAssumptions DEF TypeOK
<1>2. WithoutEntry(o) = [index EXCEPT ![g] = IF index[g] = i THEN 0 ELSE index[g]]
    BY DEF WithoutEntry
<1>3. WithoutDevice(o) = IF InMap(i, o) THEN [map EXCEPT ![i] = 0] ELSE map
    BY DEF WithoutDevice
<1> HIDE DEF i, g
<1>4. WithoutEntry(o) \in [Host -> 0..MaxDevices]
  <2>1. CASE g \in Host
    <3> DEFINE v == IF index[g] = i THEN 0 ELSE index[g]
    <3>1. v \in 0..MaxDevices
      BY <1>1, <2>1
    <3>2. WithoutEntry(o) = [index EXCEPT ![g] = v]
      BY <1>2
    <3> HIDE DEF v
    <3> QED BY <1>1, <3>1, <3>2
  <2>2. CASE g \notin Host
    BY <1>1, <1>2, <2>2
  <2> QED BY <2>1, <2>2
<1>5. WithoutDevice(o) \in [1..MaxDevices -> 0..Len(objs)]
    BY <1>1, <1>3
<1> QED BY <1>4, <1>5

(* Every step of deleteDevice keeps the types.                                    *)
LEMMA LeaveTypes ==
    ASSUME TypeOK, NEW s \in Switch, Disconnect(s) \/ Leave(s)
    PROVE  TypeOK'
<1> DEFINE l == leaver[s]
           n == Len(packets)
           IndexType(f) == f \in [Host -> 0..MaxDevices]
           MapType(f) == f \in [1..MaxDevices -> 0..Len(objs)]
           ObjsType(f) == f \in Seq(Device(n))
<1>t. /\ n \in Nat /\ DOMAIN objs = 1..Len(objs) /\ Len(objs) \in Nat
      /\ IndexType(index) /\ MapType(map) /\ ObjsType(objs) /\ DOMAIN map = 1..MaxDevices
      /\ l \in Parting /\ PartHolds(l, DOMAIN objs) /\ up \subseteq Switch
      /\ counter \in 0..MaxDevices /\ events \in 0..MaxEvents /\ MaxDevices \in Nat
    BY DeviceAssumptions DEF TypeOK
<1>l. /\ l.todo \in SUBSET Nat /\ l.todo \subseteq DOMAIN objs /\ l.visited \in SUBSET (1..MaxDevices)
      /\ l.pc \in {"unindex", "drop"} => l.obj \in DOMAIN objs
    BY <1>t DEF Parting, PartHolds
<1>m. \A i \in 1..MaxDevices : map[i] # 0 => map[i] \in DOMAIN objs /\ map[i] \in Nat
    BY <1>t
<1>i. Staying \in Parting /\ Staying.pc = "idle" /\ Staying.todo = {}
    BY <1>t DEF Parting, Staying
<1>s. ASSUME NEW x \in Parting, Depart(s, x), PartHolds(x, DOMAIN objs'), IndexType(index'),
             MapType(map'), ObjsType(objs'), Len(objs') = Len(objs), up' \subseteq Switch,
             events' \in 0..MaxEvents
      PROVE  TypeOK'
  <2>1. map' \in [1..MaxDevices -> 0..Len(objs')] /\ Len(objs) <= Len(objs')
    BY <1>s, <1>t
  <2> HIDE DEF IndexType, MapType, l
  <2> QED BY <1>s, <2>1, DepartStep DEF IndexType
<1>1. CASE Disconnect(s)
  <2> DEFINE rest == Staying
             x == [rest EXCEPT !.pc = "collect", !.upto = counter]
  <2>1. /\ Depart(s, x) /\ UNCHANGED <<up, index, map, objs>> /\ events < MaxEvents
        /\ events' = events + 1
    BY <1>1 DEF Disconnect
  <2>2. rest \in Parting /\ rest.todo = {}
    BY <1>i
  <2> HIDE DEF rest
  <2>3. x \in Parting /\ x.pc = "collect" /\ x.todo = {}
    BY <1>t, <2>2 DEF Parting
  <2> HIDE DEF x
  <2>4. PartHolds(x, DOMAIN objs')
    BY <2>3 DEF PartHolds
  <2>5. events' \in 0..MaxEvents
    BY <1>t, <2>1, DeviceAssumptions
  <2> QED BY <1>s, <1>t, <2>1, <2>3, <2>4, <2>5
<1>2. ASSUME NEW i \in DOMAIN map, Collect(s, i) PROVE TypeOK'
  <2> DEFINE v == l.visited \union {i}
             T == IF ReportedOn(map[i], s) THEN l.todo \union {map[i]} ELSE l.todo
             x == [l EXCEPT !.visited = v, !.todo = T]
  <2>1. l.pc = "collect" /\ map[i] # 0 /\ Depart(s, x) /\ UNCHANGED <<up, index, map, objs, events>>
    BY <1>2 DEF Collect, Leaves
  <2>2. i \in 1..MaxDevices /\ map[i] \in DOMAIN objs /\ map[i] \in Nat
    BY <1>t, <1>m, <2>1
  <2>3. v \in SUBSET (1..MaxDevices) /\ T \in SUBSET Nat /\ T \subseteq DOMAIN objs
    BY <1>l, <2>2
  <2> HIDE DEF v, T
  <2>4. x \in Parting /\ x.pc = "collect" /\ x.todo = T
    BY <1>t, <2>1, <2>3 DEF Parting
  <2> HIDE DEF x
  <2>5. PartHolds(x, DOMAIN objs')
    BY <2>1, <2>3, <2>4 DEF PartHolds
  <2> QED BY <1>s, <1>t, <2>1, <2>4, <2>5
<1>3. CASE Collected(s)
  <2> DEFINE rest == Staying
             T == l.todo
             x == [rest EXCEPT !.pc = "lost", !.todo = T]
  <2>1. Depart(s, x) /\ UNCHANGED <<up, index, map, objs, events>>
    BY <1>3 DEF Collected
  <2>2. rest \in Parting /\ T \in SUBSET Nat /\ T \subseteq DOMAIN objs
    BY <1>i, <1>l
  <2> HIDE DEF rest, T
  <2>3. x \in Parting /\ x.pc = "lost" /\ x.todo = T
    BY <2>2 DEF Parting
  <2> HIDE DEF x
  <2>4. PartHolds(x, DOMAIN objs')
    BY <2>1, <2>2, <2>3 DEF PartHolds
  <2> QED BY <1>s, <1>t, <2>1, <2>3, <2>4
<1>4. ASSUME NEW o \in l.todo, Detach(s, o) PROVE TypeOK'
  <2> DEFINE Elsewhere(f) == Kept(f, {i \in DOMAIN f : SwitchOf[port(f[i])] # s})
             d == objs[o]
             A == Elsewhere(d.aps)
             B == Elsewhere(d.old)
             e == [d EXCEPT !.aps = A, !.old = B]
             c == IF A = <<>> THEN "unindex" ELSE "lost"
             T == l.todo \ {o}
             x == [l EXCEPT !.todo = T, !.obj = o, !.pc = c]
  <2>1. /\ objs' = [objs EXCEPT ![o] = e] /\ Depart(s, x)
        /\ UNCHANGED <<up, index, map, events>>
    BY <1>4 DEF Detach
  <2>2. o \in DOMAIN objs /\ T \subseteq DOMAIN objs /\ T \in SUBSET Nat /\ o \in Nat
    BY <1>l
  <2>3. d \in Device(n)
    BY <1>t, <2>2
  <2>4. \A f \in Seq(1..n) : Elsewhere(f) \in Seq(1..n)
    <3> TAKE f \in Seq(1..n)
    <3> DEFINE K == {i \in DOMAIN f : SwitchOf[port(f[i])] # s}
    <3>1. K \in SUBSET DOMAIN f
      OBVIOUS
    <3> HIDE DEF K
    <3>2. Kept(f, K) \in Seq(1..n)
      BY <3>1, KeptIs
    <3> QED BY <3>2 DEF K
  <2>5. A \in Seq(1..n) /\ B \in Seq(1..n)
    BY <2>3, <2>4 DEF Device
  <2>6. c \in {"unindex", "lost"}
    OBVIOUS
  <2> HIDE DEF A, B, c, d, T
  <2>7. e \in Device(n)
    BY <2>3, <2>5 DEF Device
  <2> HIDE DEF e
  <2>8. ObjsType(objs') /\ Len(objs') = Len(objs) /\ DOMAIN objs' = DOMAIN objs
    BY <1>t, <2>1, <2>2, <2>7, Changed
  <2>9. x \in Parting /\ x.pc = c /\ x.todo = T /\ x.obj = o
    BY <1>t, <2>2, <2>6 DEF Parting
  <2> HIDE DEF x
  <2>10. PartHolds(x, DOMAIN objs')
    BY <2>2, <2>8, <2>9 DEF PartHolds
  <2> QED BY <1>s, <1>t, <2>1, <2>8, <2>9, <2>10
<1>5. CASE Unindex(s)
  <2> DEFINE x == [l EXCEPT !.pc = "drop"]
  <2>1. /\ l.pc = "unindex" /\ index' = WithoutEntry(l.obj) /\ Depart(s, x)
        /\ UNCHANGED <<up, map, objs, events>>
    BY <1>5 DEF Unindex, Leaves
  <2>2. IndexType(index')
    BY <1>l, <2>1, WithoutTyped
  <2>3. x \in Parting /\ x.pc = "drop" /\ x.todo = l.todo /\ x.obj = l.obj
    BY <1>t DEF Parting
  <2> HIDE DEF x
  <2>4. PartHolds(x, DOMAIN objs')
    BY <1>l, <2>1, <2>3 DEF PartHolds
  <2> QED BY <1>s, <1>t, <2>1, <2>2, <2>3, <2>4
<1>6. CASE Drop(s)
  <2> DEFINE x == [l EXCEPT !.pc = "lost"]
  <2>1. /\ l.pc = "drop" /\ map' = WithoutDevice(l.obj) /\ Depart(s, x)
        /\ UNCHANGED <<up, index, objs, events>>
    BY <1>6 DEF Drop, Leaves
  <2>2. MapType(map')
    BY <1>l, <2>1, WithoutTyped
  <2>3. x \in Parting /\ x.pc = "lost" /\ x.todo = l.todo
    BY <1>t DEF Parting
  <2> HIDE DEF x
  <2>4. PartHolds(x, DOMAIN objs')
    BY <1>l, <2>1, <2>3 DEF PartHolds
  <2> QED BY <1>s, <1>t, <2>1, <2>2, <2>3, <2>4
<1>7. CASE Forget(s)
  <2>1. up' = up \ {s} /\ Depart(s, Staying) /\ UNCHANGED <<index, map, objs, events>>
    BY <1>7 DEF Forget
  <2>2. PartHolds(Staying, DOMAIN objs')
    BY <1>i DEF PartHolds
  <2>3. up' \subseteq Switch
    BY <1>t, <2>1
  <2> QED BY <1>s, <1>t, <1>i, <2>1, <2>2, <2>3
<1> QED BY <1>1, <1>2, <1>3, <1>4, <1>5, <1>6, <1>7 DEF Leave

(* A packet that comes in keeps the types.                                        *)
LEMMA ReceiveTypes ==
    ASSUME TypeOK, NEW q \in Queue, NEW h \in Host, NEW p \in Port, NEW t \in 1..MaxTime,
           Receive(q, h, p, t)
    PROVE  TypeOK'
<1> DEFINE n == Len(packets)
           P == [host : Host, port : Port, time : Nat]
           r == [host |-> h, port |-> p, time |-> t]
           k == n + 1
           rest == Resting
           x == [rest EXCEPT !.pc = "find", !.pkt = k]
           made == DOMAIN objs
           a == [since |-> t, seen |-> t]
<1>1. /\ packets' = Append(packets, r) /\ k <= MaxPackets
      /\ qp' = [qp EXCEPT ![q] = x] /\ solo' = {q} /\ learnt' = {}
      /\ events < MaxEvents /\ events' = events + 1
      /\ lastSeen' = [lastSeen EXCEPT ![k] = t] /\ ap' = [ap EXCEPT ![k] = a]
      /\ UNCHANGED <<topo, up, index, map, objs, counter, leaver, cleaner, updater>>
    BY DEF Receive
<1>2. packets \in Seq(P) /\ n \in Nat /\ r \in P /\ t \in Nat /\ a \in [since : Nat, seen : Nat]
    BY DEF TypeOK
<1> HIDE DEF P, r, a
<1>3. packets' \in Seq(P) /\ Len(packets') = k /\ k \in Nat /\ n <= k
    BY <1>1, <1>2
<1>4. k <= MaxPackets /\ k # 0 /\ k \in 1..k /\ events' \in 0..MaxEvents
    BY <1>1, <1>2, DeviceAssumptions DEF TypeOK
<1>5. rest \in Call(k) /\ k \in 0..k
    BY <1>3, DeviceAssumptions DEF Call, Resting
<1> HIDE DEF rest, k
<1>6. x \in Call(k) /\ x.pc = "find" /\ x.pkt = k
    BY <1>5 DEF Call, Learning
<1> HIDE DEF x
<1>7. CallHolds(x, k, made)
    BY <1>4, <1>6 DEF CallHolds, Learning
<1>8. \A u \in Queue : qp[u] \in Call(k) /\ CallHolds(qp[u], k, made)
  <2> TAKE u \in Queue
  <2>1. qp[u] \in Call(n) /\ CallHolds(qp[u], n, made)
    BY DEF TypeOK
  <2> HIDE DEF n
  <2> QED BY <1>2, <1>3, <2>1, HoldsMore
<1>9. qp' \in [Queue -> Call(k)] /\ \A u \in Queue : CallHolds(qp'[u], k, made)
  <2>1. DOMAIN qp = Queue
    BY DEF TypeOK
  <2>2. qp \in [Queue -> Call(k)]
    <3>1. qp \in [Queue -> Call(n)]
      BY DEF TypeOK
    <3> QED BY <1>8, <3>1
  <2>3. qp' \in [Queue -> Call(k)]
    BY <1>1, <1>6, <2>2
  <2> QED BY <1>1, <1>7, <1>8, <2>1, <2>3
<1>10. objs' \in Seq(Device(k))
  <2>1. Device(n) \subseteq Device(k)
    BY <1>2, <1>3, DeviceMore
  <2>2. objs \in Seq(Device(n))
    BY DEF TypeOK
  <2> DEFINE U == Device(n)
             V == Device(k)
  <2>3. objs \in Seq(U) /\ U \subseteq V
    BY <2>1, <2>2
  <2> HIDE DEF U, V
  <2>4. objs \in Seq(V)
    <3>1. Len(objs) \in Nat /\ objs \in [1..Len(objs) -> U]
      BY <2>3
    <3>2. objs \in [1..Len(objs) -> V]
      BY <2>3, <3>1
    <3> QED BY <3>1, <3>2
  <2> QED BY <1>1, <2>4 DEF V
<1>11. packets' \in Seq([host : Host, port : Port, time : Nat]) /\ Len(packets') <= MaxPackets
    BY <1>3, <1>4 DEF P
<1>12. lastSeen' \in [1..MaxPackets -> Nat] /\ ap' \in [1..MaxPackets -> [since : Nat, seen : Nat]]
    BY <1>1, <1>2 DEF TypeOK
<1> QED BY <1>1, <1>3, <1>4, <1>9, <1>10, <1>11, <1>12 DEF TypeOK

(* A switch that is back keeps the types.                                       *)
LEMMA ReconnectTypes ==
    ASSUME TypeOK, NEW s \in Switch, Reconnect(s)
    PROVE  TypeOK'
BY DEF Reconnect, TypeOK
-----------------------------------------------------------------------------
(* Every step of cleanupEntities keeps the types.                                 *)
LEMMA CleanTypes ==
    ASSUME TypeOK, (\E c \in 2..MaxTime + 1 : StartCleanup(c)) \/ Cleanup
    PROVE  TypeOK'
<1> DEFINE n == Len(packets)
           w == cleaner
           IndexType(f) == f \in [Host -> 0..MaxDevices]
           MapType(f) == f \in [1..MaxDevices -> 0..Len(objs)]
           ObjsType(f) == f \in Seq(Device(n))
<1>t. /\ n \in Nat /\ MaxTime \in Nat /\ DOMAIN objs = 1..Len(objs) /\ Len(objs) \in Nat
      /\ IndexType(index) /\ MapType(map) /\ ObjsType(objs) /\ DOMAIN map = 1..MaxDevices
      /\ w \in Walk /\ WalkHolds(w, DOMAIN objs)
      /\ counter \in 0..MaxDevices /\ events \in 0..MaxEvents /\ MaxDevices \in Nat
    BY DeviceAssumptions DEF TypeOK
<1>w. /\ w.visited \in SUBSET (1..MaxDevices) /\ w.id \in 0..MaxDevices
      /\ w.pc \notin {"idle", "iterate"} => w.id \in 1..MaxDevices
      /\ w.pc \in {"scan", "unindex", "remove", "replace"} => w.obj \in DOMAIN objs
      /\ w.pc = "replace" => w.new \in DOMAIN objs
    BY <1>t DEF Walk, WalkHolds
<1>m. \A i \in 1..MaxDevices : map[i] # 0 => map[i] \in DOMAIN objs /\ map[i] \in Nat
    BY <1>t
<1>s. \A x \in Walk : Clean(x) /\ WalkHolds(x, DOMAIN objs') /\ IndexType(index')
                      /\ map' \in [1..MaxDevices -> 0..Len(objs')] /\ ObjsType(objs')
                      /\ Len(objs) <= Len(objs') /\ events' \in 0..MaxEvents => TypeOK'
    BY CleanStep
<1>r. ASSUME NEW x \in Walk, Clean(x), WalkHolds(x, DOMAIN objs), IndexType(index'),
             MapType(map'), objs' = objs, events' = events
      PROVE  TypeOK'
  <2>1. /\ map' \in [1..MaxDevices -> 0..Len(objs')] /\ ObjsType(objs') /\ Len(objs) <= Len(objs')
        /\ events' \in 0..MaxEvents /\ WalkHolds(x, DOMAIN objs')
    BY <1>r, <1>t
  <2> HIDE DEF IndexType, ObjsType
  <2> QED BY <1>r, <1>s, <2>1
<1>i. Iterate \in Walk /\ WalkHolds(Iterate, DOMAIN objs) /\ WalkHolds(Iterate, DOMAIN objs')
  <2>0. w \in Walk /\ 0 \in 0..MaxDevices
    BY <1>t
  <2>1. Iterate \in Walk /\ Iterate.pc = "iterate"
    BY <2>0 DEF Iterate, Walk
  <2> QED BY <2>1 DEF WalkHolds
<1>j. \A i \in 1..MaxDevices : w.pc \in {"remove", "replace"} /\ map[i] # 0 =>
         LET x == [CleanerTo("scan") EXCEPT !.obj = map[i]]
         IN  x \in Walk /\ WalkHolds(x, DOMAIN objs)
  <2> SUFFICES ASSUME NEW i \in 1..MaxDevices, w.pc \in {"remove", "replace"}, map[i] # 0
               PROVE  LET x == [CleanerTo("scan") EXCEPT !.obj = map[i]]
                      IN  x \in Walk /\ WalkHolds(x, DOMAIN objs)
    OBVIOUS
  <2> DEFINE o == map[i]
             x == [CleanerTo("scan") EXCEPT !.obj = o]
  <2>1. o \in DOMAIN objs /\ o \in Nat
    BY <1>m
  <2> HIDE DEF o
  <2>2. x \in Walk /\ x.pc = "scan" /\ x.obj = o /\ x.id = w.id
    BY <1>t, <2>1 DEF CleanerTo, Walk
  <2> HIDE DEF x
  <2>3. WalkHolds(x, DOMAIN objs)
    BY <1>w, <2>1, <2>2 DEF WalkHolds
  <2> QED BY <2>2, <2>3 DEF x, o
<1>k. w.pc \in {"scan", "unindex", "remove", "replace"} =>
         \A c \in {"scan", "unindex", "remove"} :
            CleanerTo(c) \in Walk /\ WalkHolds(CleanerTo(c), DOMAIN objs)
  <2> SUFFICES ASSUME w.pc \in {"scan", "unindex", "remove", "replace"},
                      NEW c \in {"scan", "unindex", "remove"}
               PROVE  CleanerTo(c) \in Walk /\ WalkHolds(CleanerTo(c), DOMAIN objs)
    OBVIOUS
  <2>1. /\ CleanerTo(c) \in Walk /\ CleanerTo(c).pc = c /\ CleanerTo(c).obj = w.obj
        /\ CleanerTo(c).id = w.id
    BY <1>t DEF CleanerTo, Walk
  <2> QED BY <1>w, <2>1 DEF WalkHolds
<1>1. ASSUME NEW c \in 2..MaxTime + 1, StartCleanup(c) PROVE TypeOK'
  <2> DEFINE rest == Idle
             x == [rest EXCEPT !.pc = "iterate", !.cutoff = c, !.upto = counter]
  <2>1. /\ Clean(x) /\ UNCHANGED <<index, map, objs>> /\ events < MaxEvents
        /\ events' = events + 1
    BY <1>1 DEF StartCleanup
  <2>2. rest \in Walk /\ c \in Nat
    BY <1>t DEF Walk, Idle
  <2> HIDE DEF rest
  <2>3. x \in Walk /\ x.pc = "iterate"
    BY <1>t, <2>2 DEF Walk
  <2> HIDE DEF x
  <2>4. WalkHolds(x, DOMAIN objs')
    BY <2>3 DEF WalkHolds
  <2>5. events' \in 0..MaxEvents
    BY <1>t, <2>1, DeviceAssumptions
  <2>6. /\ IndexType(index') /\ map' \in [1..MaxDevices -> 0..Len(objs')] /\ ObjsType(objs')
        /\ Len(objs) <= Len(objs')
    BY <1>t, <2>1
  <2> HIDE DEF IndexType, ObjsType
  <2> QED BY <1>s, <2>1, <2>3, <2>4, <2>5, <2>6
<1>2. ASSUME NEW i \in DOMAIN map, NextDevice(i) PROVE TypeOK'
  <2> DEFINE o == map[i]
             v == w.visited \union {i}
             x == [CleanerTo("scan") EXCEPT !.visited = v, !.id = i, !.obj = o]
  <2>1. Clean(x) /\ UNCHANGED <<index, map, objs, events>> /\ o # 0
    <3>1. CleanerTo("scan").visited = w.visited
      BY <1>t DEF CleanerTo, Walk
    <3> QED BY <1>2, <3>1 DEF NextDevice
  <2>2. i \in 1..MaxDevices /\ o \in DOMAIN objs /\ o \in Nat /\ v \in SUBSET (1..MaxDevices)
    BY <1>t, <1>w, <1>m, <2>1
  <2> HIDE DEF o, v
  <2>3. x \in Walk /\ x.pc = "scan" /\ x.id = i /\ x.obj = o
    <3>1. i \in 0..MaxDevices
      BY <2>2
    <3> QED BY <1>t, <2>2, <3>1 DEF CleanerTo, Walk
  <2> HIDE DEF x
  <2>4. WalkHolds(x, DOMAIN objs)
    BY <2>2, <2>3 DEF WalkHolds
  <2> QED BY <1>r, <1>t, <2>1, <2>3, <2>4
<1>3. CASE EndCleanup
  <2>1. Clean(Idle) /\ UNCHANGED <<index, map, objs, events>>
    BY <1>3 DEF EndCleanup
  <2>2. Idle \in Walk /\ Idle.pc = "idle"
    BY <1>t DEF Walk, Idle
  <2>3. WalkHolds(Idle, DOMAIN objs)
    BY <2>2 DEF WalkHolds
  <2> QED BY <1>r, <1>t, <2>1, <2>2, <2>3
<1>4. CASE Scan
  <2> DEFINE o == w.obj
             d == objs[o]
             E == toKeep(o)
             e == [d EXCEPT !.ents = E]
             x == [CleanerTo("replace") EXCEPT !.new = Len(objs) + 1]
  <2>1. /\ w.pc = "scan" /\ UNCHANGED <<index, map, events>>
        /\ \/ (Clean(Iterate) \/ Clean(CleanerTo("unindex"))) /\ UNCHANGED objs
           \/ objs' = Append(objs, e) /\ Clean(x)
    BY <1>4 DEF Scan
  <2>2. o \in DOMAIN objs /\ d \in Device(n)
    BY <1>t, <1>w, <2>1
  <2>3. CASE (Clean(Iterate) \/ Clean(CleanerTo("unindex"))) /\ UNCHANGED objs
    BY <1>r, <1>t, <1>i, <1>k, <2>1, <2>3
  <2>4. CASE objs' = Append(objs, e) /\ Clean(x)
    <3>1. E \in SUBSET d.ents
      BY DEF toKeep
    <3> HIDE DEF d, E
    <3>2. e \in Device(n)
      BY <2>2, <3>1 DEF Device
    <3> HIDE DEF e
    <3>3. /\ ObjsType(objs') /\ Len(objs') = Len(objs) + 1
          /\ DOMAIN objs \subseteq DOMAIN objs' /\ Len(objs) + 1 \in DOMAIN objs'
      BY <1>t, <2>4, <3>2, Appended
    <3>4. x \in Walk /\ x.pc = "replace" /\ x.new = Len(objs) + 1 /\ x.obj = o /\ x.id = w.id
      <4>1. Len(objs) + 1 \in Nat
        BY <1>t
      <4> QED BY <1>t, <4>1 DEF CleanerTo, Walk
    <3> HIDE DEF x
    <3>5. WalkHolds(x, DOMAIN objs')
      BY <1>w, <2>1, <2>2, <3>3, <3>4 DEF WalkHolds
    <3>6. map' \in [1..MaxDevices -> 0..Len(objs')]
      BY <1>t, <2>1, <3>3
    <3>7. IndexType(index') /\ events' \in 0..MaxEvents /\ Len(objs) <= Len(objs')
      BY <1>t, <2>1, <3>3
    <3> HIDE DEF IndexType, ObjsType
    <3> QED BY <1>s, <2>4, <3>3, <3>4, <3>5, <3>6, <3>7
  <2> QED BY <2>1, <2>3, <2>4
<1>5. CASE CleanIndex
  <2>1. /\ w.pc = "unindex" /\ index' = WithoutEntry(w.obj) /\ Clean(CleanerTo("remove"))
        /\ UNCHANGED <<map, objs, events>>
    BY <1>5 DEF CleanIndex
  <2>2. IndexType(index')
    BY <1>w, <2>1, WithoutTyped
  <2> QED BY <1>r, <1>t, <1>k, <2>1, <2>2
<1>6. CASE CleanRemove
  <2> DEFINE x == [CleanerTo("scan") EXCEPT !.obj = map[w.id]]
  <2>1. /\ w.pc = "remove" /\ map' = WithoutDevice(w.obj) /\ UNCHANGED <<index, objs, events>>
        /\ \/ Clean(CleanerTo("scan")) \/ Clean(Iterate)
           \/ map[w.id] # 0 /\ Clean(x)
    BY <1>6 DEF CleanRemove
  <2>2. MapType(map')
    BY <1>w, <2>1, WithoutTyped
  <2>3. map[w.id] # 0 => x \in Walk /\ WalkHolds(x, DOMAIN objs)
    BY <1>w, <1>j, <2>1
  <2> HIDE DEF x
  <2> QED BY <1>r, <1>t, <1>i, <1>k, <2>1, <2>2, <2>3
<1>7. CASE CleanReplace
  <2> DEFINE x == [CleanerTo("scan") EXCEPT !.obj = map[w.id]]
  <2>1. /\ w.pc = "replace" /\ UNCHANGED <<index, objs, events>>
        /\ map' = [map EXCEPT ![w.id] = w.new] \/ map' = map
        /\ Clean(Iterate) \/ (map[w.id] # 0 /\ Clean(x))
    BY <1>7 DEF CleanReplace
  <2>2. MapType(map')
    <3>1. w.new \in 0..Len(objs)
      BY <1>t, <1>w, <2>1
    <3> QED BY <1>t, <2>1, <3>1
  <2>3. map[w.id] # 0 => x \in Walk /\ WalkHolds(x, DOMAIN objs)
    BY <1>w, <1>j, <2>1
  <2> HIDE DEF x
  <2> QED BY <1>r, <1>t, <1>i, <2>1, <2>2, <2>3
<1> QED BY <1>1, <1>2, <1>3, <1>4, <1>5, <1>6, <1>7 DEF Cleanup

(* updateAttachmentPoint() leaves a device with the entities it had.              *)
LEMMA RefreshedIs ==
    ASSUME NEW n \in Nat, NEW d \in Device(n)
    PROVE  Refreshed(d) \in Device(n) /\ Refreshed(d).ents = d.ents
<1> DEFINE V == APMap(d.aps)
           A == IF Cardinality(V) # Len(d.aps) THEN RetainAll(d.aps, V) ELSE d.aps
<1>1. d.aps \in Seq(1..n)
    BY DEF Device
<1>2. V \in SUBSET (1..n)
    BY <1>1, APMapIs
<1>3. Refreshed(d) = IF d.aps = <<>> THEN d ELSE [d EXCEPT !.old = <<>>, !.aps = A]
    BY DEF Refreshed
<1> HIDE DEF V
<1>4. A \in Seq(1..n)
    BY <1>1, <1>2, RetainAllIs
<1> HIDE DEF A
<1>5. <<>> \in Seq(1..n)
    OBVIOUS
<1> QED BY <1>3, <1>4, <1>5 DEF Device

(* Every step of updateAttachmentPoints keeps the types.                          *)
LEMMA UpdateTypes ==
    ASSUME TypeOK, (\E t \in Topologies : ChangeTopology(t)) \/ UpdateAttachmentPoints
    PROVE  TypeOK'
<1> DEFINE n == Len(packets)
           w == updater
           MapType(f) == f \in [1..MaxDevices -> 0..Len(objs)]
           Fit(x) == /\ x \in Walk /\ x.pc \in {"idle", "iterate", "remove"}
                     /\ x.pc = "remove" => x.id # 0
<1>t. /\ n \in Nat /\ DOMAIN objs = 1..Len(objs) /\ Len(objs) \in Nat
      /\ MapType(map) /\ objs \in Seq(Device(n)) /\ DOMAIN map = 1..MaxDevices
      /\ Fit(w) /\ counter \in 0..MaxDevices /\ events \in 0..MaxEvents
      /\ MaxDevices \in Nat /\ MaxEvents \in Nat
    BY DeviceAssumptions DEF TypeOK
<1>v. w.visited \in SUBSET (1..MaxDevices)
    BY <1>t DEF Walk
<1>s. ASSUME NEW x, Fit(x), Update(x), MapType(map'), objs' \in Seq(Device(n)),
             DOMAIN objs' = DOMAIN objs, Len(objs') = Len(objs), topo' \in Topologies,
             events' \in 0..MaxEvents
      PROVE  TypeOK'
    BY <1>s DEF Update, TypeOK
<1>1. ASSUME NEW t \in Topologies, ChangeTopology(t) PROVE TypeOK'
  <2> DEFINE rest == Idle
             x == [rest EXCEPT !.pc = "iterate", !.upto = counter]
  <2>1. /\ Update(x) /\ UNCHANGED <<map, objs>> /\ topo' = t /\ events < MaxEvents
        /\ events' = events + 1
    BY <1>1 DEF ChangeTopology
  <2>2. rest \in Walk
    BY <1>t DEF Walk, Idle
  <2> HIDE DEF rest
  <2>3. Fit(x)
    BY <1>t, <2>2 DEF Walk
  <2> HIDE DEF x
  <2>4. events' \in 0..MaxEvents
    BY <1>t, <2>1
  <2> QED BY <1>s, <1>t, <2>1, <2>3, <2>4
<1>2. ASSUME NEW i \in DOMAIN map, VisitDevice(i) PROVE TypeOK'
  <2> DEFINE o == map[i]
             e == Refreshed(objs[o])
             c == IF APMap(e.aps) = {} THEN "remove" ELSE "iterate"
             v == w.visited \union {i}
             x == [w EXCEPT !.visited = v, !.id = i, !.pc = c]
  <2>1. /\ o # 0 /\ objs' = [objs EXCEPT ![o] = e] /\ Update(x) /\ UNCHANGED <<topo, map, events>>
    BY <1>2, <1>t DEF VisitDevice, Walk
  <2>2. i \in 1..MaxDevices /\ o \in DOMAIN objs /\ v \in SUBSET (1..MaxDevices)
    BY <1>t, <1>v, <2>1
  <2>3. e \in Device(n)
    <3>1. objs[o] \in Device(n)
      BY <1>t, <2>2
    <3> QED BY <1>t, <3>1, RefreshedIs
  <2>4. c \in {"remove", "iterate"}
    OBVIOUS
  <2> HIDE DEF o, e, c, v
  <2>5. objs' \in Seq(Device(n)) /\ Len(objs') = Len(objs) /\ DOMAIN objs' = DOMAIN objs
    BY <1>t, <2>1, <2>2, <2>3, Changed
  <2>6. Fit(x)
    <3>1. i \in 0..MaxDevices /\ i # 0
      BY <2>2
    <3> QED BY <1>t, <2>2, <2>4, <3>1 DEF Walk
  <2> HIDE DEF x
  <2>7. topo' \in Topologies
    BY <2>1 DEF TypeOK
  <2> QED BY <1>s, <1>t, <2>1, <2>5, <2>6, <2>7
<1>3. CASE RemoveVisited
  <2> DEFINE x == [w EXCEPT !.pc = "iterate"]
  <2>1. /\ map' = [map EXCEPT ![w.id] = 0] /\ Update(x) /\ UNCHANGED <<topo, objs, events>>
    BY <1>3 DEF RemoveVisited
  <2>2. Fit(x)
    BY <1>t DEF Walk
  <2> HIDE DEF x
  <2>3. MapType(map')
    <3>1. 0 \in 0..Len(objs) /\ map \in [1..MaxDevices -> 0..Len(objs)]
      BY <1>t
    <3> QED BY <2>1, <3>1
  <2>4. topo' \in Topologies
    BY <2>1 DEF TypeOK
  <2> QED BY <1>s, <1>t, <2>1, <2>2, <2>3, <2>4
<1>4. CASE EndUpdate
  <2>1. Update(Idle) /\ UNCHANGED <<topo, map, objs, events>>
    BY <1>4 DEF EndUpdate
  <2>2. Fit(Idle)
    BY <1>t DEF Walk, Idle
  <2>3. topo' \in Topologies
    BY <2>1 DEF TypeOK
  <2> QED BY <1>s, <1>t, <2>1, <2>2, <2>3
<1> QED BY <1>1, <1>2, <1>3, <1>4 DEF UpdateAttachmentPoints

(* The types hold at the start ...                                              *)
LEMMA InitTypes == Init => TypeOK
<1> SUFFICES ASSUME Init PROVE TypeOK
    OBVIOUS
<1> DEFINE rest == Resting
           stay == Staying
           idle == Idle
<1>1. packets = <<>> /\ Len(packets) = 0 /\ objs = <<>> /\ Len(objs) = 0
    BY DEF Init
<1>2. packets \in Seq([host : Host, port : Port, time : Nat]) /\ objs \in Seq(Device(0))
    BY <1>1
<1>3. rest \in Call(0) /\ rest.pc = "idle"
    BY DeviceAssumptions DEF Call, Resting
<1>4. idle \in Walk /\ idle.pc = "idle"
    BY DeviceAssumptions DEF Walk, Idle
<1>5. stay \in Parting /\ stay.pc = "idle" /\ stay.todo = {}
    BY DeviceAssumptions DEF Parting, Staying
<1>6. /\ qp = [q \in Queue |-> rest] /\ leaver = [s \in Switch |-> stay]
      /\ cleaner = idle /\ updater = idle
    BY DEF Init
<1> HIDE DEF rest, stay, idle
<1>7. /\ lastSeen \in [1..MaxPackets -> Nat] /\ ap \in [1..MaxPackets -> [since : Nat, seen : Nat]]
      /\ index \in [Host -> 0..MaxDevices] /\ map \in [1..MaxDevices -> 0..Len(objs)]
      /\ counter \in 0..MaxDevices /\ events \in 0..MaxEvents
      /\ solo \subseteq Queue /\ learnt \subseteq [pkt : 1..Len(packets), reused : BOOLEAN]
      /\ topo \in Topologies /\ up \subseteq Switch /\ Len(packets) <= MaxPackets
    BY <1>1, DeviceAssumptions DEF Init
<1>8. /\ CallHolds(rest, 0, DOMAIN objs) /\ WalkHolds(idle, DOMAIN objs)
      /\ PartHolds(stay, DOMAIN objs)
    BY <1>3, <1>4, <1>5 DEF CallHolds, WalkHolds, PartHolds, Learning
<1> QED BY <1>1, <1>2, <1>3, <1>4, <1>5, <1>6, <1>7, <1>8 DEF TypeOK

(* A step that changes nothing keeps the types.                                   *)
LEMMA StutterTypes == TypeOK /\ UNCHANGED vars => TypeOK'
BY DEF TypeOK, vars, shared

(* ... and every step keeps them.                                               *)
LEMMA NextTypes == TypeOK /\ [Next]_vars => TypeOK'
<1> SUFFICES ASSUME TypeOK, Next PROVE TypeOK'
    BY StutterTypes
<1>1. CASE Environment
    BY <1>1, LeaveTypes, ReconnectTypes, ReceiveTypes, CleanTypes, UpdateTypes DEF Environment
<1>2. CASE Work
    BY <1>2, LearnTypes, LeaveTypes, CleanTypes, UpdateTypes DEF Work
<1> QED BY <1>1, <1>2 DEF Next

(* Whatever learning, clean-up, topology changes and disconnections do at the     *)
(* same time, the watcher of a switch and the QP threads that learn its packets   *)
(* among them, each works with packets, ids and Device objects that are there.    *)
THEOREM DeviceTypeCorrect == Spec => []TypeOK
BY InitTypes, NextTypes, PTL DEF Spec
-----------------------------------------------------------------------------
(* What an undisturbed call c has found so far: the index entry it read or made   *)
(* and the object it works on are still the ones of the index and the map, and    *)
(* from the moment it has an object with the packet's entity it keeps one.        *)
HasFound(c) ==
    LET h == host(c.pkt)
    IN  /\ c.pc = "create" => index[h] = 0
        /\ c.pc \in Learning \ {"find", "create"} => index[h] = c.id
        /\ c.pc \in {"touch", "copy", "ap", "place", "replace"} => map[c.id] = c.obj
        /\ c.pc \in {"put", "touch"} => HasEntity(c.obj, c.pkt)
        /\ c.pc \in {"ap", "place", "replace", "reindex"} => HasEntity(c.new, c.pkt)
        /\ c.pc = "reindex" => map[c.id] = c.new
SoloFinds == \A q \in solo : HasFound(qp[q])
Finds(q) == HasFound(qp[q]) /\ LearntIsFound

(* A step of learnDeviceByEntity leaves nobody else undisturbed.                  *)
LEMMA LearnIs ==
    ASSUME NEW q, Learn(q)
    PROVE  /\ solo' = solo \intersect {q} /\ qp[q].pc \in Learning
           /\ UNCHANGED <<packets, topo, up>>
<1>1. UNCHANGED packets /\ qp[q].pc \in Learning
    BY DEF Learn, Find, Get, Heal, Create, Put, Touch, Copy, ReadAPs, WriteAPs, Replace, Reindex,
           At, Learning
<1>2. Step(q)
    BY DEF Learn, Find, Get, Heal, Create, Put, Touch, Copy, ReadAPs, WriteAPs, Replace, Reindex,
           AfterAP, Go, Finish
<1> QED BY <1>1, <1>2 DEF Step

(* A call that somebody has disturbed stays so.                                   *)
LEMMA LearnDisturbed ==
    ASSUME NEW q, Learn(q), q \notin solo
    PROVE  solo' = {} /\ learnt' = {}
<1>1. solo' = {}
    BY LearnIs
<1>2. learnt' = {}
    BY DEF Learn, Find, Get, Heal, Create, Put, Touch, Copy, ReadAPs, WriteAPs, Replace, Reindex,
           AfterAP, Go, Finish
<1> QED BY <1>1, <1>2

(* Every step of another thread disturbs every call: those of a switch's watcher, *)
(* of the clean-up and of a new instance of the topology.                         *)
Disturbance ==
    \/ Cleanup \/ UpdateAttachmentPoints
    \/ \E s \in Switch : Disconnect(s) \/ Leave(s) \/ Reconnect(s)
    \/ \E c \in 2..MaxTime + 1 : StartCleanup(c)
    \/ \E t \in Topologies : ChangeTopology(t)

(* After a disturbance no call is undisturbed.                                  *)
LEMMA Disturbs == Disturbance => solo' = {} /\ learnt' = {}
BY DEF Disturbance, Cleanup, NextDevice, EndCleanup, Scan, CleanIndex, CleanRemove, CleanReplace,
       Clean, StartCleanup, UpdateAttachmentPoints, VisitDevice, RemoveVisited, EndUpdate, Update,
       ChangeTopology, Disconnect, Leave, Collect, Collected, Detach, Unindex, Drop, Forget, Depart,
       Reconnect

(* Every other step is one of a call, or a packet.                                *)
LEMMA NextIs ==
    ASSUME [Next]_vars
    PROVE  \/ UNCHANGED vars \/ Disturbance
           \/ \E q \in Queue : Learn(q)
           \/ \E q \in Queue, h \in Host, p \in Port, t \in 1..MaxTime : Receive(q, h, p, t)
BY DEF Next, Environment, Work, Disturbance

(* Every step of the call itself keeps that, until the last one.                  *)
LEMMA LearnFinds ==
    ASSUME TypeOK, NEW q \in solo, HasFound(qp[q]), Learn(q)
    PROVE  Finds(q)'
<1> DEFINE c == qp[q]
           n == Len(packets)
           h == host(c.pkt)
           Has(o, p) == \E e \in objs'[o].ents : port(e) = port(p)
<1>0. q \in Queue
    BY DEF TypeOK
<1>t. /\ n \in Nat /\ c \in Call(n) /\ CallHolds(c, n, DOMAIN objs) /\ Stored
      /\ DOMAIN objs = 1..Len(objs) /\ Len(objs) \in Nat
      /\ c.id \in 0..MaxDevices
      /\ c.pc \in Learning => c.pkt \in 1..n /\ h \in Host
    BY <1>0, CallIs
<1>c. n \in Nat /\ c \in Call(n)
    BY <1>t
<1>p. UNCHANGED <<packets, topo, up>>
    BY LearnIs
<1>g. \A x : Go(q, x) => qp'[q] = x /\ learnt' = {}
    BY <1>0 DEF Go, TypeOK
<1>f. ASSUME NEW x, Go(q, x), x.pkt = c.pkt,
             x.pc = "create" => index'[h] = 0,
             x.pc \in Learning \ {"find", "create"} => index'[h] = x.id,
             x.pc \in {"touch", "copy", "ap", "place", "replace"} => map'[x.id] = x.obj,
             x.pc \in {"put", "touch"} => Has(x.obj, c.pkt),
             x.pc \in {"ap", "place", "replace", "reindex"} => Has(x.new, c.pkt),
             x.pc = "reindex" => map'[x.id] = x.new
      PROVE  Finds(q)'
  <2>1. qp'[q] = x /\ learnt' = {} /\ UNCHANGED <<packets, topo, up>>
    BY <1>f, <1>g, <1>p
  <2>2. host(qp[q].pkt)' = h
    BY <1>f, <2>1 DEF host
  <2>3. \A o : Has(o, c.pkt) => HasEntity(o, qp[q].pkt)'
    BY <1>f, <2>1 DEF HasEntity, port
  <2> HIDE DEF Has, h
  <2>4. HasFound(qp[q])'
    BY <1>f, <2>1, <2>2, <2>3 DEF HasFound
  <2> QED BY <2>1, <2>4 DEF Finds, LearntIsFound
<1>r. c.pc \in Learning /\ Go(q, Restart(q)) => Finds(q)'
  <2>1. c.pc \in Learning => c.pkt # 0
    BY <1>t
  <2>2. c.pc \in Learning => Restart(q).pc = "find" /\ Restart(q).pkt = c.pkt
    BY <1>0, <1>c, <2>1, CallEnds
  <2> QED BY <1>f, <2>2
<1>d. ASSUME NEW b, Finish(q, b),
             Valid(port(c.pkt)) =>
                index'[h] # 0 /\ map'[index'[h]] # 0 /\ Has(map'[index'[h]], c.pkt)
      PROVE  Finds(q)'
  <2>1. qp'[q] = Resting /\ Resting.pc = "idle" /\ UNCHANGED <<packets, topo, up>>
    BY <1>d, <1>0, <1>p DEF Finish, Resting, TypeOK
  <2>2. HasFound(qp[q])'
    BY <2>1 DEF HasFound, Learning
  <2>3. ASSUME NEW r \in learnt', Valid(port(r.pkt))'
        PROVE  (FoundFor(r.pkt) # 0 /\ HasEntity(FoundFor(r.pkt), r.pkt))'
    <3>1. r.pkt = c.pkt
      BY <1>d, <2>3 DEF Finish
    <3>2. host(r.pkt)' = h /\ Valid(port(r.pkt))' = Valid(port(c.pkt))
      BY <2>1, <3>1 DEF Valid, port, host
    <3>3. index'[h] # 0 /\ map'[index'[h]] # 0 /\ Has(map'[index'[h]], c.pkt)
      BY <1>d, <2>3, <3>2
    <3>4. FoundFor(r.pkt)' = map'[index'[h]]
      BY <3>2, <3>3 DEF FoundFor
    <3>5. \A o : Has(o, c.pkt) => HasEntity(o, r.pkt)'
      BY <2>1, <3>1 DEF HasEntity, port
    <3> HIDE DEF Has, h
    <3>6. HasEntity(FoundFor(r.pkt), r.pkt)'
      <4>1. PICK o : o = map'[index'[h]]
        OBVIOUS
      <4>2. HasEntity(o, r.pkt)'
        BY <3>3, <3>5, <4>1
      <4> QED BY <3>4, <4>1, <4>2 DEF HasEntity
    <3> QED BY <3>3, <3>4, <3>6
  <2> QED BY <2>2, <2>3 DEF Finds, LearntIsFound
<1>1. CASE Find(q)
  <2> DEFINE i == index[h]
             x == [To(q, IF i = 0 THEN "create" ELSE "get") EXCEPT !.id = i]
  <2>1. c.pc = "find" /\ Go(q, x) /\ UNCHANGED <<index, map, objs>>
    BY <1>1 DEF Find, At
  <2>2. i = 0 => x.pc = "create" /\ x.pkt = c.pkt
    BY <1>c DEF Call, To, Learning
  <2>3. i # 0 => x.pc = "get" /\ x.pkt = c.pkt /\ x.id = i
    BY <1>c DEF Call, To, Learning
  <2> HIDE DEF x
  <2> QED BY <1>f, <2>1, <2>2, <2>3
<1>2. CASE Get(q)
  <2> DEFINE o == map[c.id]
             goes == CASE o = 0 -> "heal" [] o # 0 /\ HasEntity(o, c.pkt) -> "touch" [] OTHER -> "copy"
             x == [To(q, goes) EXCEPT !.obj = o]
  <2>1. c.pc = "get" /\ Go(q, x) /\ UNCHANGED <<index, map, objs>>
    BY <1>2 DEF Get, At
  <2>2. goes \in {"heal", "touch", "copy"} /\ (goes = "touch" => HasEntity(o, c.pkt))
    <3> DEFINE b == HasEntity(o, c.pkt)
    <3> HIDE DEF b
    <3>1. goes = CASE o = 0 -> "heal" [] o # 0 /\ b -> "touch" [] OTHER -> "copy"
      BY DEF b
    <3> HIDE DEF goes, o
    <3>2. goes \in {"heal", "touch", "copy"} /\ (goes = "touch" => b)
      BY <3>1
    <3> QED BY <3>2 DEF b, o
  <2>3. index[h] = c.id
    BY <2>1 DEF HasFound, Learning
  <2> HIDE DEF o, goes
  <2>4. x.pkt = c.pkt /\ x.id = c.id /\ x.obj = o /\ x.pc = goes
    BY <1>c, <2>2 DEF Call, To, Learning
  <2>5. map'[x.id] = x.obj /\ index'[h] = x.id
    BY <2>1, <2>3, <2>4 DEF o
  <2>6. x.pc = "touch" => Has(x.obj, c.pkt)
    BY <2>1, <2>2, <2>4 DEF HasEntity
  <2>7. x.pc \in {"heal", "touch", "copy"}
    BY <2>2, <2>4
  <2> HIDE DEF x
  <2> QED BY <1>f, <2>1, <2>4, <2>5, <2>6, <2>7
<1>3. CASE Heal(q)
    BY <1>3, <1>r DEF Heal, At, Learning
<1>4. CASE Create(q)
  <2> DEFINE p == c.pkt
             id == counter + 1
             d == [id |-> id, ents |-> {p}, aps |-> <<p>>, old |-> <<>>]
             x == [To(q, "put") EXCEPT !.id = id, !.obj = Len(objs) + 1]
  <2>1. /\ c.pc = "create"
        /\ \/ ~Valid(port(p)) /\ Finish(q, FALSE) /\ UNCHANGED <<index, objs>>
           \/ Go(q, Restart(q)) /\ UNCHANGED <<index, objs>>
           \/ /\ index' = [index EXCEPT ![h] = id]
              /\ objs' = Append(objs, d) /\ Go(q, x)
    BY <1>4 DEF Create, At
  <2>2. CASE Go(q, Restart(q))
    BY <1>r, <2>1, <2>2 DEF Learning
  <2>3. CASE ~Valid(port(p)) /\ Finish(q, FALSE)
    BY <1>d, <2>3
  <2>4. CASE index' = [index EXCEPT ![h] = id] /\ objs' = Append(objs, d) /\ Go(q, x)
    <3>1. p \in d.ents /\ h \in DOMAIN index
      BY <1>t, <2>1 DEF Learning, Stored
    <3>2. objs'[Len(objs) + 1] = d
      BY <2>4, <1>t DEF Stored
    <3>3. x.pc = "put" /\ x.pkt = p /\ x.id = id /\ x.obj = Len(objs) + 1
      BY <1>c DEF Call, To, Learning
    <3> HIDE DEF d, id
    <3>4. Has(x.obj, p)
      BY <3>1, <3>2, <3>3
    <3>5. index'[h] = x.id
      BY <2>4, <3>1, <3>3
    <3> HIDE DEF x
    <3> QED BY <1>f, <2>4, <3>3, <3>4, <3>5
  <2> QED BY <2>1, <2>2, <2>3, <2>4
<1>5. CASE Put(q)
  <2>1. /\ c.pc = "put" /\ Finish(q, FALSE) /\ UNCHANGED <<index, objs>>
        /\ map' = [map EXCEPT ![c.id] = c.obj]
    BY <1>5 DEF Put, At
  <2>2. c.id # 0 /\ c.obj \in DOMAIN objs /\ index[h] = c.id /\ HasEntity(c.obj, c.pkt)
    BY <1>t, <2>1 DEF CallHolds, HasFound, Learning
  <2>3. c.id \in DOMAIN map /\ c.obj # 0
    BY <1>t, <2>2, DeviceAssumptions DEF Stored
  <2>4. index'[h] # 0 /\ map'[index'[h]] = c.obj /\ Has(c.obj, c.pkt)
    BY <2>1, <2>2, <2>3 DEF HasEntity
  <2> QED BY <1>d, <2>1, <2>3, <2>4
<1>6. CASE Touch(q)
  <2> DEFINE x == [To(q, "ap") EXCEPT !.new = c.obj]
  <2>1. c.pc = "touch" /\ Go(q, x) /\ UNCHANGED <<index, map, objs>>
    BY <1>6 DEF Touch, At
  <2>2. index[h] = c.id /\ map[c.id] = c.obj /\ HasEntity(c.obj, c.pkt)
    BY <2>1 DEF HasFound, Learning
  <2>3. x.pc = "ap" /\ x.pkt = c.pkt /\ x.id = c.id /\ x.obj = c.obj /\ x.new = c.obj
    BY <1>c DEF Call, To, Learning
  <2> HIDE DEF x
  <2>4. Has(x.new, c.pkt) /\ index'[h] = x.id /\ map'[x.id] = x.obj
    BY <2>1, <2>2, <2>3 DEF HasEntity
  <2> QED BY <1>f, <2>1, <2>3, <2>4
<1>7. CASE Copy(q)
  <2> DEFINE d == objs[c.obj]
             e == [d EXCEPT !.ents = @ \union {c.pkt}]
             x == [To(q, "ap") EXCEPT !.new = Len(objs) + 1]
  <2>1. c.pc = "copy" /\ Go(q, x) /\ UNCHANGED <<index, map>> /\ objs' = Append(objs, e)
    BY <1>7 DEF Copy, At
  <2>2. index[h] = c.id /\ map[c.id] = c.obj /\ c.obj \in DOMAIN objs
    BY <1>t, <2>1 DEF HasFound, CallHolds, Learning
  <2>3. c.pkt \in e.ents
    <3>1. d \in Device(n)
      BY <1>t, <2>2 DEF Stored
    <3> QED BY <3>1 DEF Device
  <2>4. x.pc = "ap" /\ x.pkt = c.pkt /\ x.id = c.id /\ x.obj = c.obj /\ x.new = Len(objs) + 1
    BY <1>c DEF Call, To, Learning
  <2> HIDE DEF e, x
  <2>5. objs'[Len(objs) + 1] = e
    BY <1>t, <2>1 DEF Stored
  <2>6. Has(x.new, c.pkt) /\ index'[h] = x.id /\ map'[x.id] = x.obj
    BY <2>1, <2>2, <2>3, <2>4, <2>5
  <2> QED BY <1>f, <2>1, <2>4, <2>6
<1>a. ASSUME c.pc \in {"ap", "place"}, NEW b \in BOOLEAN, AfterAP(q, b),
             UNCHANGED <<index, map>>, objs'[c.new].ents = objs[c.new].ents
      PROVE  Finds(q)'
  <2>1. /\ index[h] = c.id /\ map[c.id] = c.obj /\ HasEntity(c.new, c.pkt)
        /\ c.id # 0 /\ c.new \in DOMAIN objs /\ c.obj \in DOMAIN objs
    BY <1>t, <1>a DEF HasFound, CallHolds, Learning
  <2>2. Has(c.new, c.pkt)
    BY <1>a, <2>1 DEF HasEntity
  <2>3. \/ c.new = c.obj /\ Finish(q, b)
        \/ \E x \in Call(n) :
              /\ Go(q, x) /\ x.pkt = c.pkt /\ x.pc = "replace" /\ x.id = c.id
              /\ x.obj = c.obj /\ x.new = c.new
    <3> DEFINE M == DOMAIN objs
    <3>1. n \in Nat /\ c \in Call(n) /\ CallHolds(c, n, M) /\ q \in Queue
      BY <1>0, <1>t
    <3> HIDE DEF M, n
    <3> QED BY <1>a, <3>1, AfterAPIs
  <2>4. CASE c.new = c.obj /\ Finish(q, b)
    <3>1. index'[h] # 0 /\ map'[index'[h]] # 0 /\ Has(map'[index'[h]], c.pkt)
      BY <1>t, <1>a, <2>1, <2>2, <2>4
    <3> QED BY <1>d, <2>4, <3>1
  <2>5. ASSUME NEW x \in Call(n), Go(q, x), x.pkt = c.pkt, x.pc = "replace", x.id = c.id,
               x.obj = c.obj, x.new = c.new
        PROVE  Finds(q)'
    <3>1. index'[h] = x.id /\ map'[x.id] = x.obj /\ Has(x.new, c.pkt)
      BY <1>a, <2>1, <2>2, <2>5
    <3> QED BY <1>f, <2>5, <3>1
  <2> QED BY <2>3, <2>4, <2>5
<1>8. CASE ReadAPs(q)
  <2> DEFINE d == objs[c.new]
             nap == NewAP(d, c.pkt)
             e == TakeNew(d, c.pkt)
             x == [To(q, "place") EXCEPT !.view = APMap(d.aps), !.todo = {nap},
                                         !.reused = Flagged(d, c.pkt) # {}]
  <2>1. /\ c.pc = "ap" /\ UNCHANGED <<index, map>>
        /\ \/ objs' = [objs EXCEPT ![c.new] = e] /\ Go(q, x)
           \/ AfterAP(q, FALSE) /\ UNCHANGED objs
    BY <1>8 DEF ReadAPs, At
  <2>2. /\ index[h] = c.id /\ map[c.id] = c.obj /\ HasEntity(c.new, c.pkt)
        /\ c.new \in DOMAIN objs /\ c.pkt \in 1..n
    BY <1>t, <2>1 DEF HasFound, CallHolds, Learning
  <2>3. CASE AfterAP(q, FALSE) /\ UNCHANGED objs
    <3>1. \A b \in BOOLEAN : b = FALSE => Finds(q)'
      BY <1>a, <2>1, <2>3
    <3> QED BY <3>1
  <2>4. CASE objs' = [objs EXCEPT ![c.new] = e] /\ Go(q, x)
    <3>1. d \in Device(n)
      BY <1>t, <2>2 DEF Stored
    <3>2. e.ents = d.ents
      <4> HIDE DEF d
      <4> QED BY <1>c, <2>2, <3>1, TakeNewIs
    <3>3. Has(c.new, c.pkt)
      BY <2>2, <2>4, <3>2 DEF HasEntity
    <3>4. x.pc = "place" /\ x.pkt = c.pkt /\ x.id = c.id /\ x.obj = c.obj /\ x.new = c.new
      <4> DEFINE A == APMap(d.aps)
                 B == {nap}
                 R == Flagged(d, c.pkt) # {}
      <4>1. x = [To(q, "place") EXCEPT !.view = A, !.todo = B, !.reused = R]
        OBVIOUS
      <4> HIDE DEF A, B, R, x
      <4> QED BY <1>c, <4>1 DEF Call, To, Learning
    <3> HIDE DEF x
    <3> QED BY <1>f, <2>1, <2>2, <2>4, <3>3, <3>4
  <2> QED BY <2>1, <2>3, <2>4
<1>9. CASE WriteAPs(q)
  <2> DEFINE d == objs[c.new]
             p == CHOOSE a \in c.todo : TRUE
             e == Place(d, c.view, p, c.reused)
             f == IF Moves(c.view, p) /\ c.new = c.obj THEN DropExpired(e) ELSE e
  <2>1. /\ c.pc = "place" /\ UNCHANGED <<index, map>>
        /\ objs' = [objs EXCEPT ![c.new] = f] /\ AfterAP(q, c.reused)
    BY <1>9 DEF WriteAPs, At
  <2>2. c.new \in DOMAIN objs /\ \E a \in 1..n : c.todo = {a}
    BY <1>t, <2>1 DEF CallHolds
  <2>3. p \in 1..n /\ c.view \in SUBSET (1..n) /\ c.reused \in BOOLEAN
    BY <1>c, <2>2 DEF Call
  <2>4. d \in Device(n)
    BY <1>t, <2>2 DEF Stored
  <2> HIDE DEF d, p
  <2>5. e \in Device(n) /\ e.ents = d.ents
    BY <1>c, <2>3, <2>4, PlaceIs
  <2> HIDE DEF e
  <2>6. f.ents = d.ents
    BY <1>c, <2>5, DropExpiredIs
  <2> HIDE DEF f
  <2>7. objs'[c.new].ents = objs[c.new].ents
    BY <2>1, <2>2, <2>6 DEF d
  <2>8. \A b \in BOOLEAN : b = c.reused => Finds(q)'
    BY <1>a, <2>1, <2>7
  <2> QED BY <2>3, <2>8
<1>10. CASE Replace(q)
  <2> DEFINE x == To(q, "reindex")
  <2>1. /\ c.pc = "replace" /\ UNCHANGED <<index, objs>>
        /\ \/ map' = [map EXCEPT ![c.id] = c.new] /\ Go(q, x)
           \/ Go(q, Restart(q))
    BY <1>10 DEF Replace, At
  <2>2. index[h] = c.id /\ HasEntity(c.new, c.pkt) /\ c.id # 0
    BY <1>t, <2>1 DEF HasFound, CallHolds, Learning
  <2>3. CASE Go(q, Restart(q))
    BY <1>r, <2>1, <2>3 DEF Learning
  <2>4. CASE map' = [map EXCEPT ![c.id] = c.new] /\ Go(q, x)
    <3>1. x.pc = "reindex" /\ x.pkt = c.pkt /\ x.id = c.id /\ x.new = c.new
      BY <1>c DEF Call, To, Learning
    <3> HIDE DEF x
    <3>2. map'[c.id] = c.new
      BY <1>t, <2>2, <2>4, DeviceAssumptions DEF Stored
    <3>3. Has(c.new, c.pkt)
      BY <2>1, <2>2 DEF HasEntity
    <3> QED BY <1>f, <2>1, <2>2, <2>4, <3>1, <3>2, <3>3
  <2> QED BY <2>1, <2>3, <2>4
<1>11. CASE Reindex(q)
  <2> DEFINE i == index[h]
  <2>1. /\ c.pc = "reindex" /\ UNCHANGED <<map, objs>>
        /\ index' = [index EXCEPT ![h] = IF i = 0 THEN c.id ELSE i]
        /\ Finish(q, c.reused) \/ Go(q, Restart(q))
    BY <1>11 DEF Reindex, At
  <2>2. /\ i = c.id /\ map[c.id] = c.new /\ HasEntity(c.new, c.pkt) /\ c.id # 0
        /\ c.new \in DOMAIN objs /\ h \in Host
    BY <1>t, <2>1 DEF HasFound, CallHolds, Learning
  <2>3. index'[h] # 0 /\ map'[index'[h]] # 0 /\ Has(map'[index'[h]], c.pkt)
    <3>1. index'[h] = c.id
      BY <1>t, <2>1, <2>2 DEF Stored
    <3>2. c.new # 0
      BY <1>t, <2>2
    <3> QED BY <2>1, <2>2, <3>1, <3>2 DEF HasEntity
  <2> QED BY <1>d, <1>r, <2>1, <2>3 DEF Learning
<1> QED
    BY <1>1, <1>2, <1>3, <1>4, <1>5, <1>6, <1>7, <1>8, <1>9, <1>10, <1>11 DEF Learn

(* Only the thread that makes a step stays undisturbed by it; a call that comes   *)
(* in has found nothing.                                                          *)
LEMMA FindsStep ==
    TypeOK /\ SoloFinds /\ LearntIsFound /\ [Next]_vars => (SoloFinds /\ LearntIsFound)'
<1> SUFFICES ASSUME TypeOK, SoloFinds, LearntIsFound, [Next]_vars
             PROVE  (SoloFinds /\ LearntIsFound)'
    OBVIOUS
<1>1. CASE UNCHANGED vars
  <2>1. UNCHANGED <<topo, up, packets, index, map, objs, qp, solo, learnt>>
    BY <1>1 DEF vars, shared
  <2>2. \A q \in solo : HasFound(qp[q]) => HasFound(qp[q])'
    <3> TAKE q \in solo
    <3>1. host(qp[q].pkt)' = host(qp[q].pkt)
      BY <2>1 DEF host
    <3>2. \A o : HasEntity(o, qp[q].pkt)' = HasEntity(o, qp[q].pkt)
      BY <2>1 DEF HasEntity, port
    <3> QED BY <2>1, <3>1, <3>2 DEF HasFound
  <2>3. LearntIsFound'
    BY <2>1 DEF LearntIsFound, Valid, port, FoundFor, host, HasEntity
  <2> QED BY <2>1, <2>2, <2>3 DEF SoloFinds
<1>2. ASSUME NEW q \in Queue, Learn(q) PROVE (SoloFinds /\ LearntIsFound)'
  <2>1. solo' = solo \intersect {q}
    BY <1>2, LearnIs
  <2>2. CASE q \in solo
    <3>1. Finds(q)'
      BY <1>2, <2>2, LearnFinds DEF SoloFinds
    <3> QED BY <2>1, <3>1 DEF SoloFinds, Finds
  <2>3. CASE q \notin solo
    <3>1. learnt' = {} /\ solo' = {}
      BY <1>2, <2>1, <2>3, LearnDisturbed
    <3> QED BY <3>1 DEF SoloFinds, LearntIsFound
  <2> QED BY <2>2, <2>3
<1>3. ASSUME NEW q \in Queue, NEW h \in Host, NEW p \in Port, NEW t \in 1..MaxTime,
             Receive(q, h, p, t)
      PROVE  (SoloFinds /\ LearntIsFound)'
  <2> DEFINE rest == Resting
             k == Len(packets) + 1
             x == [rest EXCEPT !.pc = "find", !.pkt = k]
  <2>1. qp' = [qp EXCEPT ![q] = x] /\ solo' = {q} /\ learnt' = {} /\ DOMAIN qp = Queue
    BY <1>3 DEF Receive, TypeOK
  <2>2. x.pc = "find"
    BY DEF Resting
  <2> HIDE DEF x
  <2>3. HasFound(qp[q])'
    BY <2>1, <2>2 DEF HasFound, Learning
  <2> QED BY <2>1, <2>3 DEF SoloFinds, LearntIsFound
<1>4. CASE Disturbance
    BY <1>4, Disturbs DEF SoloFinds, LearntIsFound
<1> QED BY <1>1, <1>2, <1>3, <1>4, NextIs

(* A packet that is learnt without disturbance makes its host findable, whatever  *)
(* learning, clean-up, topology changes and disconnections have left behind or    *)
(* are in the middle of.                                                          *)
THEOREM LearntIsFoundHolds == Spec => []LearntIsFound
<1>1. Init => TypeOK /\ SoloFinds /\ LearntIsFound
    BY InitTypes DEF Init, SoloFinds, LearntIsFound
<1>2. TypeOK /\ SoloFinds /\ LearntIsFound /\ [Next]_vars
         => (TypeOK /\ SoloFinds /\ LearntIsFound)'
    BY NextTypes, FindsStep
<1> QED BY <1>1, <1>2, PTL DEF Spec
-----------------------------------------------------------------------------
(* The stamps: no packet came in after the last one, and of an attachment point   *)
(* that was made, it became active before it was last seen, which is not later    *)
(* than the last packet.                                                          *)
Stamps ==
    /\ \A i \in 1..Len(packets) : time(i) <= Now
    /\ \A a \in 1..Len(packets) : ap[a].since <= ap[a].seen /\ ap[a].seen <= Now

(* Packet n is the last one, and its attachment point is as it was made.          *)
Newest(n) == n = Len(packets) /\ ap[n].since = time(n) /\ ap[n].seen = time(n)

(* Object o is reported on the port of packet n, or on another one of its domain  *)
(* on which it was seen in the same millisecond.                                  *)
Located(o, n) ==
    \E a \in APMap(objs[o].aps) :
       \/ port(a) = port(n)
       \/ Domain(port(a)) = Domain(port(n)) /\ ap[a].seen = time(n)

(* What an undisturbed call has placed: its packet is the last one until the      *)
(* attachment point is placed, and then the object is reported on its port.       *)
HasPlaced(c) ==
    /\ c.pc \in {"find", "create", "get", "heal", "touch", "copy", "ap"} => Newest(c.pkt)
    /\ c.pc = "place" /\ ~c.reused =>
          /\ Newest(c.pkt) /\ c.todo = {c.pkt} /\ Valid(port(c.pkt))
          /\ c.view = APMap(objs[c.new].aps)
    /\ c.pc = "put" /\ Valid(port(c.pkt)) => Located(c.obj, c.pkt)
    /\ c.pc \in {"replace", "reindex"} /\ Valid(port(c.pkt)) /\ ~c.reused =>
          Located(c.new, c.pkt)
SoloPlaces == \A q \in solo : qp[q].pc \in Learning => HasPlaced(qp[q])
Places(q) == HasPlaced(qp[q]) /\ LearntIsLocated

(* The types of the stamps and of the number of the last packet.                  *)
LEMMA StampsTyped ==
    ASSUME TypeOK
    PROVE  /\ ap \in [1..MaxPackets -> [since : Nat, seen : Nat]] /\ Len(packets) \in Nat
           /\ Len(packets) <= MaxPackets /\ MaxPackets \in Nat /\ INACTIVITY_INTERVAL \in Nat
           /\ 1..Len(packets) \subseteq 1..MaxPackets
           /\ \A i \in 1..Len(packets) : time(i) \in Nat
           /\ Now \in Nat /\ (Len(packets) # 0 => Now = time(Len(packets)))
<1>1. /\ ap \in [1..MaxPackets -> [since : Nat, seen : Nat]] /\ Len(packets) <= MaxPackets
      /\ packets \in Seq([host : Host, port : Port, time : Nat])
    BY DEF TypeOK
<1>2. Len(packets) \in Nat /\ (packets = <<>> <=> Len(packets) = 0)
  <2> DEFINE P == [host : Host, port : Port, time : Nat]
  <2>1. packets \in Seq(P)
    BY <1>1
  <2> HIDE DEF P
  <2> QED BY <2>1
<1>3. 1..Len(packets) \subseteq 1..MaxPackets
    BY <1>1, <1>2, DeviceAssumptions
<1>4. \A i \in 1..Len(packets) : time(i) \in Nat
    BY PacketIs
<1>5. Now \in Nat /\ (Len(packets) # 0 => Now = time(Len(packets)))
    BY <1>2, <1>4 DEF Now
<1> QED BY <1>1, <1>2, <1>3, <1>4, <1>5, DeviceAssumptions

(* setLastSeen with a stamp of the past keeps the order of the stamps.            *)
LEMMA SetStamps ==
    ASSUME TypeOK, Stamps, NEW a \in 1..Len(packets), NEW t \in Nat, t <= Now
    PROVE  LET r == SetLastSeen(a, t)[a]
           IN  r.since <= r.seen /\ r.seen <= Now
<1> DEFINE r == SetLastSeen(a, t)[a]
<1>1. /\ ap \in [1..MaxPackets -> [since : Nat, seen : Nat]] /\ a \in 1..MaxPackets
      /\ INACTIVITY_INTERVAL \in Nat /\ Now \in Nat
    BY StampsTyped
<1>2. /\ r.seen = IF ap[a].seen < t THEN t ELSE ap[a].seen
      /\ r.since = IF ap[a].seen + INACTIVITY_INTERVAL < t THEN t ELSE ap[a].since
    BY <1>1, SetLastSeenType
<1>3. ap[a].since \in Nat /\ ap[a].seen \in Nat
    BY <1>1
<1>4. ap[a].since <= ap[a].seen /\ ap[a].seen <= Now
    BY DEF Stamps
<1> HIDE DEF r
<1>5. r.since <= r.seen /\ r.seen <= Now
    BY <1>1, <1>2, <1>3, <1>4
<1> QED BY <1>5 DEF r

(* A packet that comes in is the last one, and its stamp is not earlier than the  *)
(* others.                                                                        *)
LEMMA ReceivedIs ==
    ASSUME TypeOK, NEW q \in Queue, NEW h \in Host, NEW p \in Port, NEW t \in 1..MaxTime,
           Receive(q, h, p, t)
    PROVE  LET n == Len(packets)
           IN  /\ Len(packets') = n + 1 /\ Now' = t /\ t \in Nat
               /\ packets'[n + 1].time = t /\ \A i \in 1..n : time(i)' = time(i)
               /\ ap'[n + 1].since = t /\ ap'[n + 1].seen = t
               /\ \A a \in 1..n : ap'[a] = ap[a]
               /\ n # 0 => Now <= t
<1> DEFINE n == Len(packets)
           r == [host |-> h, port |-> p, time |-> t]
           a == [since |-> t, seen |-> t]
           P == [host : Host, port : Port, time : Nat]
<1>1. /\ packets' = Append(packets, r) /\ ap' = [ap EXCEPT ![n + 1] = a]
      /\ n + 1 <= MaxPackets /\ t >= Now
    BY DEF Receive
<1>2. /\ n \in Nat /\ Now \in Nat /\ t \in Nat /\ packets \in Seq(P)
      /\ ap \in [1..MaxPackets -> [since : Nat, seen : Nat]] /\ MaxPackets \in Nat
  <2>1. packets \in Seq(P)
    BY DEF TypeOK
  <2> HIDE DEF P
  <2> QED BY <2>1, StampsTyped, DeviceAssumptions
<1> HIDE DEF P, r, a
<1>3. /\ Len(packets') = n + 1 /\ packets'[n + 1] = r /\ packets' # <<>>
      /\ \A i \in 1..n : packets'[i] = packets[i]
    BY <1>1, <1>2
<1>4. packets'[n + 1].time = t
    BY <1>3 DEF r
<1>5. Now' = t
    BY <1>3 DEF Now, time, r
<1>6. \A i \in 1..n : time(i)' = time(i)
    BY <1>3 DEF time
<1>7. ap'[n + 1] = a /\ \A i \in 1..n : ap'[i] = ap[i]
    BY <1>1, <1>2
<1>8. Now <= t
    BY <1>1, <1>2
<1> QED BY <1>2, <1>3, <1>4, <1>5, <1>6, <1>7, <1>8 DEF a

(* Only updateAttachmentPoint and a packet that comes in set stamps.              *)
LEMMA StampsStep == TypeOK /\ Stamps /\ [Next]_vars => Stamps'
<1> SUFFICES ASSUME TypeOK, Stamps, [Next]_vars PROVE Stamps'
    OBVIOUS
<1> DEFINE n == Len(packets)
<1>t. /\ ap \in [1..MaxPackets -> [since : Nat, seen : Nat]] /\ n \in Nat
      /\ n <= MaxPackets /\ MaxPackets \in Nat /\ 1..n \subseteq 1..MaxPackets
      /\ Now \in Nat /\ \A i \in 1..n : time(i) \in Nat /\ time(i) <= Now
    BY StampsTyped DEF Stamps
<1>u. ASSUME packets' = packets,
             \A a \in 1..n : \/ ap'[a] = ap[a]
                             \/ ap'[a].since <= ap'[a].seen /\ ap'[a].seen <= Now
      PROVE  Stamps'
    BY <1>u DEF Stamps, time, Now
<1>1. ASSUME NEW q \in Queue, ReadAPs(q) PROVE Stamps'
  <2> DEFINE c == qp[q]
             nap == NewAP(objs[c.new], c.pkt)
             t == time(c.pkt)
  <2>1. packets' = packets /\ (ap' = ap \/ ap' = SetLastSeen(nap, t)) /\ c.pc = "ap"
    BY <1>1 DEF ReadAPs, AfterAP, At
  <2>2. CASE ap' = SetLastSeen(nap, t)
    <3>1. c.new \in DOMAIN objs /\ c.pkt \in 1..n /\ objs \in Seq(Device(n))
      BY <2>1, CallIs DEF CallHolds, Learning, Stored
    <3>2. objs[c.new] \in Device(n)
      BY <3>1
    <3>3. nap \in 1..n
      BY <1>t, <3>1, <3>2, TakeNewIs
    <3>4. t \in Nat /\ t <= Now
      BY <1>t, <3>1
    <3> HIDE DEF nap, t
    <3>5. nap \in 1..MaxPackets
      BY <1>t, <3>3
    <3>6. /\ ap'[nap].since <= ap'[nap].seen /\ ap'[nap].seen <= Now
          /\ \A a \in 1..MaxPackets : a # nap => ap'[a] = ap[a]
      BY <1>t, <2>2, <3>3, <3>4, <3>5, SetStamps, SetLastSeenType
    <3> QED BY <1>t, <1>u, <2>1, <3>6
  <2> QED BY <1>u, <2>1, <2>2
<1>2. ASSUME NEW q \in Queue, WriteAPs(q) PROVE Stamps'
  <2> DEFINE c == qp[q]
             p == CHOOSE a \in c.todo : TRUE
             S == SeenAgain(c.view, p)
             t == ap[p].seen
  <2>1. /\ packets' = packets /\ c.pc = "place"
        /\ ap' = [a \in DOMAIN ap |-> IF a \in S THEN SetLastSeen(a, t)[a] ELSE ap[a]]
    BY <1>2 DEF WriteAPs, At
  <2>2. \E a \in 1..n : c.todo = {a}
    BY <2>1, CallIs DEF CallHolds
  <2>3. p \in 1..n
    BY <2>2
  <2> HIDE DEF p, S
  <2>4. t \in Nat /\ t <= Now
    BY <1>t, <2>3 DEF Stamps
  <2> HIDE DEF t
  <2>5. ASSUME NEW a \in 1..n
        PROVE  ap'[a] = ap[a] \/ (ap'[a].since <= ap'[a].seen /\ ap'[a].seen <= Now)
    <3>1. ap'[a] = IF a \in S THEN SetLastSeen(a, t)[a] ELSE ap[a]
      BY <1>t, <2>1
    <3> QED BY <2>4, <3>1, SetStamps
  <2> QED BY <1>u, <2>1, <2>5
<1>3. ASSUME NEW q \in Queue, NEW h \in Host, NEW p \in Port, NEW t \in 1..MaxTime,
             Receive(q, h, p, t)
      PROVE  Stamps'
  <2>1. /\ Len(packets') = n + 1 /\ Now' = t /\ t \in Nat
        /\ packets'[n + 1].time = t /\ \A i \in 1..n : time(i)' = time(i)
        /\ ap'[n + 1].since = t /\ ap'[n + 1].seen = t /\ \A a \in 1..n : ap'[a] = ap[a]
        /\ n # 0 => Now <= t
    BY <1>3, ReceivedIs
  <2>2. ASSUME NEW a \in 1..(n + 1)
        PROVE  time(a)' <= t /\ ap'[a].since <= ap'[a].seen /\ ap'[a].seen <= t
    <3>1. CASE a = n + 1
      <4>1. packets'[a].time = t /\ ap'[a].since = t /\ ap'[a].seen = t
        <5> HIDE DEF n
        <5> QED BY <2>1, <3>1
      <4>2. time(a)' = t
        BY <4>1 DEF time
      <4> QED BY <2>1, <4>1, <4>2
    <3>2. CASE a \in 1..n
      <4>1. time(a)' = time(a) /\ ap'[a] = ap[a] /\ Now <= t
        BY <1>t, <2>1, <3>2
      <4>2. time(a) \in Nat /\ ap[a].since \in Nat /\ ap[a].seen \in Nat
        BY <1>t, <3>2
      <4>3. time(a) <= Now /\ ap[a].since <= ap[a].seen /\ ap[a].seen <= Now
        BY <3>2 DEF Stamps
      <4> QED BY <1>t, <2>1, <4>1, <4>2, <4>3
    <3>3. a = n + 1 \/ a \in 1..n
      BY <1>t
    <3> QED BY <3>1, <3>2, <3>3
  <2> QED BY <2>1, <2>2 DEF Stamps
<1>4. CASE UNCHANGED vars
    BY <1>u, <1>4 DEF vars, shared
<1>5. ASSUME NEW q \in Queue, Learn(q) PROVE Stamps'
  <2>1. CASE Find(q) \/ Get(q) \/ Heal(q) \/ Create(q) \/ Put(q) \/ Touch(q) \/ Copy(q)
             \/ Replace(q) \/ Reindex(q)
    BY <1>u, <2>1 DEF Find, Get, Heal, Create, Put, Touch, Copy, Replace, Reindex
  <2> QED BY <1>1, <1>2, <1>5, <2>1 DEF Learn
<1>6. CASE Disturbance
    BY <1>6, <1>u DEF Disturbance, Cleanup, NextDevice, EndCleanup, Scan, CleanIndex, CleanRemove,
        CleanReplace, Clean, StartCleanup, UpdateAttachmentPoints, VisitDevice, RemoveVisited,
        EndUpdate, Update, ChangeTopology, Disconnect, Leave, Collect, Collected, Detach, Unindex,
        Drop, Forget, Depart, Reconnect
<1> QED BY <1>3, <1>4, <1>5, <1>6, NextIs
-----------------------------------------------------------------------------
(* Every step of the call itself keeps what it has placed, until the last one.    *)
LEMMA LearnPlaces ==
    ASSUME TypeOK, Stamps, NEW q \in solo, HasFound(qp[q]), HasPlaced(qp[q]), Learn(q)
    PROVE  Places(q)'
<1> DEFINE c == qp[q]
           n == Len(packets)
           h == host(c.pkt)
           Loc(o) == \E a \in APMap(objs'[o].aps) :
                        \/ port(a) = port(c.pkt)
                        \/ Domain(port(a)) = Domain(port(c.pkt)) /\ ap'[a].seen = time(c.pkt)
<1>0. q \in Queue
    BY DEF TypeOK
<1>t. /\ n \in Nat /\ c \in Call(n) /\ CallHolds(c, n, DOMAIN objs) /\ Stored
      /\ DOMAIN objs = 1..Len(objs) /\ Len(objs) \in Nat /\ c.id \in 0..MaxDevices
      /\ c.pc \in Learning => c.pkt \in 1..n /\ c.pkt \in 1..MaxPackets /\ h \in Host
    BY <1>0, CallIs
<1>c. n \in Nat /\ c \in Call(n)
    BY <1>t
<1>b. PICK b \in BOOLEAN : c.reused = b
    BY <1>t DEF Call
<1>p. UNCHANGED <<packets, topo, up>>
    BY LearnIs
<1>m. \A l : APMap(l)' = APMap(l)
    BY <1>p DEF APMap, Valid, Domain, port
<1>g. \A x : Go(q, x) => qp'[q] = x /\ learnt' = {}
    BY <1>0 DEF Go, TypeOK
<1>f. ASSUME NEW x, Go(q, x), x.pkt = c.pkt,
             x.pc \in {"find", "create", "get", "heal", "touch", "copy", "ap"} =>
                Newest(c.pkt) /\ ap' = ap,
             x.pc = "place" /\ ~x.reused =>
                /\ Newest(c.pkt) /\ ap' = ap /\ x.todo = {c.pkt} /\ Valid(port(c.pkt))
                /\ x.view = APMap(objs'[x.new].aps),
             x.pc = "put" /\ Valid(port(c.pkt)) => Loc(x.obj),
             x.pc \in {"replace", "reindex"} /\ Valid(port(c.pkt)) /\ ~x.reused => Loc(x.new)
      PROVE  Places(q)'
  <2>1. qp'[q] = x /\ learnt' = {} /\ UNCHANGED <<packets, topo, up>>
    BY <1>f, <1>g, <1>p
  <2>2. \A k : Newest(k) /\ ap' = ap => Newest(k)'
    BY <2>1 DEF Newest, time
  <2>3. x.pc \in {"find", "create", "get", "heal", "touch", "copy", "ap"} => Newest(qp[q].pkt)'
    BY <1>f, <2>1, <2>2
  <2>4. x.pc = "place" /\ ~x.reused =>
           /\ Newest(qp[q].pkt)' /\ x.todo = {x.pkt} /\ Valid(port(qp[q].pkt))'
           /\ x.view = APMap(objs[x.new].aps)'
    BY <1>f, <1>m, <2>1, <2>2 DEF Valid, port
  <2>5. Valid(port(qp[q].pkt))' =>
           /\ x.pc = "put" => Located(qp[q].obj, qp[q].pkt)'
           /\ x.pc \in {"replace", "reindex"} /\ ~x.reused => Located(qp[q].new, qp[q].pkt)'
    <3>1. \A o : Loc(o) => Located(o, qp[q].pkt)'
      BY <1>f, <1>m, <2>1 DEF Located, port, time, Domain
    <3>2. Valid(port(qp[q].pkt))' = Valid(port(c.pkt))
      BY <1>f, <2>1 DEF Valid, port
    <3> HIDE DEF Loc
    <3> QED BY <1>f, <2>1, <3>1, <3>2
  <2>6. HasPlaced(qp[q])'
    BY <2>1, <2>3, <2>4, <2>5 DEF HasPlaced
  <2> QED BY <2>1, <2>6 DEF Places, LearntIsLocated
<1>r. c.pc \in Learning /\ Go(q, Restart(q)) /\ Newest(c.pkt) /\ ap' = ap => Places(q)'
  <2>1. c.pc \in Learning => c.pkt # 0
    BY <1>t
  <2>2. c.pc \in Learning => Restart(q).pc = "find" /\ Restart(q).pkt = c.pkt
    BY <1>0, <1>c, <2>1, CallEnds
  <2> QED BY <1>f, <2>2
<1>d. ASSUME NEW y, Finish(q, y),
             Valid(port(c.pkt)) /\ ~y => index'[h] # 0 /\ Loc(map'[index'[h]])
      PROVE  Places(q)'
  <2>1. qp'[q] = Resting /\ Resting.pc = "idle" /\ UNCHANGED <<packets, topo, up>>
    BY <1>d, <1>0, <1>p DEF Finish, Resting, TypeOK
  <2>2. HasPlaced(qp[q])'
    BY <2>1 DEF HasPlaced
  <2>3. ASSUME NEW r \in learnt', Valid(port(r.pkt))', ~r.reused
        PROVE  Located(FoundFor(r.pkt), r.pkt)'
    <3>1. r.pkt = c.pkt /\ r.reused = y
      BY <1>d, <2>3 DEF Finish
    <3>2. host(r.pkt)' = h /\ Valid(port(r.pkt))' = Valid(port(c.pkt))
      BY <2>1, <3>1 DEF Valid, port, host
    <3>3. index'[h] # 0 /\ Loc(map'[index'[h]])
      BY <1>d, <2>3, <3>1, <3>2
    <3>4. FoundFor(r.pkt)' = map'[index'[h]]
      BY <3>2, <3>3 DEF FoundFor
    <3>5. \A o : Loc(o) => Located(o, r.pkt)'
      BY <1>m, <2>1, <3>1 DEF Located, port, time, Domain
    <3> HIDE DEF Loc, h
    <3>6. PICK o : o = map'[index'[h]]
      OBVIOUS
    <3>7. Located(o, r.pkt)'
      BY <3>3, <3>5, <3>6
    <3> QED BY <3>4, <3>6, <3>7 DEF Located
  <2> QED BY <2>2, <2>3 DEF Places, LearntIsLocated, Located
<1>1. CASE Find(q)
  <2> DEFINE i == index[h]
             x == [To(q, IF i = 0 THEN "create" ELSE "get") EXCEPT !.id = i]
  <2>1. c.pc = "find" /\ Go(q, x) /\ ap' = ap
    BY <1>1 DEF Find, At
  <2>2. x.pc \in {"create", "get"} /\ x.pkt = c.pkt
    BY <1>c DEF Call, To, Learning
  <2>3. Newest(c.pkt)
    BY <2>1 DEF HasPlaced
  <2> HIDE DEF x
  <2> QED BY <1>f, <2>1, <2>2, <2>3
<1>2. CASE Get(q)
  <2> DEFINE o == map[c.id]
             goes == CASE o = 0 -> "heal" [] o # 0 /\ HasEntity(o, c.pkt) -> "touch" [] OTHER -> "copy"
             x == [To(q, goes) EXCEPT !.obj = o]
  <2>1. c.pc = "get" /\ Go(q, x) /\ ap' = ap
    BY <1>2 DEF Get, At
  <2>2. goes \in {"heal", "touch", "copy"}
    <3> DEFINE y == HasEntity(o, c.pkt)
    <3> HIDE DEF y
    <3>1. goes = CASE o = 0 -> "heal" [] o # 0 /\ y -> "touch" [] OTHER -> "copy"
      BY DEF y
    <3> HIDE DEF goes, o
    <3> QED BY <3>1
  <2> HIDE DEF o, goes
  <2>3. x.pkt = c.pkt /\ x.pc = goes
    BY <1>c, <2>2 DEF Call, To, Learning
  <2>4. Newest(c.pkt)
    BY <2>1 DEF HasPlaced
  <2> HIDE DEF x
  <2> QED BY <1>f, <2>1, <2>2, <2>3, <2>4
<1>3. CASE Heal(q)
  <2>1. c.pc = "heal" /\ Go(q, Restart(q)) /\ ap' = ap
    BY <1>3 DEF Heal, At
  <2>2. Newest(c.pkt)
    BY <2>1 DEF HasPlaced
  <2> QED BY <1>r, <2>1, <2>2 DEF Learning
<1>4. CASE Create(q)
  <2> DEFINE p == c.pkt
             id == counter + 1
             d == [id |-> id, ents |-> {p}, aps |-> <<p>>, old |-> <<>>]
             x == [To(q, "put") EXCEPT !.id = id, !.obj = Len(objs) + 1]
  <2>1. /\ c.pc = "create" /\ ap' = ap
        /\ \/ ~Valid(port(p)) /\ Finish(q, FALSE)
           \/ Go(q, Restart(q))
           \/ objs' = Append(objs, d) /\ Go(q, x)
    BY <1>4 DEF Create, At
  <2>2. CASE Go(q, Restart(q))
    <3>1. Newest(c.pkt)
      BY <2>1 DEF HasPlaced
    <3> QED BY <1>r, <2>1, <2>2, <3>1 DEF Learning
  <2>3. CASE ~Valid(port(p)) /\ Finish(q, FALSE)
    BY <1>d, <2>3
  <2>4. CASE objs' = Append(objs, d) /\ Go(q, x)
    <3>1. p \in 1..n /\ d.aps = Append(<<>>, p) /\ <<>> \in Seq(1..n)
      BY <1>t, <2>1 DEF Learning
    <3>2. Valid(port(p)) => p \in APMap(d.aps)
      <4> HIDE DEF p, d
      <4> QED BY <1>c, <3>1, LastOneIn
    <3>3. objs'[Len(objs) + 1] = d
      BY <1>t, <2>4 DEF Stored
    <3>4. x.pc = "put" /\ x.pkt = p /\ x.obj = Len(objs) + 1
      BY <1>c DEF Call, To, Learning
    <3> HIDE DEF d, x
    <3>5. Valid(port(p)) => Loc(x.obj)
      BY <3>2, <3>3, <3>4
    <3> QED BY <1>f, <2>4, <3>4, <3>5
  <2> QED BY <2>1, <2>2, <2>3, <2>4
<1>5. CASE Put(q)
  <2>1. /\ c.pc = "put" /\ Finish(q, FALSE) /\ UNCHANGED <<ap, index, objs>>
        /\ map' = [map EXCEPT ![c.id] = c.obj]
    BY <1>5 DEF Put, At
  <2>2. c.id # 0 /\ index[h] = c.id
    BY <1>t, <2>1 DEF CallHolds, HasFound, Learning
  <2>3. c.id \in DOMAIN map
    BY <1>t, <2>2, DeviceAssumptions DEF Stored
  <2>4. index'[h] # 0 /\ map'[index'[h]] = c.obj
    BY <2>1, <2>2, <2>3
  <2>5. Valid(port(c.pkt)) => Loc(c.obj)
    BY <2>1 DEF HasPlaced, Located
  <2> HIDE DEF Loc
  <2> QED BY <1>d, <2>1, <2>4, <2>5
<1>6. CASE Touch(q) \/ Copy(q)
  <2> DEFINE y == IF Touch(q) THEN c.obj ELSE Len(objs) + 1
             x == [To(q, "ap") EXCEPT !.new = y]
  <2>1. c.pc \in {"touch", "copy"} /\ Go(q, x) /\ ap' = ap
    BY <1>6 DEF Touch, Copy, At
  <2> HIDE DEF y
  <2>2. x.pc = "ap" /\ x.pkt = c.pkt
    BY <1>c DEF Call, To, Learning
  <2>3. Newest(c.pkt)
    BY <2>1 DEF HasPlaced
  <2> HIDE DEF x
  <2> QED BY <1>f, <2>1, <2>2, <2>3
<1>a. ASSUME c.pc \in {"ap", "place"}, NEW r \in BOOLEAN, AfterAP(q, r),
             UNCHANGED <<index, map>>,
             Valid(port(c.pkt)) /\ ~r => Loc(c.new)
      PROVE  Places(q)'
  <2>1. index[h] = c.id /\ map[c.id] = c.obj /\ c.id # 0
    BY <1>t, <1>a DEF HasFound, CallHolds, Learning
  <2>2. \/ c.new = c.obj /\ Finish(q, r)
        \/ \E x \in Call(n) :
              /\ Go(q, x) /\ x.pkt = c.pkt /\ x.pc = "replace" /\ x.new = c.new
              /\ x.reused = r
    <3> DEFINE M == DOMAIN objs
    <3>1. n \in Nat /\ c \in Call(n) /\ CallHolds(c, n, M) /\ q \in Queue
      BY <1>0, <1>t
    <3> HIDE DEF M, n
    <3> QED BY <1>a, <3>1, AfterAPIs
  <2> HIDE DEF Loc
  <2>3. CASE c.new = c.obj /\ Finish(q, r)
    <3>1. index'[h] # 0 /\ map'[index'[h]] = c.new
      BY <1>a, <2>1, <2>3
    <3> QED BY <1>a, <1>d, <2>3, <3>1
  <2>4. ASSUME NEW x \in Call(n), Go(q, x), x.pkt = c.pkt, x.pc = "replace", x.new = c.new,
               x.reused = r
        PROVE  Places(q)'
    BY <1>a, <1>f, <2>4
  <2> QED BY <2>2, <2>3, <2>4
<1>8. CASE ReadAPs(q)
  <2> DEFINE d == objs[c.new]
             nap == NewAP(d, c.pkt)
             e == TakeNew(d, c.pkt)
             V == APMap(d.aps)
             R == Flagged(d, c.pkt) # {}
             x == [To(q, "place") EXCEPT !.view = V, !.todo = {nap}, !.reused = R]
  <2>1. /\ c.pc = "ap" /\ UNCHANGED <<index, map>>
        /\ \/ /\ Valid(port(c.pkt)) /\ objs' = [objs EXCEPT ![c.new] = e] /\ Go(q, x)
              /\ ap' = SetLastSeen(nap, time(c.pkt))
           \/ ~Valid(port(c.pkt)) /\ AfterAP(q, FALSE)
    BY <1>8 DEF ReadAPs, At
  <2>2. c.new \in DOMAIN objs /\ c.pkt \in 1..n /\ c.pkt \in 1..MaxPackets /\ Newest(c.pkt)
    BY <1>t, <2>1 DEF HasPlaced, CallHolds, Learning
  <2>3. CASE ~Valid(port(c.pkt)) /\ AfterAP(q, FALSE)
    <3>1. \A r \in BOOLEAN : r = FALSE => Places(q)'
      BY <1>a, <2>1, <2>3
    <3> QED BY <3>1
  <2>4. CASE /\ Valid(port(c.pkt)) /\ objs' = [objs EXCEPT ![c.new] = e] /\ Go(q, x)
             /\ ap' = SetLastSeen(nap, time(c.pkt))
    <3>1. d \in Device(n)
      BY <1>t, <2>2 DEF Stored
    <3>2. e.aps = d.aps /\ (~R => nap = c.pkt)
      <4> HIDE DEF d
      <4> QED BY <1>c, <2>2, <3>1, TakeNewIs
    <3>3. x.pc = "place" /\ x.pkt = c.pkt /\ x.new = c.new /\ x.todo = {nap} /\ x.view = V
      <4> DEFINE B == {nap}
      <4>1. x = [To(q, "place") EXCEPT !.view = V, !.todo = B, !.reused = R]
        OBVIOUS
      <4> HIDE DEF V, B, R, x
      <4>2. x.pc = "place" /\ x.pkt = c.pkt /\ x.new = c.new /\ x.todo = B /\ x.view = V
        BY <1>c, <4>1 DEF Call, To, Learning
      <4> QED BY <4>2 DEF B
    <3>4. x.reused = R
      <4> DEFINE B == {nap}
      <4>1. PICK y \in BOOLEAN : y = R
        OBVIOUS
      <4>2. x = [To(q, "place") EXCEPT !.view = V, !.todo = B, !.reused = y]
        BY <4>1
      <4> HIDE DEF V, B, R, x
      <4>3. x.reused = y
        BY <1>c, <4>2 DEF Call, To, Learning
      <4> QED BY <4>1, <4>3
    <3>5. objs'[c.new].aps = d.aps
      BY <2>2, <2>4, <3>2
    <3>6. ~R => ap' = ap
      <4> SUFFICES ASSUME ~R PROVE SetLastSeen(c.pkt, time(c.pkt)) = ap
        BY <2>4, <3>2
      <4> DEFINE p == c.pkt
                 t == time(p)
                 v == [since |-> t, seen |-> t]
      <4>1. /\ ap \in [1..MaxPackets -> [since : Nat, seen : Nat]] /\ p \in 1..MaxPackets
            /\ INACTIVITY_INTERVAL \in Nat /\ ap[p].since = t /\ ap[p].seen = t
        BY <1>t, <2>2, DeviceAssumptions DEF Stored, Newest
      <4> HIDE DEF p, t
      <4>2. ap[p] = v /\ t \in Nat
        <5>1. ap[p] \in [since : Nat, seen : Nat]
          BY <4>1
        <5> QED BY <4>1, <5>1
      <4>3. ~(t + INACTIVITY_INTERVAL < t) /\ ~(t < t)
        BY <4>1, <4>2
      <4>4. SetLastSeen(p, t) = [ap EXCEPT ![p] = v]
        BY <4>1, <4>3 DEF SetLastSeen
      <4> HIDE DEF v
      <4>5. SetLastSeen(p, t) = ap
        BY <4>1, <4>2, <4>4
      <4> QED BY <4>5 DEF p, t
    <3> HIDE DEF x, R, nap, e
    <3>7. x.view = APMap(objs'[x.new].aps)
      BY <3>3, <3>5
    <3>8. ~x.reused => x.todo = {c.pkt} /\ ap' = ap
      BY <3>2, <3>3, <3>4, <3>6
    <3> QED BY <1>f, <2>2, <2>4, <3>3, <3>7, <3>8
  <2> QED BY <2>1, <2>3, <2>4
<1>9. CASE WriteAPs(q)
  <2> DEFINE d == objs[c.new]
             p == CHOOSE a \in c.todo : TRUE
             e == Place(d, c.view, p, c.reused)
             f == IF Moves(c.view, p) /\ c.new = c.obj THEN DropExpired(e) ELSE e
  <2>1. /\ c.pc = "place" /\ UNCHANGED <<index, map>>
        /\ objs' = [objs EXCEPT ![c.new] = f] /\ AfterAP(q, c.reused)
        /\ ap' = [a \in DOMAIN ap |-> IF a \in SeenAgain(c.view, p)
                                      THEN SetLastSeen(a, ap[p].seen)[a] ELSE ap[a]]
    BY <1>9 DEF WriteAPs, At
  <2>2. c.new \in DOMAIN objs /\ \E a \in 1..n : c.todo = {a}
    BY <1>t, <2>1 DEF CallHolds
  <2>3. p \in 1..n /\ c.view \in SUBSET (1..n)
    BY <1>c, <2>2 DEF Call
  <2>4. d \in Device(n)
    BY <1>t, <2>2 DEF Stored
  <2>5. ASSUME ~c.reused PROVE Loc(c.new)
    <3>1. /\ Newest(c.pkt) /\ c.todo = {c.pkt} /\ Valid(port(c.pkt))
          /\ c.view = APMap(d.aps)
      BY <2>1, <2>5 DEF HasPlaced
    <3>2. p = c.pkt
      BY <3>1
    <3>3. ASSUME NEW a \in APMap(d.aps), port(a) # port(p), ~Displaces(a, p)
          PROVE  ap'[a].seen = time(p)
      <4>1. a \in 1..n /\ a \in 1..MaxPackets /\ p \in 1..n /\ Now = time(p)
        <5>1. n # 0 /\ 1..n \subseteq 1..MaxPackets /\ (n # 0 => Now = time(n))
          BY <2>3, StampsTyped
        <5> QED BY <2>3, <3>1, <3>2, <5>1 DEF Newest
      <4>2. /\ ap[p].since = time(p) /\ ap[a].seen <= time(p) /\ ap[a].since <= ap[a].seen
        BY <3>1, <3>2, <4>1 DEF Newest, Stamps
      <4>3. ap[a].since \in Nat /\ ap[a].seen \in Nat /\ time(p) \in Nat
        BY <1>t, <4>1, StampsTyped DEF Stored
      <4>4. ~(ap[a].since > ap[p].since)
        BY <4>2, <4>3
      <4>5. ~(ap[p].since > ap[a].seen)
        BY <3>3, <4>4 DEF Displaces, Later
      <4>6. ap[a].seen = time(p)
        BY <4>2, <4>3, <4>5
      <4>7. ap'[a] = ap[a]
        <5>1. a \notin SeenAgain(c.view, p) /\ a \in DOMAIN ap
          BY <1>t, <3>3, <4>1 DEF SeenAgain, Stored
        <5> QED BY <2>1, <5>1
      <4> QED BY <4>6, <4>7
    <3>4. \E a \in APMap(e.aps) :
             \/ port(a) = port(p)
             \/ Domain(port(a)) = Domain(port(p)) /\ ap'[a].seen = time(p)
      <4> DEFINE V == APMap(d.aps)
      <4>1. \A y \in BOOLEAN : \E a \in APMap(Place(d, V, p, y).aps) :
               \/ port(a) = port(p)
               \/ /\ a \in V /\ Domain(port(a)) = Domain(port(p))
                  /\ port(a) # port(p) /\ ~Displaces(a, p)
        <5>1. Valid(port(p))
          BY <3>1, <3>2
        <5> HIDE DEF d, p
        <5> QED BY <1>c, <2>3, <2>4, <5>1, PlacePuts
      <4>2. \A a \in V : port(a) # port(p) /\ ~Displaces(a, p) => ap'[a].seen = time(p)
        BY <3>3
      <4> HIDE DEF d, p, V
      <4>3. c.view = V
        BY <3>1 DEF V
      <4> QED BY <1>b, <4>1, <4>2, <4>3
    <3>5. f.aps = e.aps
      <4>1. e \in Device(n)
        <5> HIDE DEF d, p
        <5> QED BY <1>b, <1>c, <2>3, <2>4, PlaceIs
      <4> HIDE DEF e
      <4> QED BY <1>c, <4>1, DropExpiredIs
    <3> HIDE DEF d, e, f, p
    <3>6. objs'[c.new] = f
      BY <2>1, <2>2
    <3> QED BY <3>2, <3>4, <3>5, <3>6
  <2> HIDE DEF Loc
  <2>6. \A r \in BOOLEAN : r = c.reused => Places(q)'
    BY <1>a, <2>1, <2>5 DEF Loc
  <2> QED BY <1>b, <2>6
<1>10. CASE Replace(q)
  <2> DEFINE x == To(q, "reindex")
  <2>1. /\ c.pc = "replace" /\ objs' = objs /\ ap' = ap
        /\ IF InMap(c.id, c.obj) THEN Go(q, x) ELSE Go(q, Restart(q))
    BY <1>10 DEF Replace, At
  <2>2. map[c.id] = c.obj /\ c.obj # 0
    BY <1>t, <2>1 DEF HasFound, CallHolds, Learning
  <2>3. Go(q, x)
    BY <2>1, <2>2 DEF InMap, Equal
  <2>4. x.pc = "reindex" /\ x.pkt = c.pkt /\ x.new = c.new /\ x.reused = c.reused
    BY <1>c DEF Call, To, Learning
  <2> HIDE DEF x
  <2>5. Valid(port(c.pkt)) /\ ~x.reused => Loc(x.new)
    BY <2>1, <2>4 DEF HasPlaced, Located
  <2> QED BY <1>f, <2>3, <2>4, <2>5
<1>11. CASE Reindex(q)
  <2> DEFINE i == index[h]
  <2>1. /\ c.pc = "reindex" /\ UNCHANGED <<ap, map, objs>>
        /\ index' = [index EXCEPT ![h] = IF i = 0 THEN c.id ELSE i]
        /\ IF i \in {0, c.id} THEN Finish(q, c.reused) ELSE Go(q, Restart(q))
    BY <1>11 DEF Reindex, At
  <2>2. i = c.id /\ map[c.id] = c.new /\ c.id # 0 /\ h \in Host
    BY <1>t, <2>1 DEF HasFound, CallHolds, Learning
  <2>3. index'[h] # 0 /\ map'[index'[h]] = c.new
    BY <1>t, <2>1, <2>2 DEF Stored
  <2>4. Finish(q, c.reused)
    BY <2>1, <2>2
  <2>5. Valid(port(c.pkt)) /\ ~c.reused => Loc(c.new)
    BY <2>1 DEF HasPlaced, Located
  <2> HIDE DEF Loc
  <2> QED BY <1>d, <2>3, <2>4, <2>5
<1> QED
    BY <1>1, <1>2, <1>3, <1>4, <1>5, <1>6, <1>8, <1>9, <1>10, <1>11 DEF Learn

(* A packet that comes in is the last one; all else is as in FindsStep.           *)
LEMMA PlacesStep ==
    TypeOK /\ Stamps /\ SoloFinds /\ SoloPlaces /\ LearntIsLocated /\ [Next]_vars
       => (SoloPlaces /\ LearntIsLocated)'
<1> SUFFICES ASSUME TypeOK, Stamps, SoloFinds, SoloPlaces, LearntIsLocated, [Next]_vars
             PROVE  (SoloPlaces /\ LearntIsLocated)'
    OBVIOUS
<1>1. CASE UNCHANGED vars
  <2>1. UNCHANGED <<topo, up, packets, ap, index, map, objs, qp, solo, learnt>>
    BY <1>1 DEF vars, shared
  <2>2. \A l : APMap(l)' = APMap(l)
    BY <2>1 DEF APMap, Valid, Domain, port
  <2>3. \A q \in solo : HasPlaced(qp[q]) => HasPlaced(qp[q])'
    <3> TAKE q \in solo
    <3>1. /\ Newest(qp[q].pkt)' = Newest(qp[q].pkt)
          /\ Valid(port(qp[q].pkt))' = Valid(port(qp[q].pkt))
      BY <2>1 DEF Newest, Valid, time, port
    <3>2. \A o : /\ Located(o, qp[q].pkt)' = Located(o, qp[q].pkt)
                 /\ APMap(objs[o].aps)' = APMap(objs[o].aps)
      BY <2>1, <2>2 DEF Located, port, time, Domain
    <3> QED BY <2>1, <3>1, <3>2 DEF HasPlaced
  <2>4. ASSUME NEW c \in learnt', Valid(port(c.pkt))', ~c.reused, FoundFor(c.pkt)' # 0
        PROVE  Located(FoundFor(c.pkt), c.pkt)'
    <3>1. FoundFor(c.pkt)' = FoundFor(c.pkt) /\ Valid(port(c.pkt)) /\ c \in learnt
      BY <2>1, <2>4 DEF FoundFor, host, Valid, port
    <3>2. PICK o : o = FoundFor(c.pkt)
      OBVIOUS
    <3>3. Located(o, c.pkt)
      BY <2>4, <3>1, <3>2 DEF LearntIsLocated, Located
    <3>4. Located(o, c.pkt)'
      BY <2>1, <2>2, <3>3 DEF Located, port, time, Domain
    <3> QED BY <3>1, <3>2, <3>4 DEF Located
  <2> QED BY <2>1, <2>3, <2>4 DEF SoloPlaces, LearntIsLocated, Located
<1>2. ASSUME NEW q \in Queue, Learn(q) PROVE (SoloPlaces /\ LearntIsLocated)'
  <2>1. solo' = solo \intersect {q} /\ qp[q].pc \in Learning
    BY <1>2, LearnIs
  <2>2. CASE q \in solo
    <3>1. Places(q)'
      BY <1>2, <2>1, <2>2, LearnPlaces DEF SoloFinds, SoloPlaces
    <3> QED BY <2>1, <3>1 DEF SoloPlaces, Places
  <2>3. CASE q \notin solo
    <3>1. learnt' = {} /\ solo' = {}
      BY <1>2, <2>3, LearnDisturbed
    <3> QED BY <3>1 DEF SoloPlaces, LearntIsLocated
  <2> QED BY <2>2, <2>3
<1>3. ASSUME NEW q \in Queue, NEW h \in Host, NEW p \in Port, NEW t \in 1..MaxTime,
             Receive(q, h, p, t)
      PROVE  (SoloPlaces /\ LearntIsLocated)'
  <2> DEFINE rest == Resting
             k == Len(packets) + 1
             x == [rest EXCEPT !.pc = "find", !.pkt = k]
  <2>1. qp' = [qp EXCEPT ![q] = x] /\ solo' = {q} /\ learnt' = {} /\ DOMAIN qp = Queue
    BY <1>3 DEF Receive, TypeOK
  <2>2. x.pc = "find" /\ x.pkt = k
    BY DEF Resting
  <2> HIDE DEF x
  <2>3. Len(packets') = k /\ ap'[k].since = t /\ ap'[k].seen = t /\ packets'[k].time = t
    BY <1>3, ReceivedIs
  <2>4. Newest(qp[q].pkt)'
    <3>1. qp'[q].pkt = k
      BY <2>1, <2>2
    <3>2. time(qp[q].pkt)' = packets'[k].time
      BY <3>1 DEF time
    <3> HIDE DEF k
    <3> QED BY <2>3, <3>1, <3>2 DEF Newest
  <2>5. HasPlaced(qp[q])'
    BY <2>1, <2>2, <2>4 DEF HasPlaced
  <2> QED BY <2>1, <2>5 DEF SoloPlaces, LearntIsLocated
<1>4. CASE Disturbance
    BY <1>4, Disturbs DEF SoloPlaces, LearntIsLocated
<1> QED BY <1>1, <1>2, <1>3, <1>4, NextIs

(* A packet that is learnt without disturbance locates its host at the port it    *)
(* came in by, unless the host was seen elsewhere in the domain in the same       *)
(* millisecond or is back at a port it has left.                                  *)
THEOREM LearntIsLocatedHolds == Spec => []LearntIsLocated
<1> DEFINE Inv == TypeOK /\ Stamps /\ SoloFinds /\ LearntIsFound /\ SoloPlaces /\ LearntIsLocated
<1>1. Init => Inv
  <2> SUFFICES ASSUME Init PROVE Inv
    OBVIOUS
  <2>1. Len(packets) = 0 /\ solo = {} /\ learnt = {}
    BY DEF Init
  <2>2. \A a \in 1..Len(packets) : FALSE
    BY <2>1
  <2>3. Stamps
    BY <2>2 DEF Stamps
  <2> QED BY <2>1, <2>3, InitTypes
        DEF SoloFinds, LearntIsFound, SoloPlaces, LearntIsLocated
<1>2. Inv /\ [Next]_vars => Inv'
    BY NextTypes, StampsStep, FindsStep, PlacesStep
<1> QED BY <1>1, <1>2, PTL DEF Spec
=============================================================================
