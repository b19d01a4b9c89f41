----------------------- MODULE FirstFitAllocatorProofs -----------------------
(***************************************************************************)
(* Proofs about FirstFitAllocator, for every number of nodes, every pool   *)
(* and both kinds of caller.                                               *)
(***************************************************************************)
EXTENDS FirstFitAllocator, TLAPS, WellFoundedInduction

-----------------------------------------------------------------------------
(* Sets of nodes ordered by an integer key.                                *)

\* Every nonempty set of natural numbers has a least element.
LEMMA LeastExists ==
    ASSUME NEW T \in SUBSET Nat, T # {}
    PROVE  \E x \in T : \A y \in T : x <= y
<1>1. \E x \in T : \A y \in T : ~(<<y, x>> \in OpToRel(<, Nat))
  <2>1. IsWellFoundedOn(OpToRel(<, Nat), Nat)  BY NatLessThanWellFounded
  <2> HIDE DEF OpToRel
  <2>. QED  BY <2>1, WFMin
<1>2. PICK x \in T : \A y \in T : ~(<<y, x>> \in OpToRel(<, Nat))  BY <1>1
<1>3. \A y \in T : ~(y < x)  BY <1>2 DEF OpToRel
<1>. QED  BY <1>3

\* A nonempty set of nodes with natural keys has a member with the least key,
\* and, the keys being bounded, one with the greatest.
LEMMA LeastKey ==
    ASSUME NEW S, NEW st, S # {}, \A i \in S : st[i] \in Nat
    PROVE  \E m \in S : \A j \in S : st[m] <= st[j]
<1> DEFINE T == {st[i] : i \in S}
<1>1. PICK x \in T : \A y \in T : x <= y  BY LeastExists
<1>. QED  BY <1>1

LEMMA GreatestKey ==
    ASSUME NEW S, NEW st, NEW B \in Nat, S # {},
           \A i \in S : st[i] \in Nat /\ st[i] <= B
    PROVE  \E m \in S : \A j \in S : st[j] <= st[m]
<1> DEFINE T == {B - st[i] : i \in S}
<1>1. T \in SUBSET Nat  OBVIOUS
<1>2. PICK x \in T : \A y \in T : x <= y  BY <1>1, LeastExists, ZenonT(60)
<1>3. PICK m \in S : x = B - st[m]  BY <1>2
<1>. QED  BY <1>2, <1>3

-----------------------------------------------------------------------------
(* Ordered(nx, st, S, h): the list that starts at h and follows nx visits  *)
(* exactly the nodes of S, in increasing order of st.                      *)

Ordered(nx, st, S, h) ==
    /\ S \subseteq Node
    /\ \A i \in S : st[i] \in Nat /\ st[i] < PoolEnd
    /\ \A i, j \in S : st[i] = st[j] => i = j
    /\ S = {} => h = Nil
    /\ S # {} => h \in S /\ \A j \in S : st[h] <= st[j]
    /\ \A i \in S : nx[i] = Nil => \A j \in S : st[j] <= st[i]
    /\ \A i \in S : nx[i] # Nil =>
         /\ nx[i] \in S
         /\ st[i] < st[nx[i]]
         /\ \A j \in S : st[j] <= st[i] \/ st[nx[i]] <= st[j]

LEMMA NilNotNode == Nil \notin Node
BY FFAAssumption DEF Nil, Node

\* What a loop over an ordered list visits.
LEMMA OrderedList ==
    ASSUME NEW nx, NEW st, NEW S, NEW h, Ordered(nx, st, S, h)
    PROVE  ListFrom(nx, h) = S
<1> DEFINE Closed(T) == \A j \in T : nx[j] # Nil => nx[j] \in T
<1>1. CASE S = {}
  BY <1>1 DEF Ordered, ListFrom
<1>2. CASE S # {}
  <2>1. h \in S /\ h # Nil  BY <1>2, NilNotNode DEF Ordered
  <2>2. S \in SUBSET Node /\ Closed(S)  BY DEF Ordered
  <2>3. ListFrom(nx, h) \subseteq S  BY <2>1, <2>2 DEF ListFrom
  <2>4. ASSUME NEW T \in SUBSET Node, Closed(T), h \in T  PROVE S \subseteq T
    <3> SUFFICES ASSUME S \ T # {}  PROVE FALSE  OBVIOUS
    <3>1. PICK m \in S \ T : \A j \in S \ T : st[m] <= st[j]
      BY LeastKey DEF Ordered
    <3>2. m # h  BY <2>4
    <3> DEFINE below == {j \in S : st[j] < st[m]}
    <3>3. h \in below  BY <2>1, <3>2 DEF Ordered
    <3>4. PICK p \in below : \A j \in below : st[j] <= st[p]
      <4>1. \A i \in below : st[i] \in Nat /\ st[i] <= PoolEnd
        BY FFAAssumption DEF Ordered
      <4>. HIDE DEF below
      <4>. QED  BY <3>3, <4>1, GreatestKey, FFAAssumption
    <3>5. p \in T  BY <3>1, <3>4 DEF Ordered
    <3>6. nx[p] = m
      <4>1. nx[p] # Nil  BY <3>4 DEF Ordered
      <4>2. nx[p] \in S /\ st[p] < st[nx[p]] /\ st[nx[p]] <= st[m]
        BY <4>1, <3>4 DEF Ordered
      <4>3. ~(nx[p] \in below)  BY <4>2, <3>4 DEF Ordered
      <4>. QED  BY <4>2, <4>3 DEF Ordered
    <3>7. m \in T  BY <2>4, <3>5, <3>6, NilNotNode DEF Ordered
    <3>. QED  BY <3>7
  <2>5. S \subseteq ListFrom(nx, h)
    BY <2>1, <2>2, <2>4 DEF ListFrom
  <2>. QED  BY <2>3, <2>5
<1>. QED  BY <1>1, <1>2

\* The ordering only depends on what nx and st are on the nodes of the list.
LEMMA OrderedFrame ==
    ASSUME NEW nx, NEW st, NEW nx2, NEW st2, NEW S, NEW h,
           Ordered(nx, st, S, h),
           \A i \in S : nx2[i] = nx[i] /\ st2[i] = st[i]
    PROVE  Ordered(nx2, st2, S, h)
BY DEF Ordered

\* Keys may move as long as they stay in range and in the same order.
LEMMA OrderedRekey ==
    ASSUME NEW nx, NEW st, NEW st2, NEW S, NEW h,
           Ordered(nx, st, S, h),
           \A i \in S : st2[i] \in Nat /\ st2[i] < PoolEnd,
           \A i, j \in S : st[i] < st[j] => st2[i] < st2[j]
    PROVE  Ordered(nx, st2, S, h)
<1>1. \A i, j \in S : st[i] < st[j] \/ st[i] = st[j] \/ st[j] < st[i]
  BY DEF Ordered
<1>2. \A i, j \in S : st[i] <= st[j] <=> st2[i] <= st2[j]
  BY <1>1 DEF Ordered
<1>3. \A i, j \in S : st[i] < st[j] <=> st2[i] < st2[j]
  BY <1>2 DEF Ordered
<1>4. \A i, j \in S : st2[i] = st2[j] => i = j
  BY <1>1, <1>3 DEF Ordered
<1>5. S # {} => h \in S /\ \A j \in S : st2[h] <= st2[j]
  BY <1>2 DEF Ordered
<1>6. \A i \in S : nx[i] = Nil => \A j \in S : st2[j] <= st2[i]
  BY <1>2 DEF Ordered
<1>7. \A i \in S : nx[i] # Nil =>
         /\ nx[i] \in S
         /\ st2[i] < st2[nx[i]]
         /\ \A j \in S : st2[j] <= st2[i] \/ st2[nx[i]] <= st2[j]
  BY <1>2, <1>3 DEF Ordered
<1>. QED  BY <1>4, <1>5, <1>6, <1>7 DEF Ordered

\* FirstOn on an ordered list is the hit with the least key.
LEMMA OrderedFirstOn ==
    ASSUME NEW nx, NEW st, NEW S, NEW h, NEW hits,
           Ordered(nx, st, S, h)
    PROVE  LET i == FirstOn(nx, h, hits)
           IN  \/ i = Nil /\ S \cap hits = {}
               \/ /\ i \in S \cap hits
                  /\ \A j \in S \cap hits : st[i] <= st[j]
<1> DEFINE cut == [i \in Node |-> IF i \in hits THEN Nil ELSE nx[i]]
           found == hits \cap ListFrom(cut, h)
<1>0. FirstOn(nx, h, hits) = IF found = {} THEN Nil ELSE CHOOSE i \in found : TRUE
  BY DEF FirstOn
<1>1. CASE S \cap hits = {}
  <2>1. \A i \in S : cut[i] = nx[i]  BY <1>1 DEF Ordered
  <2>2. Ordered(cut, st, S, h)
    <3> HIDE DEF cut
    <3>. QED  BY <2>1, OrderedFrame
  <2>3. ListFrom(cut, h) = S
    <3> HIDE DEF cut
    <3>. QED  BY <2>2, OrderedList
  <2>. QED  BY <1>0, <1>1, <2>3
<1>2. CASE S \cap hits # {}
  <2>1. PICK m \in S \cap hits : \A j \in S \cap hits : st[m] <= st[j]
    BY <1>2, LeastKey DEF Ordered
  <2> DEFINE P == {j \in S : st[j] <= st[m]}
  <2>2. hits \cap P = {m}  BY <2>1 DEF Ordered
  <2>3. Ordered(cut, st, P, h)
    <3>1. P \subseteq S /\ m \in P /\ m \in Node  BY <2>1 DEF Ordered
    <3>2. h \in P /\ \A j \in P : st[h] <= st[j]  BY <2>1 DEF Ordered
    <3>3. \A i \in P : i # m => i \notin hits /\ cut[i] = nx[i]
      BY <2>2, <3>1 DEF Ordered
    <3>4. cut[m] = Nil  BY <2>1, <3>1
    <3>5. \A i \in P : cut[i] = Nil => \A j \in P : st[j] <= st[i]
      BY <3>1, <3>3, <2>1 DEF Ordered
    <3>6. \A i \in P : cut[i] # Nil =>
            /\ cut[i] \in P
            /\ st[i] < st[cut[i]]
            /\ \A j \in P : st[j] <= st[i] \/ st[cut[i]] <= st[j]
      <4>1. TAKE i \in P
      <4>2. HAVE cut[i] # Nil
      <4>3. i # m /\ cut[i] = nx[i]  BY <4>2, <3>3, <3>4
      <4>4. nx[i] \in S /\ st[i] < st[nx[i]]
        BY <4>2, <4>3, <3>1 DEF Ordered
      <4>5. st[nx[i]] <= st[m]  BY <4>2, <4>3, <3>1, <2>1 DEF Ordered
      <4>. QED  BY <4>2, <4>3, <4>4, <4>5, <3>1 DEF Ordered
    <3>. HIDE DEF cut
    <3>. QED  BY <3>1, <3>2, <3>5, <3>6 DEF Ordered
  <2>4. ListFrom(cut, h) = P
    <3> HIDE DEF cut, P
    <3>. QED  BY <2>3, OrderedList
  <2>. QED  BY <1>0, <2>1, <2>2, <2>4
<1>. QED  BY <1>1, <1>2

\* prev_i on an ordered list: Nil at the head, else the node before i.
LEMMA OrderedPrevOn ==
    ASSUME NEW nx, NEW st, NEW S, NEW h, NEW i \in S \union {Nil},
           Ordered(nx, st, S, h)
    PROVE  LET p == PrevOn(nx, h, i)
           IN  \/ p = Nil /\ h = i
               \/ p \in S /\ nx[p] = i /\ h # i
<1>1. CASE h = i
  BY <1>1 DEF PrevOn
<1>2. CASE h # i
  <2>1. ListFrom(nx, h) = S  BY OrderedList
  <2>2. S # {} /\ h \in S  BY <1>2, NilNotNode DEF Ordered
  <2>3. \E p \in S : nx[p] = i
    <3>1. CASE i = Nil
      <4>1. PICK p \in S : \A j \in S : st[j] <= st[p]
        <5>1. \A k \in S : st[k] \in Nat /\ st[k] <= PoolEnd
          BY FFAAssumption DEF Ordered
        <5>. QED  BY <2>2, <5>1, GreatestKey, FFAAssumption
      <4>2. nx[p] = Nil  BY <4>1 DEF Ordered
      <4>. QED  BY <3>1, <4>2
    <3>2. CASE i \in S
      <4> DEFINE below == {j \in S : st[j] < st[i]}
      <4>1. h \in below  BY <3>2, <1>2, <2>2 DEF Ordered
      <4>2. PICK p \in below : \A j \in below : st[j] <= st[p]
        <5>1. \A k \in below : st[k] \in Nat /\ st[k] <= PoolEnd
          BY FFAAssumption DEF Ordered
        <5>. HIDE DEF below
        <5>. QED  BY <4>1, <5>1, GreatestKey, FFAAssumption
      <4>3. nx[p] # Nil  BY <3>2, <4>2 DEF Ordered
      <4>4. nx[p] \in S /\ st[p] < st[nx[p]] /\ st[nx[p]] <= st[i]
        BY <4>3, <4>2, <3>2 DEF Ordered
      <4>5. nx[p] \notin below  BY <4>4, <4>2 DEF Ordered
      <4>. QED  BY <4>2, <4>4, <4>5, <3>2 DEF Ordered
    <3>. QED  BY <3>1, <3>2
  <2>. QED  BY <1>2, <2>1, <2>3 DEF PrevOn
<1>. QED  BY <1>1, <1>2

-----------------------------------------------------------------------------
(* Linking and unlinking.                                                  *)

\* A node linked in with a new key leaves the list ordered, and touches only
\* its own next and its predecessor's.
LEMMA OrderedInsert ==
    ASSUME NEW nx \in [Node -> Node \union {Nil}], NEW st, NEW st2,
           NEW S, NEW h, NEW node \in Node \ S, NEW s \in Nat,
           Ordered(nx, st, S, h),
           \A i \in S : st[i] # s /\ st2[i] = st[i],
           st2[node] = s, s < PoolEnd
    PROVE  /\ Ordered(InsertNext(nx, h, st, node, s), st2, S \union {node},
                      InsertHead(nx, h, st, node, s))
           /\ InsertNext(nx, h, st, node, s) \in [Node -> Node \union {Nil}]
           /\ \A j \in Node \ (S \union {node}) : InsertNext(nx, h, st, node, s)[j] = nx[j]
<1> DEFINE hits == {i \in Node : st[i] > s}
           i == InsertPoint(nx, h, st, s)
           prev == PrevOn(nx, h, i)
           nx2 == InsertNext(nx, h, st, node, s)
           h2 == InsertHead(nx, h, st, node, s)
<1>1. \/ i = Nil /\ \A j \in S : st[j] < s
      \/ i \in S /\ st[i] > s /\ \A j \in S : st[j] < s \/ st[i] <= st[j]
  <2>1. i = FirstOn(nx, h, hits)  BY DEF InsertPoint
  <2>2. \/ i = Nil /\ S \cap hits = {}
        \/ i \in S \cap hits /\ \A j \in S \cap hits : st[i] <= st[j]
    <3> HIDE DEF hits, i
    <3>. QED  BY <2>1, OrderedFirstOn
  <2>3. S \subseteq Node /\ \A j \in S : st[j] \in Nat  BY DEF Ordered
  <2>. QED  BY <2>2, <2>3
<1>2. \/ prev = Nil /\ h = i
      \/ prev \in S /\ nx[prev] = i /\ h # i
  <2> HIDE DEF i
  <2>1. i \in S \union {Nil}  BY <1>1
  <2>. QED  BY <2>1, OrderedPrevOn
<1>3. nx2 = IF prev = Nil THEN [nx EXCEPT ![node] = i]
            ELSE [nx EXCEPT ![node] = i, ![prev] = node]
  BY DEF InsertNext
<1>4. h2 = IF i = h THEN node ELSE h  BY DEF InsertHead
<1>5. S \subseteq Node /\ i \in Node \union {Nil}  BY <1>1 DEF Ordered
<1> HIDE DEF i, prev, nx2, h2
<1>6. nx2 \in [Node -> Node \union {Nil}]  BY <1>2, <1>3, <1>5
<1>7. /\ nx2[node] = i
      /\ \A j \in Node \ {node} : j # prev => nx2[j] = nx[j]
      /\ prev # Nil => nx2[prev] = node
  BY <1>2, <1>3, <1>5, NilNotNode
<1>8. \A j \in S : st[j] < s <=> ~(st[j] > s)  BY DEF Ordered
<1>9. prev # Nil => st[prev] < s
  <2>1. SUFFICES ASSUME prev # Nil  PROVE st[prev] < s  OBVIOUS
  <2>2. prev \in S /\ nx[prev] = i  BY <1>2, <2>1
  <2>3. CASE i = Nil  BY <1>1, <2>2, <2>3, NilNotNode, <1>5
  <2>4. CASE i # Nil
    <3>1. st[prev] < st[i]  BY <2>2, <2>4 DEF Ordered
    <3>. QED  BY <1>1, <2>2, <2>4, <3>1 DEF Ordered
  <2>. QED  BY <2>3, <2>4
<1>10. prev # Nil => \A j \in S : st[j] <= st[prev] \/ st[j] > s
  <2>1. SUFFICES ASSUME prev # Nil, NEW j \in S  PROVE st[j] <= st[prev] \/ st[j] > s
    OBVIOUS
  <2>2. prev \in S /\ nx[prev] = i  BY <1>2, <2>1
  <2>3. CASE i = Nil  BY <2>2, <2>3 DEF Ordered
  <2>4. CASE i # Nil  BY <1>1, <2>2, <2>4 DEF Ordered
  <2>. QED  BY <2>3, <2>4
<1>11. prev = Nil => \A j \in S : st[j] > s
  <2>1. SUFFICES ASSUME prev = Nil, NEW j \in S  PROVE st[j] > s  OBVIOUS
  <2>2. h = i  BY <1>2, <2>1, <1>5, NilNotNode
  <2>3. h \in S /\ st[h] <= st[j]  BY DEF Ordered
  <2>. QED  BY <1>1, <2>2, <2>3, NilNotNode, <1>5 DEF Ordered
<1>12. Ordered(nx2, st2, S \union {node}, h2)
  <2> DEFINE S2 == S \union {node}
  <2>1. S2 \subseteq Node /\ \A j \in S2 : st2[j] \in Nat /\ st2[j] < PoolEnd
    BY <1>5 DEF Ordered
  <2>2. \A j, k \in S2 : st2[j] = st2[k] => j = k  BY DEF Ordered
  <2>3. h2 \in S2 /\ \A j \in S2 : st2[h2] <= st2[j]
    <3>1. CASE prev = Nil
      <4>1. h2 = node  BY <1>2, <1>4, <3>1, <1>5, NilNotNode
      <4>. QED  BY <4>1, <3>1, <1>11, <2>1
    <3>2. CASE prev # Nil
      <4>1. h2 = h /\ prev \in S  BY <1>2, <1>4, <3>2
      <4>2. h \in S /\ \A j \in S : st[h] <= st[j]  BY <4>1 DEF Ordered
      <4>. QED  BY <4>1, <4>2, <3>2, <1>9, <2>1 DEF Ordered
    <3>. QED  BY <3>1, <3>2
  <2>4. ASSUME NEW k \in S2, nx2[k] = Nil  PROVE \A j \in S2 : st2[j] <= st2[k]
    <3>1. CASE k = node  BY <3>1, <2>4, <1>7, <1>1, <1>5, NilNotNode, <2>1
    <3>2. CASE k # node
      <4>1. k # prev  BY <2>4, <1>7, <3>2, <1>5, NilNotNode
      <4>2. nx[k] = Nil /\ k \in S  BY <4>1, <3>2, <2>4, <1>7, <1>5
      <4>3. \A j \in S : st[j] <= st[k]  BY <4>2 DEF Ordered
      <4>4. s <= st[k]
        <5>1. CASE i = Nil
          <6>1. prev # Nil  BY <5>1, <1>2, <1>5, <4>2, NilNotNode DEF Ordered
          <6>2. prev \in S /\ nx[prev] = Nil  BY <1>2, <5>1, <6>1
          <6>3. st[k] <= st[prev] /\ st[prev] <= st[k]  BY <6>2, <4>2 DEF Ordered
          <6>4. k = prev  BY <6>2, <6>3, <4>2 DEF Ordered
          <6>. QED  BY <6>4, <4>1
        <5>2. CASE i # Nil  BY <5>2, <1>1, <4>2, <4>3 DEF Ordered
        <5>. QED  BY <5>1, <5>2
      <4>. QED  BY <4>2, <4>3, <4>4, <2>1
    <3>. QED  BY <3>1, <3>2
  <2>5. ASSUME NEW k \in S2, nx2[k] # Nil
        PROVE  /\ nx2[k] \in S2
               /\ st2[k] < st2[nx2[k]]
               /\ \A j \in S2 : st2[j] <= st2[k] \/ st2[nx2[k]] <= st2[j]
    <3>1. CASE k = node
      <4>1. nx2[k] = i /\ i \in S /\ st[i] > s  BY <3>1, <2>5, <1>7, <1>1
      <4>2. \A j \in S : st[j] < s \/ st[i] <= st[j]
        BY <4>1, <1>1, <1>5, NilNotNode
      <4>. QED  BY <3>1, <4>1, <4>2, <2>1
    <3>2. CASE k # node /\ k = prev
      <4>1. nx2[k] = node /\ k \in S /\ prev # Nil
        BY <3>2, <1>7, <1>5, NilNotNode
      <4>. QED  BY <3>2, <4>1, <1>9, <1>10, <2>1 DEF Ordered
    <3>3. CASE k # node /\ k # prev
      <4>1. nx2[k] = nx[k] /\ k \in S  BY <3>3, <1>7, <1>5
      <4>2. nx[k] \in S /\ st[k] < st[nx[k]]
            /\ \A j \in S : st[j] <= st[k] \/ st[nx[k]] <= st[j]
        BY <4>1, <2>5 DEF Ordered
      <4>3. s <= st[k] \/ st[nx[k]] <= s
        <5>1. CASE prev = Nil  BY <5>1, <1>11, <4>1, <2>1
        <5>2. CASE prev # Nil
          <6>1. prev \in S /\ nx[prev] = i  BY <1>2, <5>2
          <6>2. st[prev] <= st[k] \/ st[nx[k]] <= st[prev]
            BY <6>1, <4>2
          <6>3. CASE st[nx[k]] <= st[prev]
            BY <6>1, <6>3, <4>2, <1>9, <5>2 DEF Ordered
          <6>4. CASE st[prev] <= st[k]
            <7>1. st[prev] < st[k]  BY <6>1, <6>4, <3>3, <4>1 DEF Ordered
            <7>2. st[k] > s  BY <7>1, <1>10, <5>2, <4>1, <6>1 DEF Ordered
            <7>. QED  BY <7>2, <4>1, <2>1
          <6>. QED  BY <6>2, <6>3, <6>4
        <5>. QED  BY <5>1, <5>2
      <4>. QED  BY <4>1, <4>2, <4>3, <2>1
    <3>. QED  BY <3>1, <3>2, <3>3
  <2>. QED  BY <2>1, <2>2, <2>3, <2>4, <2>5 DEF Ordered
<1>13. \A j \in Node \ (S \union {node}) : nx2[j] = nx[j]
  BY <1>2, <1>7, <1>5, NilNotNode
<1>. QED  BY <1>6, <1>12, <1>13 DEF nx2, h2

\* The part of it that does not mention the new keys.
LEMMA InsertFrame ==
    ASSUME NEW nx \in [Node -> Node \union {Nil}], NEW st,
           NEW S, NEW h, NEW node \in Node \ S, NEW s \in Nat,
           Ordered(nx, st, S, h), \A i \in S : st[i] # s, s < PoolEnd
    PROVE  /\ InsertNext(nx, h, st, node, s) \in [Node -> Node \union {Nil}]
           /\ \A j \in Node \ (S \union {node}) : InsertNext(nx, h, st, node, s)[j] = nx[j]
<1> DEFINE st2 == [i \in Node |-> IF i = node THEN s ELSE st[i]]
<1>1. /\ \A i \in S : st[i] # s /\ st2[i] = st[i]
      /\ st2[node] = s
  BY DEF Ordered
<1> HIDE DEF st2
<1>2. /\ Ordered(InsertNext(nx, h, st, node, s), st2, S \union {node},
                 InsertHead(nx, h, st, node, s))
      /\ InsertNext(nx, h, st, node, s) \in [Node -> Node \union {Nil}]
      /\ \A j \in Node \ (S \union {node}) : InsertNext(nx, h, st, node, s)[j] = nx[j]
  BY <1>1, OrderedInsert
<1>. QED  BY <1>2

\* A node taken out leaves the rest of the list ordered.
LEMMA OrderedUnlink ==
    ASSUME NEW nx \in [Node -> Node \union {Nil}], NEW st,
           NEW S, NEW h, NEW i \in S,
           Ordered(nx, st, S, h)
    PROVE  /\ Ordered(UnlinkNext(nx, h, i), st, S \ {i}, UnlinkHead(nx, h, i))
           /\ UnlinkNext(nx, h, i) \in [Node -> Node \union {Nil}]
           /\ \A j \in Node \ S : UnlinkNext(nx, h, i)[j] = nx[j]
           /\ UnlinkHead(nx, h, i) \in Node \union {Nil}
<1> DEFINE prev == PrevOn(nx, h, i)
           nx2 == UnlinkNext(nx, h, i)
           h2 == UnlinkHead(nx, h, i)
           S2 == S \ {i}
<1>1. \/ prev = Nil /\ h = i
      \/ prev \in S /\ nx[prev] = i /\ h # i
  BY OrderedPrevOn
<1>2. nx2 = IF prev = Nil THEN [nx EXCEPT ![i] = Nil]
            ELSE [nx EXCEPT ![prev] = nx[i], ![i] = Nil]
  BY DEF UnlinkNext
<1>3. h2 = IF h = i THEN nx[i] ELSE h  BY DEF UnlinkHead
<1>4. S \subseteq Node /\ h \in S  BY DEF Ordered
<1> HIDE DEF prev, nx2, h2
<1>5. nx2 \in [Node -> Node \union {Nil}]  BY <1>1, <1>2, <1>4
<1>6. prev # i  BY <1>1, <1>4, NilNotNode DEF Ordered
<1>7. /\ \A j \in Node \ {i} : j # prev => nx2[j] = nx[j]
      /\ prev # Nil => nx2[prev] = nx[i]
  BY <1>1, <1>2, <1>4, <1>6
<1>8. \A j \in S2 : st[j] \in Nat /\ st[j] < PoolEnd  BY DEF Ordered
<1>9. \A j, k \in S2 : st[j] = st[k] => j = k  BY DEF Ordered
<1>10. S2 = {} => h2 = Nil
  <2>1. SUFFICES ASSUME S2 = {}  PROVE h2 = Nil  OBVIOUS
  <2>2. h = i /\ S = {i}  BY <2>1, <1>4
  <2>3. nx[i] = Nil  BY <2>2 DEF Ordered
  <2>. QED  BY <1>3, <2>2, <2>3
<1>11. S2 # {} => h2 \in S2 /\ \A j \in S2 : st[h2] <= st[j]
  <2>1. SUFFICES ASSUME NEW q \in S2
                 PROVE  h2 \in S2 /\ \A j \in S2 : st[h2] <= st[j]
    OBVIOUS
  <2>2. CASE h = i
    <3>1. \A j \in S2 : st[i] < st[j]  BY <2>2 DEF Ordered
    <3>2. nx[i] # Nil  BY <2>1, <3>1 DEF Ordered
    <3>. QED  BY <1>3, <2>2, <3>1, <3>2 DEF Ordered
  <2>3. CASE h # i  BY <1>3, <1>4, <2>3 DEF Ordered
  <2>. QED  BY <2>2, <2>3
<1>12. ASSUME NEW k \in S2, k # prev
       PROVE  nx2[k] = nx[k] /\ nx[k] # i
  <2>1. nx2[k] = nx[k]  BY <1>7, <1>4, <1>12
  <2>2. ASSUME nx[k] = i  PROVE FALSE
    <3>1. st[k] < st[i] /\ \A j \in S : st[j] <= st[k] \/ st[i] <= st[j]
      BY <2>2, <1>4, NilNotNode DEF Ordered
    <3>2. h # i  BY <3>1 DEF Ordered
    <3>3. prev \in S /\ nx[prev] = i  BY <1>1, <3>2
    <3>4. st[prev] < st[i] /\ \A j \in S : st[j] <= st[prev] \/ st[i] <= st[j]
      BY <3>3, <1>4, NilNotNode DEF Ordered
    <3>5. st[k] = st[prev]  BY <3>1, <3>3, <3>4 DEF Ordered
    <3>. QED  BY <3>3, <3>5, <1>12 DEF Ordered
  <2>. QED  BY <2>1, <2>2
<1>13. ASSUME NEW k \in S2, nx2[k] = Nil  PROVE \A j \in S2 : st[j] <= st[k]
  <2>1. CASE k # prev  BY <2>1, <1>12, <1>13 DEF Ordered
  <2>2. CASE k = prev
    <3>1. nx[i] = Nil /\ nx[k] = i
      BY <1>1, <1>7, <1>13, <2>2, <1>4, NilNotNode
    <3>. QED  BY <3>1, <1>4, NilNotNode DEF Ordered
  <2>. QED  BY <2>1, <2>2
<1>14. ASSUME NEW k \in S2, nx2[k] # Nil
       PROVE  /\ nx2[k] \in S2
              /\ st[k] < st[nx2[k]]
              /\ \A j \in S2 : st[j] <= st[k] \/ st[nx2[k]] <= st[j]
  <2>1. CASE k # prev  BY <2>1, <1>12, <1>14 DEF Ordered
  <2>2. CASE k = prev
    <3>1. nx2[k] = nx[i] /\ nx[k] = i /\ nx[i] # Nil
      BY <1>1, <1>7, <1>14, <2>2, <1>4, NilNotNode
    <3>2. st[k] < st[i] /\ \A j \in S : st[j] <= st[k] \/ st[i] <= st[j]
      BY <3>1, <1>4, NilNotNode DEF Ordered
    <3>3. /\ nx[i] \in S /\ st[i] < st[nx[i]]
          /\ \A j \in S : st[j] <= st[i] \/ st[nx[i]] <= st[j]
      BY <3>1 DEF Ordered
    <3>. QED  BY <3>1, <3>2, <3>3 DEF Ordered
  <2>. QED  BY <2>1, <2>2
<1>15. Ordered(nx2, st, S2, h2)
  BY <1>4, <1>8, <1>9, <1>10, <1>11, <1>13, <1>14 DEF Ordered
<1>16. \A j \in Node \ S : nx2[j] = nx[j]
  BY <1>1, <1>7, NilNotNode
<1>17. h2 \in Node \union {Nil}  BY <1>3, <1>4
<1>. QED  BY <1>5, <1>15, <1>16, <1>17 DEF nx2, h2

-----------------------------------------------------------------------------
(* CombineAdjacentFreeNodes.                                               *)

\* What a loop started in the middle of an ordered list still visits.
LEMMA OrderedSuffix ==
    ASSUME NEW nx, NEW st, NEW S, NEW h, NEW i \in S, Ordered(nx, st, S, h)
    PROVE  Ordered(nx, st, {j \in S : st[i] <= st[j]}, i)
BY DEF Ordered

\* A run ends at the first node, from i on, that does not touch its successor;
\* every node before that one does.
LEMMA RunEndIs ==
    ASSUME NEW nx, NEW st, NEW en, NEW S, NEW h, NEW i \in S,
           Ordered(nx, st, S, h)
    PROVE  LET e == RunEnd(st, en, nx, i)
           IN  /\ e \in S
               /\ st[i] <= st[e]
               /\ ~TouchesNext(st, en, nx, e)
               /\ \A j \in S : st[i] <= st[j] /\ st[j] < st[e] => TouchesNext(st, en, nx, j)
<1> DEFINE T == {j \in S : st[i] <= st[j]}
           hits == {j \in Node : ~TouchesNext(st, en, nx, j)}
           e == RunEnd(st, en, nx, i)
<1>1. Ordered(nx, st, T, i)  BY OrderedSuffix
<1>2. \/ e = Nil /\ T \cap hits = {}
      \/ e \in T \cap hits /\ \A j \in T \cap hits : st[e] <= st[j]
  <2>1. e = FirstOn(nx, i, hits)  BY DEF RunEnd
  <2> HIDE DEF T, hits, e
  <2>. QED  BY <1>1, <2>1, OrderedFirstOn
<1>3. T \cap hits # {}
  <2>1. \A k \in T : st[k] \in Nat /\ st[k] <= PoolEnd
    BY FFAAssumption DEF Ordered
  <2>2. i \in T  BY DEF Ordered
  <2>3. PICK m \in T : \A j \in T : st[j] <= st[m]
    <3> HIDE DEF T
    <3>. QED  BY <2>1, <2>2, GreatestKey, FFAAssumption
  <2>4. ASSUME nx[m] # Nil  PROVE FALSE
    <3>1. nx[m] \in S /\ st[m] < st[nx[m]]  BY <2>3, <2>4 DEF Ordered
    <3>2. nx[m] \in T  BY <3>1, <2>3 DEF Ordered
    <3>. QED  BY <3>1, <3>2, <2>3 DEF Ordered
  <2>5. m \in hits  BY <2>3, <2>4 DEF Ordered, TouchesNext
  <2>. QED  BY <2>3, <2>5
<1>4. e \in T /\ ~TouchesNext(st, en, nx, e)  BY <1>2, <1>3
<1>5. \A j \in S : st[i] <= st[j] /\ st[j] < st[e] => TouchesNext(st, en, nx, j)
  <2>1. TAKE j \in S
  <2>2. HAVE st[i] <= st[j] /\ st[j] < st[e]
  <2>3. j \notin hits  BY <1>2, <1>3, <2>2 DEF Ordered
  <2>. QED  BY <2>3 DEF Ordered
<1>. QED  BY <1>4, <1>5

\* The chunks of the nodes U are nonempty and no two share a byte.
Apart(st, en, U) ==
    /\ \A i \in U : st[i] < en[i]
    /\ \A i, j \in U : i # j => en[i] <= st[j] \/ en[j] <= st[i]

\* The bytes lo .. hi - 1 belong to no chunk of U.
Outside(st, en, U, lo, hi) == \A i \in U : hi <= st[i] \/ en[i] <= lo

\* Combining leaves an ordered list of chunks that are still apart, keeps the
\* nodes of the other list, and takes no byte that was not free before.
LEMMA Combined ==
    ASSUME NEW nx \in [Node -> Node \union {Nil}],
           NEW st \in [Node -> Nat], NEW en \in [Node -> Nat],
           NEW S, NEW h, S # {},
           Ordered(nx, st, S, h), Apart(st, en, S)
    PROVE  LET gone == Absorbed(st, en, nx, h)
               st2  == CombinedStart(st, en, nx, h)
               en2  == CombinedEnd(st, en, nx, h)
               nx2  == CombinedNext(st, en, nx, h)
           IN  /\ gone \subseteq S
               /\ Ordered(nx2, st2, S \ gone, h)
               /\ Apart(st2, en2, S \ gone)
               /\ \A i \in S \ gone : \E e \in S : en2[i] = en[e]
               /\ \A i \in S \ gone : st2[i] = st[i]
               /\ \A i \in gone : st2[i] = NULL /\ en2[i] = NULL
               /\ \A i \in Node \ S : st2[i] = st[i] /\ en2[i] = en[i] /\ nx2[i] = nx[i]
               /\ nx2 \in [Node -> Node \union {Nil}]
               /\ \A lo, hi \in Nat : lo < hi /\ Outside(st, en, S, lo, hi)
                                        => Outside(st2, en2, S \ gone, lo, hi)
<1> DEFINE gone == Absorbed(st, en, nx, h)
           st2  == CombinedStart(st, en, nx, h)
           en2  == CombinedEnd(st, en, nx, h)
           nx2  == CombinedNext(st, en, nx, h)
           E(i) == RunEnd(st, en, nx, i)
           T(i) == TouchesNext(st, en, nx, i)
           S2   == S \ gone
<1>1. ListFrom(nx, h) = S  BY OrderedList
<1>2. gone = {nx[i] : i \in {j \in S : T(j)}}  BY <1>1 DEF Absorbed
<1>3. S \subseteq Node /\ h \in S  BY DEF Ordered
<1>4. /\ st2 = [i \in Node |-> IF i \in gone THEN NULL ELSE st[i]]
      /\ en2 = [i \in Node |-> IF i \in gone THEN NULL
                               ELSE IF i \in S THEN en[E(i)] ELSE en[i]]
      /\ nx2 = [i \in Node |-> IF i \in gone THEN Nil
                               ELSE IF i \in S THEN nx[E(i)] ELSE nx[i]]
  BY <1>1 DEF CombinedStart, CombinedEnd, CombinedNext
<1>5. \A i \in S : /\ E(i) \in S /\ st[i] <= st[E(i)] /\ ~T(E(i))
                   /\ \A j \in S : st[i] <= st[j] /\ st[j] < st[E(i)] => T(j)
  BY RunEndIs
<1>6. \A i \in S : T(i) => /\ nx[i] # Nil /\ nx[i] \in S /\ en[i] = st[nx[i]]
                           /\ st[i] < st[nx[i]]
                           /\ \A j \in S : st[j] <= st[i] \/ st[nx[i]] <= st[j]
  BY DEF Ordered, TouchesNext
<1> HIDE DEF gone, st2, en2, nx2, E, T
<1>7. gone \subseteq S  BY <1>2, <1>6
<1>8. h \in S2
  <2>1. SUFFICES ASSUME h \in gone  PROVE FALSE  BY <1>3
  <2>2. PICK i \in S : T(i) /\ nx[i] = h  BY <2>1, <1>2
  <2>3. st[h] <= st[i]  BY DEF Ordered
  <2>. QED  BY <1>3, <1>6, <2>2, <2>3
<1>9. \A i \in S2 : st2[i] = st[i] /\ en2[i] = en[E(i)] /\ nx2[i] = nx[E(i)]
  BY <1>3, <1>4
\* The nodes between a survivor and the end of its run are absorbed.
<1>10. \A i, j \in S2 : st[i] < st[j] => st[E(i)] < st[j]
  <2>1. SUFFICES ASSUME NEW i \in S2, NEW j \in S2, st[i] < st[j], st[j] <= st[E(i)]
                 PROVE  FALSE
    BY <1>3, <1>5
  <2> DEFINE below == {k \in S : st[k] < st[j]}
  <2>2. PICK p \in below : \A k \in below : st[k] <= st[p]
    <3>1. \A k \in below : st[k] \in Nat /\ st[k] <= PoolEnd
      BY FFAAssumption DEF Ordered
    <3>2. i \in below  BY <2>1
    <3>. HIDE DEF below
    <3>. QED  BY <3>1, <3>2, GreatestKey, FFAAssumption
  <2>3. p \in S /\ st[i] <= st[p] /\ st[p] < st[j]  BY <2>1, <2>2
  <2>4. st[p] < st[E(i)]  BY <1>3, <1>5, <2>1, <2>3
  <2>5. T(p)  BY <1>5, <2>1, <2>3, <2>4
  <2>6. nx[p] \in S /\ st[p] < st[nx[p]] /\ st[nx[p]] <= st[j]
    BY <1>3, <1>6, <2>1, <2>3, <2>5
  <2>7. nx[p] \notin below  BY <1>3, <2>2, <2>6
  <2>8. st[nx[p]] = st[j]  BY <1>3, <2>6, <2>7
  <2>9. nx[p] = j  BY <2>1, <2>6, <2>8 DEF Ordered
  <2>. QED  BY <1>2, <2>1, <2>3, <2>5, <2>9
<1>11. \A i \in S2 : nx2[i] # Nil => /\ nx2[i] \in S2
                                     /\ st[E(i)] < st[nx2[i]]
                                     /\ \A j \in S : st[j] <= st[E(i)] \/ st[nx2[i]] <= st[j]
  <2>1. TAKE i \in S2
  <2>2. HAVE nx2[i] # Nil
  <2>3. nx2[i] = nx[E(i)] /\ E(i) \in S /\ ~T(E(i))  BY <1>5, <1>9
  <2>4. /\ nx2[i] \in S /\ st[E(i)] < st[nx2[i]]
        /\ \A j \in S : st[j] <= st[E(i)] \/ st[nx2[i]] <= st[j]
    BY <2>2, <2>3 DEF Ordered
  <2>5. nx2[i] \notin gone
    <3>1. SUFFICES ASSUME nx2[i] \in gone  PROVE FALSE  OBVIOUS
    <3>2. PICK p \in S : T(p) /\ nx[p] = nx2[i]  BY <1>2, <3>1
    <3>3. st[p] < st[nx2[i]] /\ \A j \in S : st[j] <= st[p] \/ st[nx2[i]] <= st[j]
      BY <1>6, <3>2
    <3>4. st[p] = st[E(i)]  BY <1>3, <2>3, <2>4, <3>2, <3>3
    <3>5. p = E(i)  BY <2>3, <3>2, <3>4 DEF Ordered
    <3>. QED  BY <2>3, <3>2, <3>5
  <2>. QED  BY <2>4, <2>5
<1>12. Ordered(nx2, st2, S2, h)
  <2>1. S2 \subseteq Node /\ \A i \in S2 : st2[i] \in Nat /\ st2[i] < PoolEnd
    BY <1>3, <1>9 DEF Ordered
  <2>2. \A i, j \in S2 : st2[i] = st2[j] => i = j  BY <1>9 DEF Ordered
  <2>3. \A j \in S2 : st2[h] <= st2[j]  BY <1>8, <1>9 DEF Ordered
  <2>4. ASSUME NEW i \in S2, nx2[i] = Nil  PROVE \A j \in S2 : st2[j] <= st2[i]
    <3>1. nx[E(i)] = Nil /\ E(i) \in S  BY <1>5, <1>9, <2>4
    <3>2. \A j \in S : st[j] <= st[E(i)]  BY <3>1 DEF Ordered
    <3>3. TAKE j \in S2
    <3>4. ~(st[i] < st[j])  BY <1>3, <1>10, <3>1, <3>2
    <3>. QED  BY <1>3, <1>9, <3>4
  <2>5. ASSUME NEW i \in S2, nx2[i] # Nil
        PROVE  /\ nx2[i] \in S2 /\ st2[i] < st2[nx2[i]]
               /\ \A j \in S2 : st2[j] <= st2[i] \/ st2[nx2[i]] <= st2[j]
    <3>1. /\ nx2[i] \in S2 /\ st[E(i)] < st[nx2[i]]
          /\ \A j \in S : st[j] <= st[E(i)] \/ st[nx2[i]] <= st[j]
      BY <1>11, <2>5
    <3>2. E(i) \in S /\ st[i] <= st[E(i)]  BY <1>5
    <3>3. st[i] < st[nx2[i]]  BY <1>3, <3>1, <3>2
    <3>4. \A j \in S2 : st[j] <= st[i] \/ st[nx2[i]] <= st[j]
      <4>1. TAKE j \in S2
      <4>2. CASE st[i] < st[j]  BY <1>3, <1>10, <3>1, <3>2, <4>2
      <4>3. CASE ~(st[i] < st[j])  BY <1>3, <4>3
      <4>. QED  BY <4>2, <4>3
    <3>. QED  BY <1>9, <3>1, <3>3, <3>4
  <2>. QED  BY <1>8, <2>1, <2>2, <2>3, <2>4, <2>5 DEF Ordered
<1>13. Apart(st2, en2, S2)
  <2>1. ASSUME NEW i \in S2  PROVE st2[i] < en2[i]
    BY <1>3, <1>5, <1>9 DEF Apart
  <2>2. ASSUME NEW i \in S2, NEW j \in S2, st[i] < st[j]  PROVE en2[i] <= st2[j]
    <3>1. E(i) \in S /\ st[E(i)] < st[j]  BY <1>5, <1>10, <2>2
    <3>2. en[E(i)] <= st[j]  BY <1>3, <3>1 DEF Apart
    <3>. QED  BY <1>9, <3>2
  <2>3. \A i, j \in S2 : i # j => st[i] < st[j] \/ st[j] < st[i]
    BY <1>3 DEF Ordered
  <2>. QED  BY <2>1, <2>2, <2>3 DEF Apart
<1>14. ASSUME NEW lo \in Nat, NEW hi \in Nat, lo < hi, Outside(st, en, S, lo, hi)
       PROVE  Outside(st2, en2, S2, lo, hi)
  <2>1. SUFFICES ASSUME NEW i \in S2, st[i] < hi, lo < en[E(i)]  PROVE FALSE
    BY <1>3, <1>5, <1>9 DEF Outside
  <2> DEFINE before == {j \in S : st[i] <= st[j] /\ st[j] <= st[E(i)] /\ st[j] < hi}
  <2>2. PICK m \in before : \A j \in before : st[j] <= st[m]
    <3>1. \A k \in before : st[k] \in Nat /\ st[k] <= PoolEnd
      BY FFAAssumption DEF Ordered
    <3>2. i \in before  BY <1>3, <1>5, <2>1
    <3>. HIDE DEF before
    <3>. QED  BY <3>1, <3>2, GreatestKey, FFAAssumption
  <2>3. en[m] <= lo  BY <1>3, <1>14, <2>2 DEF Outside
  <2>4. st[m] < st[E(i)]
    <3>1. m # E(i)  BY <1>3, <1>5, <2>1, <2>3
    <3>2. st[m] # st[E(i)]  BY <1>5, <2>2, <3>1 DEF Ordered
    <3>. QED  BY <1>3, <1>5, <2>2, <3>2
  <2>5. T(m)  BY <1>5, <2>2, <2>4
  <2>6. nx[m] \in S /\ st[nx[m]] = en[m] /\ st[m] < st[nx[m]] /\ st[nx[m]] <= st[E(i)]
    BY <1>3, <1>5, <1>6, <2>2, <2>4, <2>5
  <2>7. nx[m] \in before  BY <1>3, <1>14, <2>2, <2>3, <2>6
  <2>. QED  BY <1>3, <2>2, <2>6, <2>7
<1>15. \A i \in S2 : \E e \in S : en2[i] = en[e]  BY <1>5, <1>9
<1>16. \A i \in gone : st2[i] = NULL /\ en2[i] = NULL  BY <1>3, <1>4, <1>7
<1>17. \A i \in Node \ S : st2[i] = st[i] /\ en2[i] = en[i] /\ nx2[i] = nx[i]
  BY <1>4, <1>7
<1>18. nx2 \in [Node -> Node \union {Nil}]  BY <1>4, <1>5, <1>3
<1>19. \A i \in S2 : st2[i] = st[i]  BY <1>9
<1>. QED
  BY <1>7, <1>12, <1>13, <1>14, <1>15, <1>16, <1>17, <1>18, <1>19
  DEF gone, st2, en2, nx2

-----------------------------------------------------------------------------
(* The inductive invariant.                                                *)

Fields(st, en, nx) ==
    /\ st \in [Node -> {NULL} \union Pool]
    /\ en \in [Node -> {NULL} \union PoolStart + 1 .. PoolEnd]
    /\ nx \in [Node -> Node \union {Nil}]

\* F and O are the nodes of two ordered lists; together they are the nodes in
\* use; and no two of their chunks overlap.
Shape(st, en, nx, fh, oh, F, O) ==
    /\ Ordered(nx, st, F, fh)
    /\ Ordered(nx, st, O, oh)
    /\ F \cap O = {}
    /\ F \union O = {i \in Node : st[i] # NULL}
    /\ Apart(st, en, F \union O)

\* The caller's regions are apart from one another and from every free chunk,
\* and an occupied chunk is the end of one of them (the whole of it, unless a
\* prefix was freed and lost for want of a node).
Caller(st, en, hd, F, O) ==
    /\ \A r, q \in hd : r # q => r.hi <= q.lo \/ q.hi <= r.lo
    /\ \A r \in hd : r.lo < r.hi /\ Outside(st, en, F, r.lo, r.hi)
    /\ \A i \in O : \E r \in hd : r.lo <= st[i] /\ en[i] = r.hi

IInv ==
    /\ TypeOK
    /\ \E F, O \in SUBSET Node :
         /\ Shape(start, end, next, free_head, occupied_head, F, O)
         /\ Caller(start, end, held, F, O)

LEMMA FieldsNat ==
    ASSUME NEW st, NEW en, NEW nx, Fields(st, en, nx)
    PROVE  /\ st \in [Node -> Nat] /\ en \in [Node -> Nat]
           /\ \A i \in Node : st[i] < PoolEnd /\ en[i] <= PoolEnd
BY FFAAssumption DEF Fields, Pool, NULL

LEMMA FreeNodeIsUnused ==
    ASSUME NEW st
    PROVE  \/ FindFreeNode(st) = Nil /\ \A i \in Node : st[i] # NULL
           \/ FindFreeNode(st) \in Node /\ st[FindFreeNode(st)] = NULL
<1>1. CASE \E i \in Node : st[i] = NULL
  <2> DEFINE T == {i \in Node : st[i] = NULL}
  <2>1. T \in SUBSET Nat /\ T # {}  BY <1>1, FFAAssumption DEF Node
  <2>2. PICK m \in T : \A j \in T : m <= j
    <3> HIDE DEF T
    <3>. QED  BY <2>1, LeastExists
  <2>3. \A j \in 0 .. m - 1 : st[j] # NULL
    BY <2>2, FFAAssumption DEF Node
  <2>4. \E i \in Node : st[i] = NULL /\ \A j \in 0 .. i - 1 : st[j] # NULL
    BY <2>2, <2>3
  <2>. QED  BY <1>1, <2>4 DEF FindFreeNode
<1>2. CASE ~ \E i \in Node : st[i] = NULL
  BY <1>2 DEF FindFreeNode
<1>. QED  BY <1>1, <1>2

\* Bytes that belong to no chunk become free ones: the two lists keep their
\* shape, the occupied chunks are left alone, and nothing else becomes free.
LEMMA AddFreedKeepsShape ==
    ASSUME NEW st, NEW en, NEW nx, NEW oh, NEW F, NEW O,
           NEW addr \in Pool, NEW size \in Nat \ {0}, addr + size <= PoolEnd,
           Fields(st, en, nx), free_head \in Node \union {Nil},
           Shape(st, en, nx, free_head, oh, F, O),
           Outside(st, en, F \union O, addr, addr + size),
           AddFreedRegionToFreeList(st, en, nx, addr, size)
    PROVE  /\ Fields(start', end', next')
           /\ free_head' \in Node \union {Nil}
           /\ \E F2 \in SUBSET Node :
                /\ Shape(start', end', next', free_head', oh, F2, O)
                /\ \A i \in O : start'[i] = st[i] /\ end'[i] = en[i]
                /\ \A lo, hi \in Nat :
                     /\ lo < hi
                     /\ Outside(st, en, F, lo, hi)
                     /\ hi <= addr \/ addr + size <= lo
                     => Outside(start', end', F2, lo, hi)
                /\ ret' = -1 => F2 = F
           /\ \/ ret' = 0 /\ Freed(addr, size)
              \/ ret' = -1 /\ held' = held /\ start' = st /\ end' = en /\ next' = nx
<1> DEFINE past == addr + size
           hits == {i \in Node : st[i] = past \/ en[i] = addr}
           touch == FirstOn(nx, free_head, hits)
           node == FindFreeNode(st)
           st2 == [st EXCEPT ![node] = addr]
           en2 == [en EXCEPT ![node] = past]
           nx2 == InsertNext(nx, free_head, st, node, addr)
           h2 == InsertHead(nx, free_head, st, node, addr)
<1>1. /\ addr \in Nat /\ past \in Nat /\ addr < past /\ addr # NULL
      /\ addr < PoolEnd /\ past \in PoolStart + 1 .. PoolEnd
  BY FFAAssumption DEF Pool, NULL
<1>2. /\ st \in [Node -> Nat] /\ en \in [Node -> Nat]
      /\ \A i \in Node : st[i] < PoolEnd /\ en[i] <= PoolEnd
  BY FieldsNat
<1>3. F \subseteq Node /\ O \subseteq Node /\ F \cap O = {}
  BY DEF Shape, Ordered
<1>4. \/ touch = Nil
      \/ touch \in F /\ (st[touch] = past \/ en[touch] = addr)
  <2>1. Ordered(nx, st, F, free_head)  BY DEF Shape
  <2>2. \/ touch = Nil
        \/ touch \in F \cap hits
    <3> HIDE DEF hits
    <3>. QED  BY <2>1, OrderedFirstOn
  <2>. QED  BY <2>2
<1>5. \A i \in F \union O : past <= st[i] \/ en[i] <= addr
  BY DEF Outside
<1>6. \A i \in F \union O : st[i] < en[i]  BY DEF Shape, Apart
<1>7. \A i \in F \union O, j \in F \union O : i # j => en[i] <= st[j] \/ en[j] <= st[i]
  BY DEF Shape, Apart
<1>a. CASE touch # Nil /\ ret' = 0
  <2>0. CASE st[touch] = past
    <3>1. /\ start' = [st EXCEPT ![touch] = addr] /\ end' = en /\ next' = nx
          /\ free_head' = free_head /\ Freed(addr, size)
      BY <1>a, <2>0 DEF AddFreedRegionToFreeList
    <3>2. touch \in F  BY <1>4, <1>a
    <3> HIDE DEF touch, past
    <3>3. Fields(start', end', next')  BY <1>3, <3>1, <3>2 DEF Fields
    <3>4. /\ start'[touch] = addr
          /\ \A i \in Node \ {touch} : start'[i] = st[i]
      BY <1>2, <1>3, <3>1, <3>2
    <3>5. \A i \in F : st[i] < st[touch] => en[i] <= addr /\ st[i] < addr
      BY <1>1, <1>2, <1>3, <1>5, <1>6, <2>0
    <3>6. Ordered(next', start', F, free_head')
      <4>1. \A i \in F : start'[i] \in Nat /\ start'[i] < PoolEnd
        BY <1>1, <1>2, <1>3, <3>4
      <4>2. \A i, j \in F : st[i] < st[j] => start'[i] < start'[j]
        BY <1>1, <1>2, <1>3, <2>0, <3>2, <3>4, <3>5
      <4>3. Ordered(nx, st, F, free_head)  BY DEF Shape
      <4>. QED  BY <3>1, <4>1, <4>2, <4>3, OrderedRekey
    <3>7. Ordered(next', start', O, oh)
      <4>1. Ordered(nx, st, O, oh)  BY DEF Shape
      <4>2. \A i \in O : next'[i] = nx[i] /\ start'[i] = st[i]
        BY <1>3, <3>1, <3>2, <3>4
      <4>. QED  BY <4>1, <4>2, OrderedFrame
    <3>8. F \union O = {i \in Node : start'[i] # NULL}
      BY <1>1, <1>3, <3>2, <3>4 DEF Shape
    <3>9. Apart(start', end', F \union O)
      <4>1. \A i \in F \union O : start'[i] < end'[i]
        BY <1>1, <1>2, <1>3, <1>6, <2>0, <3>1, <3>2, <3>4
      <4>2. ASSUME NEW i \in F \union O, i # touch
            PROVE  end'[i] <= start'[touch] \/ end'[touch] <= start'[i]
        BY <1>1, <1>2, <1>3, <1>5, <1>6, <1>7, <2>0, <3>1, <3>2, <3>4, <4>2
      <4>3. ASSUME NEW i \in F \union O, NEW j \in F \union O, i # j,
                   i # touch, j # touch
            PROVE  end'[i] <= start'[j] \/ end'[j] <= start'[i]
        BY <1>3, <1>7, <3>1, <3>4, <4>3
      <4>. QED  BY <4>1, <4>2, <4>3 DEF Apart
    <3>10. Shape(start', end', next', free_head', oh, F, O)
      BY <1>3, <3>6, <3>7, <3>8, <3>9 DEF Shape
    <3>11. \A i \in O : start'[i] = st[i] /\ end'[i] = en[i]
      BY <1>3, <3>1, <3>2, <3>4
    <3>12. ASSUME NEW lo \in Nat, NEW hi \in Nat, lo < hi,
                  Outside(st, en, F, lo, hi), hi <= addr \/ past <= lo
           PROVE  Outside(start', end', F, lo, hi)
      <4>1. SUFFICES ASSUME NEW i \in F  PROVE hi <= start'[i] \/ end'[i] <= lo
        BY DEF Outside
      <4>2. hi <= st[i] \/ en[i] <= lo  BY <3>12 DEF Outside
      <4>3. CASE i = touch
        BY <1>1, <1>2, <1>3, <1>6, <2>0, <3>1, <3>4, <3>12, <4>2, <4>3
      <4>4. CASE i # touch  BY <1>3, <3>1, <3>4, <4>2, <4>4
      <4>. QED  BY <4>3, <4>4
    <3>. QED  BY <1>3, <1>a, <3>1, <3>3, <3>10, <3>11, <3>12 DEF past
  <2>1. CASE st[touch] # past
    <3>1. /\ start' = st /\ end' = [en EXCEPT ![touch] = past] /\ next' = nx
          /\ free_head' = free_head /\ Freed(addr, size)
      BY <1>a, <2>1 DEF AddFreedRegionToFreeList
    <3>2. touch \in F /\ en[touch] = addr  BY <1>4, <1>a, <2>1
    <3> HIDE DEF touch, past
    <3>3. Fields(start', end', next')  BY <1>1, <1>3, <3>1, <3>2 DEF Fields
    <3>4. /\ end'[touch] = past
          /\ \A i \in Node \ {touch} : end'[i] = en[i]
      BY <1>2, <1>3, <3>1, <3>2
    <3>5. Apart(start', end', F \union O)
      <4>1. \A i \in F \union O : start'[i] < end'[i]
        BY <1>1, <1>2, <1>3, <1>6, <3>1, <3>2, <3>4
      <4>2. ASSUME NEW i \in F \union O, i # touch
            PROVE  end'[i] <= start'[touch] \/ end'[touch] <= start'[i]
        BY <1>1, <1>2, <1>3, <1>5, <1>6, <1>7, <3>1, <3>2, <3>4, <4>2
      <4>3. ASSUME NEW i \in F \union O, NEW j \in F \union O, i # j,
                   i # touch, j # touch
            PROVE  end'[i] <= start'[j] \/ end'[j] <= start'[i]
        BY <1>3, <1>7, <3>1, <3>4, <4>3
      <4>. QED  BY <4>1, <4>2, <4>3 DEF Apart
    <3>6. Shape(start', end', next', free_head', oh, F, O)
      BY <3>1, <3>5 DEF Shape
    <3>7. \A i \in O : start'[i] = st[i] /\ end'[i] = en[i]
      BY <1>3, <3>1, <3>2, <3>4
    <3>8. ASSUME NEW lo \in Nat, NEW hi \in Nat, lo < hi,
                 Outside(st, en, F, lo, hi), hi <= addr \/ past <= lo
          PROVE  Outside(start', end', F, lo, hi)
      <4>1. SUFFICES ASSUME NEW i \in F  PROVE hi <= start'[i] \/ end'[i] <= lo
        BY DEF Outside
      <4>2. hi <= st[i] \/ en[i] <= lo  BY <3>8 DEF Outside
      <4>3. CASE i = touch
        BY <1>1, <1>2, <1>3, <1>6, <3>1, <3>2, <3>4, <3>8, <4>2, <4>3
      <4>4. CASE i # touch  BY <1>3, <3>1, <3>4, <4>2, <4>4
      <4>. QED  BY <4>3, <4>4
    <3>. QED  BY <1>3, <1>a, <3>1, <3>3, <3>6, <3>7, <3>8 DEF past
  <2>. QED  BY <2>0, <2>1
<1>b. CASE touch = Nil /\ ret' = -1
  <2>1. /\ start' = st /\ end' = en /\ next' = nx /\ held' = held
        /\ free_head' = free_head
    BY <1>b DEF AddFreedRegionToFreeList
  <2>. QED  BY <1>3, <1>b, <2>1
<1>c. CASE touch = Nil /\ ret' = 0
  <2> DEFINE F1 == F \union {node}
             gone == Absorbed(st2, en2, nx2, h2)
  <2>1. /\ start' = CombinedStart(st2, en2, nx2, h2)
        /\ end' = CombinedEnd(st2, en2, nx2, h2)
        /\ next' = CombinedNext(st2, en2, nx2, h2)
        /\ free_head' = h2 /\ Freed(addr, size) /\ node # Nil
    BY <1>c DEF AddFreedRegionToFreeList
  <2>2. node \in Node /\ st[node] = NULL /\ node \notin F \union O
    BY <2>1, FreeNodeIsUnused DEF Shape
  <2> HIDE DEF touch, past, node, hits
  <2>3. /\ st2 \in [Node -> Nat] /\ en2 \in [Node -> Nat]
        /\ st2[node] = addr /\ en2[node] = past
        /\ \A i \in Node \ {node} : st2[i] = st[i] /\ en2[i] = en[i]
    BY <1>1, <1>2, <2>2
  <2>4. \A i \in F : st[i] # addr /\ st2[i] = st[i]
    BY <1>1, <1>2, <1>3, <1>5, <1>6, <2>2, <2>3
  <2>5. /\ Ordered(nx2, st2, F1, h2)
        /\ nx2 \in [Node -> Node \union {Nil}]
        /\ \A j \in Node \ F1 : nx2[j] = nx[j]
    <3>1. Ordered(nx, st, F, free_head) /\ nx \in [Node -> Node \union {Nil}]
      BY DEF Shape, Fields
    <3>2. node \in Node \ F /\ addr \in Nat /\ addr < PoolEnd /\ st2[node] = addr
      BY <1>1, <2>2, <2>3
    <3> HIDE DEF st2
    <3>. QED  BY <2>4, <3>1, <3>2, OrderedInsert
  <2> HIDE DEF st2, en2, nx2, h2
  <2>6. Apart(st2, en2, F1)
    <3>1. \A i \in F1 : st2[i] < en2[i]
      BY <1>1, <1>3, <1>6, <2>2, <2>3
    <3>2. \A i, j \in F1 : i # j => en2[i] <= st2[j] \/ en2[j] <= st2[i]
      BY <1>3, <1>5, <1>7, <2>2, <2>3
    <3>. QED  BY <3>1, <3>2 DEF Apart
  <2>7. /\ gone \subseteq F1
        /\ Ordered(next', start', F1 \ gone, h2)
        /\ Apart(start', end', F1 \ gone)
        /\ \A i \in F1 \ gone : \E e \in F1 : end'[i] = en2[e]
        /\ \A i \in F1 \ gone : start'[i] = st2[i]
        /\ \A i \in gone : start'[i] = NULL /\ end'[i] = NULL
        /\ \A i \in Node \ F1 : /\ start'[i] = st2[i] /\ end'[i] = en2[i]
                                /\ next'[i] = nx2[i]
        /\ next' \in [Node -> Node \union {Nil}]
        /\ \A lo, hi \in Nat : lo < hi /\ Outside(st2, en2, F1, lo, hi)
                                 => Outside(start', end', F1 \ gone, lo, hi)
    <3> DEFINE cs == CombinedStart(st2, en2, nx2, h2)
               ce == CombinedEnd(st2, en2, nx2, h2)
               cn == CombinedNext(st2, en2, nx2, h2)
    <3>1. F1 # {}  OBVIOUS
    <3>2. /\ gone \subseteq F1
          /\ Ordered(cn, cs, F1 \ gone, h2)
          /\ Apart(cs, ce, F1 \ gone)
          /\ \A i \in F1 \ gone : \E e \in F1 : ce[i] = en2[e]
          /\ \A i \in F1 \ gone : cs[i] = st2[i]
          /\ \A i \in gone : cs[i] = NULL /\ ce[i] = NULL
          /\ \A i \in Node \ F1 : cs[i] = st2[i] /\ ce[i] = en2[i] /\ cn[i] = nx2[i]
          /\ cn \in [Node -> Node \union {Nil}]
          /\ \A lo, hi \in Nat : lo < hi /\ Outside(st2, en2, F1, lo, hi)
                                   => Outside(cs, ce, F1 \ gone, lo, hi)
      <4> HIDE DEF F1
      <4>. QED  BY <2>3, <2>5, <2>6, <3>1, Combined
    <3> HIDE DEF cs, ce, cn, gone, F1
    <3>3. start' = cs /\ end' = ce /\ next' = cn  BY <2>1 DEF cs, ce, cn
    <3>. QED  BY <3>2, <3>3
  <2> DEFINE F2 == F1 \ gone
  <2> HIDE DEF gone
  <2>8. F1 \subseteq Node /\ O \subseteq Node \ F1  BY <1>3, <2>2
  <2>9. \A i \in O : start'[i] = st[i] /\ end'[i] = en[i] /\ next'[i] = nx[i]
    BY <2>2, <2>3, <2>5, <2>7, <2>8
  <2>10. Fields(start', end', next')
    <3>1. start' = [i \in Node |-> start'[i]] /\ end' = [i \in Node |-> end'[i]]
      BY <2>1 DEF CombinedStart, CombinedEnd
    <3>2. \A i \in Node : st2[i] \in {NULL} \union Pool
      BY <2>2, <2>3 DEF Fields
    <3>3. \A i \in Node : en2[i] \in {NULL} \union PoolStart + 1 .. PoolEnd
      BY <1>1, <2>2, <2>3 DEF Fields
    <3>4. \A i \in Node : start'[i] \in {NULL} \union Pool
      BY <2>7, <3>2
    <3>5. \A i \in Node : end'[i] \in {NULL} \union PoolStart + 1 .. PoolEnd
      <4>1. TAKE i \in Node
      <4>2. CASE i \in F1 \ gone  BY <2>7, <2>8, <3>3, <4>2
      <4>3. CASE i \in gone  BY <2>7, <4>3
      <4>4. CASE i \in Node \ F1  BY <2>7, <3>3, <4>4
      <4>. QED  BY <4>2, <4>3, <4>4
    <3>. QED  BY <2>7, <3>1, <3>4, <3>5 DEF Fields
  <2>11. Ordered(next', start', O, oh)
    BY <2>9, OrderedFrame DEF Shape
  <2>12. F2 \union O = {i \in Node : start'[i] # NULL}
    <3>1. \A i \in F1 : st2[i] # NULL
      BY <1>1, <1>3, <2>2, <2>3 DEF Shape
    <3>2. \A i \in Node \ F1 : st2[i] # NULL <=> i \in O
      BY <1>3, <2>2, <2>3, <2>8 DEF Shape
    <3>. QED  BY <2>7, <2>8, <3>1, <3>2
  <2>13. \A lo, hi \in Nat :
           /\ lo < hi
           /\ Outside(st, en, F, lo, hi)
           /\ hi <= addr \/ past <= lo
           => Outside(start', end', F2, lo, hi)
    <3>1. TAKE lo, hi \in Nat
    <3>2. HAVE lo < hi /\ Outside(st, en, F, lo, hi) /\ (hi <= addr \/ past <= lo)
    <3>3. Outside(st2, en2, F1, lo, hi)
      BY <1>3, <2>2, <2>3, <3>2 DEF Outside
    <3>. QED  BY <2>7, <3>2, <3>3
  <2>14. Apart(start', end', F2 \union O)
    <3>1. \A i \in O : start'[i] < end'[i]  BY <1>6, <2>9
    <3>2. \A i, j \in O : i # j => end'[i] <= start'[j] \/ end'[j] <= start'[i]
      BY <1>7, <2>9
    <3>3. ASSUME NEW i \in F2, NEW j \in O
          PROVE  end'[i] <= start'[j] \/ end'[j] <= start'[i]
      <4>1. Outside(st, en, F, st[j], en[j])
        BY <1>2, <1>3, <1>7 DEF Outside
      <4>2. en[j] <= addr \/ past <= st[j]  BY <1>5
      <4>3. st[j] \in Nat /\ en[j] \in Nat /\ st[j] < en[j]
        BY <1>2, <1>3, <1>6
      <4>4. Outside(start', end', F2, st[j], en[j])
        BY <2>13, <4>1, <4>2, <4>3
      <4>. QED  BY <2>9, <4>4 DEF Outside
    <3>. QED  BY <2>7, <3>1, <3>2, <3>3 DEF Apart
  <2>15. Shape(start', end', next', free_head', oh, F2, O)
    BY <2>1, <2>7, <2>8, <2>11, <2>12, <2>14 DEF Shape
  <2>16. h2 \in Node \union {Nil}
    BY <2>5, <2>8 DEF Ordered
  <2>17. F2 \in SUBSET Node  BY <2>8
  <2>. QED  BY <1>c, <2>1, <2>9, <2>10, <2>13, <2>15, <2>16, <2>17 DEF past
<1>. QED  BY <1>a, <1>b, <1>c DEF AddFreedRegionToFreeList

-----------------------------------------------------------------------------
(* Every step keeps the invariant: one lemma for each case of a call.      *)

Lists(F, O) ==
    /\ F \in SUBSET Node
    /\ O \in SUBSET Node
    /\ Shape(start, end, next, free_head, occupied_head, F, O)
    /\ Caller(start, end, held, F, O)

LEMMA InitInv == Init => IInv
<1>1. SUFFICES ASSUME Init  PROVE IInv  OBVIOUS
<1>2. 0 \in Node /\ Node \subseteq Nat  BY FFAAssumption DEF Node
<1>3. TypeOK
  BY <1>1, <1>2, FFAAssumption DEF Init, TypeOK, Pool, Nil, NULL
<1>4. Shape(start, end, next, free_head, occupied_head, {0}, {})
  <2>1. Ordered(next, start, {0}, free_head)
    BY <1>1, <1>2, FFAAssumption DEF Init, Ordered, Nil
  <2>2. Ordered(next, start, {}, occupied_head)
    BY <1>1 DEF Init, Ordered
  <2>3. {0} \union {} = {i \in Node : start[i] # NULL}
    BY <1>1, <1>2, FFAAssumption DEF Init, NULL
  <2>4. Apart(start, end, {0} \union {})
    BY <1>1, <1>2, FFAAssumption DEF Init, Apart
  <2>. QED  BY <2>1, <2>2, <2>3, <2>4 DEF Shape
<1>5. Caller(start, end, held, {0}, {})
  BY <1>1 DEF Init, Caller
<1>. QED  BY <1>2, <1>3, <1>4, <1>5 DEF IInv

\* The chunk Allocate settles on is the lowest free one that is large enough.
LEMMA FirstFitIs ==
    ASSUME NEW F, NEW O, Lists(F, O), NEW size \in Nat
    PROVE  LET i == FirstFit(size)
           IN  \/ i = Nil
               \/ /\ i \in F
                  /\ SizeOf(i) >= size
                  /\ \A j \in F : SizeOf(j) >= size => start[i] <= start[j]
<1> DEFINE hits == {i \in Node : SizeOf(i) >= size}
           i == FirstFit(size)
<1>1. Ordered(next, start, F, free_head) /\ F \subseteq Node
  BY DEF Lists, Shape
<1>2. i = FirstOn(next, free_head, hits)  BY DEF FirstFit
<1>3. \/ i = Nil
      \/ i \in F \cap hits /\ \A j \in F \cap hits : start[i] <= start[j]
  <2> HIDE DEF hits, i
  <2>. QED  BY <1>1, <1>2, OrderedFirstOn
<1>. QED  BY <1>1, <1>3

\* What FindOccupiedMemoryRegionNode finds holds the address, and it finds a
\* chunk that begins there.
LEMMA FoundOccupied ==
    ASSUME NEW F, NEW O, Lists(F, O), NEW addr
    PROVE  LET i == FindOccupiedMemoryRegionNode(addr)
           IN  \/ i = Nil /\ \A j \in O : start[j] # addr
               \/ i \in O /\ (start[i] = addr \/ addr \in Bytes(start[i], end[i]))
<1> DEFINE hits == {i \in Node : start[i] = addr \/ addr \in Bytes(start[i], end[i])}
           i == FindOccupiedMemoryRegionNode(addr)
<1>1. Ordered(next, start, O, occupied_head) /\ O \subseteq Node
  BY DEF Lists, Shape
<1>2. i = FirstOn(next, occupied_head, hits)  BY DEF FindOccupiedMemoryRegionNode
<1>3. (i = Nil /\ O \cap hits = {}) \/ i \in O \cap hits
  <2> HIDE DEF hits, i
  <2>. QED  BY <1>1, <1>2, OrderedFirstOn
<1>. QED  BY <1>1, <1>3

LEMMA ExactFitKeeps ==
    ASSUME TypeOK, NEW F, NEW O, Lists(F, O), NEW size \in Nat,
           MoveNodeFromFreeListToOccupied(size)
    PROVE  IInv'
<1> DEFINE i == FirstFit(size)
           nx == UnlinkNext(next, free_head, i)
           r == [lo |-> start[i], hi |-> start[i] + size]
<1>1. /\ size # 0 /\ i # Nil /\ SizeOf(i) = size
      /\ next' = InsertNext(nx, occupied_head, start, i, start[i])
      /\ free_head' = UnlinkHead(next, free_head, i)
      /\ occupied_head' = InsertHead(nx, occupied_head, start, i, start[i])
      /\ start' = start /\ end' = end
      /\ held' = held \union {r} /\ ret' = start[i]
  BY DEF MoveNodeFromFreeListToOccupied, Granted
<1>2. i \in F  BY <1>1, FirstFitIs
<1> HIDE DEF i
<1>3. /\ Ordered(next, start, F, free_head)
      /\ Ordered(next, start, O, occupied_head)
      /\ F \cap O = {} /\ F \subseteq Node /\ O \subseteq Node
      /\ F \union O = {j \in Node : start[j] # NULL}
      /\ Apart(start, end, F \union O)
  BY DEF Lists, Shape
<1>4. /\ start \in [Node -> Nat] /\ end \in [Node -> Nat]
      /\ \A j \in Node : start[j] < PoolEnd /\ end[j] <= PoolEnd
  BY FieldsNat DEF TypeOK, Fields
<1>5. end[i] = start[i] + size  BY <1>1, <1>2, <1>3, <1>4 DEF SizeOf
<1>6. /\ Ordered(nx, start, F \ {i}, free_head')
      /\ nx \in [Node -> Node \union {Nil}]
      /\ \A j \in Node \ F : nx[j] = next[j]
      /\ free_head' \in Node \union {Nil}
  BY <1>1, <1>2, <1>3, OrderedUnlink DEF TypeOK
<1> HIDE DEF nx
<1>7. Ordered(nx, start, O, occupied_head)
  <2>1. \A j \in O : nx[j] = next[j]  BY <1>3, <1>6
  <2>. QED  BY <1>3, <2>1, OrderedFrame
<1>8. \A j \in (F \union O) \ {i} : end[j] <= start[i] \/ end[i] <= start[j]
  BY <1>2, <1>3 DEF Apart
<1>9. \A j \in F \union O : start[j] < end[j]  BY <1>3 DEF Apart
<1>10. /\ Ordered(next', start, O \union {i}, occupied_head')
       /\ next' \in [Node -> Node \union {Nil}]
       /\ \A j \in Node \ (O \union {i}) : next'[j] = nx[j]
  <2>1. i \in Node \ O /\ start[i] \in Nat /\ start[i] < PoolEnd
    BY <1>2, <1>3, <1>4
  <2>2. \A j \in O : start[j] # start[i]
    BY <1>2, <1>3, <1>4, <1>8, <1>9
  <2> DEFINE ins == InsertNext(nx, occupied_head, start, i, start[i])
             hd == InsertHead(nx, occupied_head, start, i, start[i])
  <2>3. /\ Ordered(ins, start, O \union {i}, hd)
        /\ ins \in [Node -> Node \union {Nil}]
        /\ \A j \in Node \ (O \union {i}) : ins[j] = nx[j]
    <3> DEFINE key == start[i]
    <3>1. \A j \in O : start[j] # key /\ start[j] = start[j]  BY <2>2
    <3>2. /\ nx \in [Node -> Node \union {Nil}]
          /\ i \in Node \ O /\ key \in Nat /\ key < PoolEnd /\ start[i] = key
      BY <1>6, <2>1
    <3> HIDE DEF key
    <3>3. Ordered(InsertNext(nx, occupied_head, start, i, key), start, O \union {i},
                  InsertHead(nx, occupied_head, start, i, key))
      BY <1>7, <3>1, <3>2, OrderedInsert
    <3>4. /\ InsertNext(nx, occupied_head, start, i, key) \in [Node -> Node \union {Nil}]
          /\ \A j \in Node \ (O \union {i}) :
               InsertNext(nx, occupied_head, start, i, key)[j] = nx[j]
      BY <1>7, <3>1, <3>2, InsertFrame
    <3>. QED  BY <3>3, <3>4 DEF key
  <2>. QED  BY <1>1, <2>3
<1>11. Ordered(next', start, F \ {i}, free_head')
  <2>1. \A j \in F \ {i} : next'[j] = nx[j]  BY <1>3, <1>10
  <2>. QED  BY <1>6, <2>1, OrderedFrame
<1>12. Shape(start, end, next', free_head', occupied_head', F \ {i}, O \union {i})
  <2>1. (F \ {i}) \union (O \union {i}) = F \union O  BY <1>2
  <2>. QED  BY <1>2, <1>3, <1>10, <1>11, <2>1 DEF Shape
<1>13. Caller(start, end, held', F \ {i}, O \union {i})
  <2>1. Caller(start, end, held, F, O)  BY DEF Lists
  <2>2. \A q \in held : /\ q.lo < q.hi /\ Outside(start, end, F \ {i}, q.lo, q.hi)
                        /\ end[i] <= q.lo \/ q.hi <= start[i]
    BY <1>2, <2>1 DEF Caller, Outside
  <2>3. r.lo < r.hi /\ Outside(start, end, F \ {i}, r.lo, r.hi)
    BY <1>2, <1>5, <1>8, <1>9 DEF Outside
  <2>4. \A q, p \in held' : q # p => q.hi <= p.lo \/ p.hi <= q.lo
    BY <1>1, <1>5, <2>1, <2>2 DEF Caller
  <2>5. \A j \in O \union {i} : \E q \in held' : q.lo <= start[j] /\ end[j] = q.hi
    <3>1. r \in held' /\ r.lo <= start[i] /\ end[i] = r.hi
      BY <1>1, <1>2, <1>3, <1>4, <1>5
    <3>. QED  BY <1>1, <2>1, <3>1 DEF Caller
  <2>. QED  BY <1>1, <2>2, <2>3, <2>4, <2>5 DEF Caller
<1>14. TypeOK'
  <2>1. start[i] \in Pool /\ end[i] \in PoolStart + 1 .. PoolEnd
    <3>1. start[i] # NULL /\ start[i] < end[i] /\ i \in Node  BY <1>2, <1>3, <1>9
    <3>. QED  BY <1>4, <3>1 DEF TypeOK, NULL
  <2>2. r \in Region  BY <1>5, <2>1 DEF Region
  <2>3. occupied_head' \in Node \union {Nil}
    BY <1>2, <1>3, <1>10 DEF Ordered
  <2>. QED  BY <1>1, <1>6, <1>10, <2>1, <2>2, <2>3 DEF TypeOK
<1>15. F \ {i} \in SUBSET Node /\ O \union {i} \in SUBSET Node  BY <1>2, <1>3
<1>. QED  BY <1>1, <1>12, <1>13, <1>14, <1>15 DEF IInv

LEMMA SplitKeeps ==
    ASSUME TypeOK, NEW F, NEW O, Lists(F, O), NEW size \in Nat,
           AllocateMemoryRegionNode(size)
    PROVE  IInv'
<1> DEFINE i == FirstFit(size)
           node == FindFreeNode(start)
           addr == start[i]
           r == [lo |-> addr, hi |-> addr + size]
<1>1. /\ size # 0 /\ i # Nil /\ SizeOf(i) # size /\ node # Nil
      /\ start' = [start EXCEPT ![node] = addr, ![i] = addr + size]
      /\ end' = [end EXCEPT ![node] = addr + size]
      /\ next' = InsertNext(next, occupied_head, start, node, addr)
      /\ occupied_head' = InsertHead(next, occupied_head, start, node, addr)
      /\ free_head' = free_head
      /\ held' = held \union {r} /\ ret' = addr
  BY DEF AllocateMemoryRegionNode, Granted
<1>2. i \in F /\ SizeOf(i) >= size  BY <1>1, FirstFitIs
<1>3. node \in Node /\ start[node] = NULL  BY <1>1, FreeNodeIsUnused
<1> HIDE DEF i, node
<1>4. /\ Ordered(next, start, F, free_head)
      /\ Ordered(next, start, O, occupied_head)
      /\ F \cap O = {} /\ F \subseteq Node /\ O \subseteq Node
      /\ F \union O = {j \in Node : start[j] # NULL}
      /\ Apart(start, end, F \union O)
  BY DEF Lists, Shape
<1>5. /\ start \in [Node -> Nat] /\ end \in [Node -> Nat]
      /\ \A j \in Node : start[j] < PoolEnd /\ end[j] <= PoolEnd
  BY FieldsNat DEF TypeOK, Fields
<1>6. /\ node \notin F \union O /\ node # i /\ i \in Node
      /\ addr \in Nat /\ addr # NULL /\ addr + size < end[i] /\ addr < addr + size
  BY <1>1, <1>2, <1>3, <1>4, <1>5 DEF SizeOf
<1>7. \A j \in (F \union O) \ {i} : end[j] <= addr \/ end[i] <= start[j]
  BY <1>2, <1>4 DEF Apart
<1>8. \A j \in F \union O : start[j] < end[j]  BY <1>4 DEF Apart
<1>9. /\ start'[node] = addr /\ start'[i] = addr + size
      /\ \A j \in Node \ {i, node} : start'[j] = start[j]
      /\ end'[node] = addr + size
      /\ \A j \in Node \ {node} : end'[j] = end[j]
  BY <1>1, <1>3, <1>5, <1>6
<1> HIDE DEF addr
<1>10. /\ Ordered(next', start', O \union {node}, occupied_head')
       /\ next' \in [Node -> Node \union {Nil}]
       /\ \A j \in Node \ (O \union {node}) : next'[j] = next[j]
  <2>1. \A j \in O : start[j] # addr /\ start'[j] = start[j]
    BY <1>2, <1>4, <1>5, <1>6, <1>7, <1>8, <1>9
  <2>2. addr < PoolEnd  BY <1>5, <1>6, FFAAssumption
  <2>3. next \in [Node -> Node \union {Nil}]  BY DEF TypeOK
  <2>4. node \in Node \ O /\ start'[node] = addr  BY <1>3, <1>6, <1>9
  <2> DEFINE st2 == start'
  <2>5. st2[node] = addr /\ \A j \in O : st2[j] = start[j]  BY <2>1, <2>4
  <2> HIDE DEF st2
  <2> DEFINE ins == InsertNext(next, occupied_head, start, node, addr)
             hd == InsertHead(next, occupied_head, start, node, addr)
  <2>6. /\ Ordered(ins, st2, O \union {node}, hd)
        /\ ins \in [Node -> Node \union {Nil}]
        /\ \A j \in Node \ (O \union {node}) : ins[j] = next[j]
    <3>1. addr \in Nat /\ Ordered(next, start, O, occupied_head)  BY <1>4, <1>6
    <3>2. \A j \in O : start[j] # addr /\ st2[j] = start[j]  BY <2>1, <2>5
    <3>3. Ordered(ins, st2, O \union {node}, hd)
      BY <2>2, <2>3, <2>4, <2>5, <3>1, <3>2, OrderedInsert
    <3>4. /\ ins \in [Node -> Node \union {Nil}]
          /\ \A j \in Node \ (O \union {node}) : ins[j] = next[j]
      BY <2>2, <2>3, <2>4, <3>1, <3>2, InsertFrame
    <3>. QED  BY <3>3, <3>4
  <2>. QED  BY <1>1, <2>6 DEF st2, addr
<1>11. Ordered(next', start', F, free_head')
  <2>1. Ordered(next', start, F, free_head)
    <3>1. \A j \in F : next'[j] = next[j]  BY <1>4, <1>6, <1>10
    <3>. QED  BY <1>4, <3>1, OrderedFrame
  <2>2. \A j \in F : start'[j] \in Nat /\ start'[j] < PoolEnd
    BY <1>2, <1>4, <1>5, <1>6, <1>9, FFAAssumption
  <2>3. \A j, k \in F : start[j] < start[k] => start'[j] < start'[k]
    <3>1. TAKE j, k \in F
    <3>2. HAVE start[j] < start[k]
    <3>3. CASE j = i
      BY <1>4, <1>5, <1>6, <1>7, <1>8, <1>9, <3>2, <3>3 DEF addr
    <3>4. CASE k = i
      BY <1>4, <1>5, <1>6, <1>9, <3>2, <3>4 DEF addr
    <3>5. CASE j # i /\ k # i  BY <1>4, <1>6, <1>9, <3>2, <3>5
    <3>. QED  BY <3>3, <3>4, <3>5
  <2>. QED  BY <1>1, <2>1, <2>2, <2>3, OrderedRekey
<1>12. Shape(start', end', next', free_head', occupied_head', F, O \union {node})
  <2>1. F \union (O \union {node}) = {j \in Node : start'[j] # NULL}
    BY <1>2, <1>3, <1>4, <1>5, <1>6, <1>9 DEF NULL
  <2>2. \A j \in F \union (O \union {node}) : start'[j] < end'[j]
    BY <1>2, <1>4, <1>6, <1>8, <1>9
  <2>3. ASSUME NEW j \in F \union O, NEW k \in F \union O, j # k
        PROVE  end'[j] <= start'[k] \/ end'[k] <= start'[j]
    BY <1>2, <1>4, <1>5, <1>6, <1>9, <2>3 DEF Apart, addr
  <2>4. ASSUME NEW j \in F \union O
        PROVE  end'[j] <= start'[node] \/ end'[node] <= start'[j]
    BY <1>2, <1>4, <1>5, <1>6, <1>7, <1>9, <2>4
  <2>5. Apart(start', end', F \union (O \union {node}))
    BY <2>2, <2>3, <2>4 DEF Apart
  <2>. QED  BY <1>4, <1>6, <1>10, <1>11, <2>1, <2>5 DEF Shape
<1>13. Caller(start', end', held', F, O \union {node})
  <2>1. Caller(start, end, held, F, O)  BY DEF Lists
  <2>2. \A q \in held : q.lo \in Nat /\ q.hi \in Nat
    BY FFAAssumption DEF TypeOK, Region, Pool
  <2>3. ASSUME NEW q \in held
        PROVE  /\ q.lo < q.hi
               /\ Outside(start', end', F, q.lo, q.hi)
               /\ r.hi <= q.lo \/ q.hi <= r.lo
    <3>1. q.lo < q.hi /\ Outside(start, end, F, q.lo, q.hi)  BY <2>1 DEF Caller
    <3>2. q.hi <= addr \/ end[i] <= q.lo  BY <1>2, <3>1 DEF Outside, addr
    <3>3. Outside(start', end', F, q.lo, q.hi)
      BY <1>4, <1>5, <1>6, <1>9, <2>2, <3>1, <3>2 DEF Outside
    <3>. QED  BY <1>5, <1>6, <2>2, <3>1, <3>2, <3>3
  <2>4. r.lo < r.hi /\ Outside(start', end', F, r.lo, r.hi)
    BY <1>2, <1>4, <1>5, <1>6, <1>7, <1>9 DEF Outside
  <2>5. \A q, p \in held' : q # p => q.hi <= p.lo \/ p.hi <= q.lo
    BY <1>1, <2>1, <2>3 DEF Caller, addr
  <2>6. \A j \in O \union {node} : \E q \in held' : q.lo <= start'[j] /\ end'[j] = q.hi
    <3>1. r \in held' /\ r.lo <= start'[node] /\ end'[node] = r.hi
      BY <1>1, <1>6, <1>9 DEF addr
    <3>2. \A j \in O : start'[j] = start[j] /\ end'[j] = end[j]
      BY <1>2, <1>4, <1>6, <1>9
    <3>. QED  BY <1>1, <2>1, <3>1, <3>2 DEF Caller, addr
  <2>7. held' = held \union {r}  BY <1>1 DEF addr
  <2>. QED  BY <2>3, <2>4, <2>5, <2>6, <2>7 DEF Caller
<1>14. TypeOK'
  <2>1. addr \in Pool /\ addr + size \in Pool /\ addr + size \in PoolStart + 1 .. PoolEnd
    BY <1>5, <1>6, FFAAssumption DEF TypeOK, Pool, addr, NULL
  <2>2. r \in Region  BY <2>1 DEF Region
  <2>3. occupied_head' \in Node \union {Nil}
    BY <1>3, <1>4, <1>10 DEF Ordered
  <2>4. /\ start' \in [Node -> {NULL} \union Pool]
        /\ end' \in [Node -> {NULL} \union PoolStart + 1 .. PoolEnd]
    BY <1>1, <2>1 DEF TypeOK, addr
  <2>. QED  BY <1>1, <1>10, <2>1, <2>2, <2>3, <2>4 DEF TypeOK, addr
<1>15. F \in SUBSET Node /\ O \union {node} \in SUBSET Node  BY <1>3, <1>4
<1>. QED  BY <1>12, <1>13, <1>14, <1>15 DEF IInv

\* A call that leaves the array alone keeps the invariant.
LEMMA RefusalKeeps ==
    ASSUME TypeOK, NEW F, NEW O, Lists(F, O),
           UNCHANGED <<lists, held>>, ret' \in {-2, -1, 0}
    PROVE  IInv'
<1>1. /\ start' = start /\ end' = end /\ next' = next /\ held' = held
      /\ free_head' = free_head /\ occupied_head' = occupied_head
  BY DEF lists
<1>2. TypeOK'  BY <1>1 DEF TypeOK
<1>. QED  BY <1>1, <1>2 DEF IInv, Lists

\* A region the caller is allowed to free begins where its chunk begins.
LEMMA CallerFreesFromStart ==
    ASSUME TypeOK, NEW F, NEW O, Lists(F, O), NEW addr \in Pool, NEW size \in Nat,
           MayFree(addr, size),
           FindOccupiedMemoryRegionNode(addr) # Nil
    PROVE  LET node == FindOccupiedMemoryRegionNode(addr)
           IN  /\ node \in O
               /\ start[node] = addr
               /\ \E r \in held : /\ r.lo = addr /\ r.hi = end[node]
                                  /\ \A q \in held : q.lo = addr => q = r
               /\ SizeOf(node) > size => PartialFrees
               /\ size # 0
<1> DEFINE node == FindOccupiedMemoryRegionNode(addr)
<1>1. node \in O /\ (start[node] = addr \/ addr \in Bytes(start[node], end[node]))
  BY FoundOccupied
<1> HIDE DEF node
<1>2. /\ start[node] \in Nat /\ end[node] \in Nat /\ addr \in Nat
      /\ start[node] < end[node]
  <2>1. start \in [Node -> Nat] /\ end \in [Node -> Nat]
    BY FieldsNat DEF TypeOK, Fields
  <2>. QED  BY <1>1, <2>1, FFAAssumption DEF Lists, Shape, Apart, Pool
<1>3. start[node] <= addr /\ addr < end[node]  BY <1>1, <1>2 DEF Bytes
<1>4. PICK r \in held : r.lo <= start[node] /\ end[node] = r.hi
  BY <1>1 DEF Lists, Caller
<1>5. \A q \in held : q.lo \in Nat /\ q.hi \in Nat /\ q.lo < q.hi
  BY FFAAssumption DEF TypeOK, Region, Pool, Lists, Caller
<1>6. addr \in Bytes(r.lo, r.hi)  BY <1>2, <1>3, <1>4, <1>5 DEF Bytes
<1>7. \A q \in held : q.lo = addr => q = r
  <2>1. \A q \in held : q # r => q.hi <= r.lo \/ r.hi <= q.lo
    BY <1>4 DEF Lists, Caller
  <2>. QED  BY <1>2, <1>3, <1>4, <1>5, <2>1
<1>8. PICK q \in held : q.lo = addr /\ (q.hi - addr > size => PartialFrees)
  BY <1>4, <1>6 DEF MayFree
<1>9. q = r  BY <1>7, <1>8
<1>10. start[node] = addr  BY <1>2, <1>3, <1>4, <1>8, <1>9
<1>11. SizeOf(node) > size => PartialFrees
  BY <1>4, <1>8, <1>9, <1>10 DEF SizeOf
<1>12. size # 0  BY DEF MayFree
<1>. QED  BY <1>1, <1>4, <1>7, <1>8, <1>9, <1>10, <1>11, <1>12 DEF node

\* Freeing takes the freed bytes from the region they belong to, and nothing
\* else; so the other regions of the caller are undisturbed.
LEMMA FreedIs ==
    ASSUME NEW addr, NEW size, NEW r \in held, r.lo = addr,
           \A q \in held : q.lo = addr => q = r,
           Freed(addr, size)
    PROVE  held' = (held \ {r}) \union
                   (IF r.hi = addr + size THEN {}
                    ELSE {[lo |-> addr + size, hi |-> r.hi]})
<1>1. {q \in held : q.lo # addr} = held \ {r}  OBVIOUS
<1>2. {q \in held : q.lo = addr /\ q.hi # addr + size}
        = IF r.hi = addr + size THEN {} ELSE {r}
  OBVIOUS
<1>. QED  BY <1>1, <1>2 DEF Freed

LEMMA FreeWholeKeeps ==
    ASSUME TypeOK, NEW F, NEW O, Lists(F, O), NEW addr \in Pool, NEW size \in Nat,
           MayFree(addr, size),
           FreeOccupiedRegionNode(FindOccupiedMemoryRegionNode(addr), addr, size)
    PROVE  /\ IInv'
           /\ ret' = 0
           /\ \E r \in held : /\ r.lo = addr /\ r.hi = addr + size
                             /\ held' = held \ {r}
                             /\ \A q \in held : q.lo = addr => q = r
           /\ \A j \in O : start[j] # addr => start'[j] = start[j] /\ end'[j] = end[j]
<1> DEFINE node == FindOccupiedMemoryRegionNode(addr)
           st == [start EXCEPT ![node] = NULL]
           en == [end EXCEPT ![node] = NULL]
           nx == UnlinkNext(next, occupied_head, node)
           O1 == O \ {node}
           past == addr + size
<1>1. /\ node # Nil /\ SizeOf(node) = size
      /\ occupied_head' = UnlinkHead(next, occupied_head, node)
      /\ AddFreedRegionToFreeList(st, en, nx, addr, size)
  BY DEF FreeOccupiedRegionNode
<1>2. /\ node \in O /\ start[node] = addr /\ size # 0
      /\ \E r \in held : /\ r.lo = addr /\ r.hi = end[node]
                         /\ \A q \in held : q.lo = addr => q = r
  BY <1>1, CallerFreesFromStart
<1> HIDE DEF node
<1>3. PICK r \in held : /\ r.lo = addr /\ r.hi = end[node]
                        /\ \A q \in held : q.lo = addr => q = r
  BY <1>2
<1>4. /\ Ordered(next, start, F, free_head)
      /\ Ordered(next, start, O, occupied_head)
      /\ F \cap O = {} /\ F \subseteq Node /\ O \subseteq Node
      /\ F \union O = {j \in Node : start[j] # NULL}
      /\ Apart(start, end, F \union O)
      /\ Caller(start, end, held, F, O)
  BY DEF Lists, Shape
<1>5. /\ start \in [Node -> Nat] /\ end \in [Node -> Nat]
      /\ \A j \in Node : start[j] < PoolEnd /\ end[j] <= PoolEnd
  BY FieldsNat DEF TypeOK, Fields
<1>6. past = end[node] /\ node \in Node /\ node \notin F /\ size \in Nat \ {0}
  BY <1>1, <1>2, <1>4, <1>5 DEF SizeOf
<1>7. \A j \in (F \union O) \ {node} : end[j] <= addr \/ past <= start[j]
  BY <1>2, <1>4, <1>6 DEF Apart
<1>8. /\ \A j \in Node \ {node} : st[j] = start[j] /\ en[j] = end[j]
      /\ st[node] = NULL /\ en[node] = NULL
  BY <1>5, <1>6
<1>9. /\ Ordered(nx, start, O1, occupied_head')
      /\ nx \in [Node -> Node \union {Nil}]
      /\ \A j \in Node \ O : nx[j] = next[j]
      /\ occupied_head' \in Node \union {Nil}
  <2>1. node \in O /\ next \in [Node -> Node \union {Nil}]
    BY <1>2 DEF TypeOK
  <2>2. Ordered(next, start, O, occupied_head)  BY <1>4
  <2> DEFINE hd == UnlinkHead(next, occupied_head, node)
  <2>3. /\ Ordered(nx, start, O1, hd)
        /\ nx \in [Node -> Node \union {Nil}]
        /\ \A j \in Node \ O : nx[j] = next[j]
        /\ hd \in Node \union {Nil}
    BY <2>1, <2>2, OrderedUnlink
  <2>. QED  BY <1>1, <2>3
<1> HIDE DEF nx
<1>10. Fields(st, en, nx)  BY <1>6, <1>9 DEF TypeOK, Fields
<1> HIDE DEF st, en
<1>11. Shape(st, en, nx, free_head, occupied_head', F, O1)
  <2>1. Ordered(nx, st, F, free_head)
    <3>1. \A j \in F : nx[j] = next[j] /\ st[j] = start[j]
      BY <1>4, <1>6, <1>8, <1>9
    <3>. QED  BY <1>4, <3>1, OrderedFrame
  <2>2. Ordered(nx, st, O1, occupied_head')
    <3>1. \A j \in O1 : nx[j] = nx[j] /\ st[j] = start[j]  BY <1>4, <1>8
    <3>. QED  BY <1>9, <3>1, OrderedFrame
  <2>3. F \union O1 = {j \in Node : st[j] # NULL}
    BY <1>4, <1>6, <1>8
  <2>4. Apart(st, en, F \union O1)  BY <1>4, <1>6, <1>8 DEF Apart
  <2>. QED  BY <1>4, <2>1, <2>2, <2>3, <2>4 DEF Shape
<1>12. Outside(st, en, F \union O1, addr, past)
  BY <1>4, <1>6, <1>7, <1>8 DEF Outside
<1>13. past <= PoolEnd /\ free_head \in Node \union {Nil}
  BY <1>5, <1>6 DEF TypeOK
<1>14. /\ Fields(start', end', next')
       /\ free_head' \in Node \union {Nil}
       /\ \E F2 \in SUBSET Node :
            /\ Shape(start', end', next', free_head', occupied_head', F2, O1)
            /\ \A i \in O1 : start'[i] = st[i] /\ end'[i] = en[i]
            /\ \A lo, hi \in Nat :
                 /\ lo < hi
                 /\ Outside(st, en, F, lo, hi)
                 /\ hi <= addr \/ past <= lo
                 => Outside(start', end', F2, lo, hi)
            /\ ret' = -1 => F2 = F
       /\ \/ ret' = 0 /\ Freed(addr, size)
          \/ ret' = -1 /\ held' = held /\ start' = st /\ end' = en /\ next' = nx
  <2>1. /\ size \in Nat \ {0} /\ past <= PoolEnd
        /\ free_head \in Node \union {Nil}
        /\ AddFreedRegionToFreeList(st, en, nx, addr, size)
    BY <1>1, <1>6, <1>13 DEF st, en, nx
  <2> DEFINE oh == occupied_head'
  <2>2. Shape(st, en, nx, free_head, oh, F, O1)  BY <1>11
  <2> HIDE DEF oh, O1
  <2>3. /\ Fields(start', end', next')
        /\ free_head' \in Node \union {Nil}
        /\ \E F2 \in SUBSET Node :
             /\ Shape(start', end', next', free_head', oh, F2, O1)
             /\ \A i \in O1 : start'[i] = st[i] /\ end'[i] = en[i]
             /\ \A lo, hi \in Nat :
                  /\ lo < hi
                  /\ Outside(st, en, F, lo, hi)
                  /\ hi <= addr \/ addr + size <= lo
                  => Outside(start', end', F2, lo, hi)
             /\ ret' = -1 => F2 = F
        /\ \/ ret' = 0 /\ Freed(addr, size)
           \/ ret' = -1 /\ held' = held /\ start' = st /\ end' = en /\ next' = nx
    BY <1>10, <1>12, <2>1, <2>2, AddFreedKeepsShape
  <2>. QED  BY <2>3 DEF oh
<1>15. PICK F2 \in SUBSET Node :
         /\ Shape(start', end', next', free_head', occupied_head', F2, O1)
         /\ \A i \in O1 : start'[i] = st[i] /\ end'[i] = en[i]
         /\ \A lo, hi \in Nat :
              /\ lo < hi
              /\ Outside(st, en, F, lo, hi)
              /\ hi <= addr \/ past <= lo
              => Outside(start', end', F2, lo, hi)
         /\ ret' = -1 => F2 = F
  BY <1>14
\* With the node just released at hand, the bytes always find a place.
<1>16. ret' = 0 /\ Freed(addr, size)
  <2>1. FindFreeNode(st) # Nil
    BY <1>6, <1>8, FreeNodeIsUnused, NilNotNode
  <2>2. ret' # -1  BY <1>1, <2>1 DEF AddFreedRegionToFreeList
  <2>. QED  BY <1>14, <2>2
<1>17. held' = held \ {r}
  <2>1. held' = (held \ {r}) \union
                (IF r.hi = addr + size THEN {}
                 ELSE {[lo |-> addr + size, hi |-> r.hi]})
    BY <1>3, <1>16, FreedIs
  <2>. QED  BY <1>3, <1>6, <2>1
<1>18. Caller(start', end', held', F2, O1)
  <2>1. \A q \in held : q.lo \in Nat /\ q.hi \in Nat
    BY FFAAssumption DEF TypeOK, Region, Pool
  <2>2. \A q, p \in held' : q # p => q.hi <= p.lo \/ p.hi <= q.lo
    BY <1>4, <1>17 DEF Caller
  <2>3. ASSUME NEW q \in held'
        PROVE  q.lo < q.hi /\ Outside(start', end', F2, q.lo, q.hi)
    <3>1. q \in held /\ q # r  BY <1>17
    <3>2. q.lo < q.hi /\ Outside(start, end, F, q.lo, q.hi)
      BY <1>4, <3>1 DEF Caller
    <3>3. q.hi <= addr \/ past <= q.lo  BY <1>3, <1>4, <1>6, <3>1 DEF Caller
    <3>4. Outside(st, en, F, q.lo, q.hi)
      BY <1>4, <1>6, <1>8, <3>2 DEF Outside
    <3>. QED  BY <1>15, <2>1, <3>1, <3>2, <3>3, <3>4
  <2>4. \A j \in O1 : \E q \in held' : q.lo <= start'[j] /\ end'[j] = q.hi
    <3>1. TAKE j \in O1
    <3>2. start'[j] = start[j] /\ end'[j] = end[j]  BY <1>4, <1>8, <1>15
    <3>3. PICK q \in held : q.lo <= start[j] /\ end[j] = q.hi
      BY <1>4 DEF Caller
    <3>4. q # r
      BY <1>2, <1>3, <1>4, <1>5, <1>6, <1>7, <3>3 DEF Apart
    <3>. QED  BY <1>17, <3>2, <3>3, <3>4
  <2>. QED  BY <2>2, <2>3, <2>4 DEF Caller
<1>19. TypeOK'
  BY <1>9, <1>14, <1>16, <1>17 DEF TypeOK, Fields
<1>20. O1 \in SUBSET Node  BY <1>4
<1>21. IInv'  BY <1>15, <1>18, <1>19, <1>20 DEF IInv
<1>22. \A j \in O : start[j] # addr => start'[j] = start[j] /\ end'[j] = end[j]
  BY <1>2, <1>4, <1>8, <1>15
<1>. QED  BY <1>3, <1>6, <1>16, <1>17, <1>21, <1>22

LEMMA FreePartKeeps ==
    ASSUME TypeOK, NEW F, NEW O, Lists(F, O), NEW addr \in Pool, NEW size \in Nat,
           MayFree(addr, size),
           FreePart(FindOccupiedMemoryRegionNode(addr), addr, size)
    PROVE  LET node == FindOccupiedMemoryRegionNode(addr)
           IN  /\ IInv'
               /\ \A j \in O \ {node} : start'[j] = start[j] /\ end'[j] = end[j]
               /\ start'[node] = addr + size /\ end'[node] = end[node]
               /\ ret' = 0 => Freed(addr, size)
<1> DEFINE node == FindOccupiedMemoryRegionNode(addr)
           st == [start EXCEPT ![node] = @ + size]
           past == addr + size
<1>1. /\ node # Nil /\ SizeOf(node) > size
      /\ occupied_head' = occupied_head
      /\ AddFreedRegionToFreeList(st, end, next, addr, size)
  BY DEF FreePart
<1>2. /\ node \in O /\ start[node] = addr /\ size # 0
      /\ \E r \in held : /\ r.lo = addr /\ r.hi = end[node]
                         /\ \A q \in held : q.lo = addr => q = r
  BY <1>1, CallerFreesFromStart
<1> HIDE DEF node
<1>3. PICK r \in held : /\ r.lo = addr /\ r.hi = end[node]
                        /\ \A q \in held : q.lo = addr => q = r
  BY <1>2
<1>4. /\ Ordered(next, start, F, free_head)
      /\ Ordered(next, start, O, occupied_head)
      /\ F \cap O = {} /\ F \subseteq Node /\ O \subseteq Node
      /\ F \union O = {j \in Node : start[j] # NULL}
      /\ Apart(start, end, F \union O)
      /\ Caller(start, end, held, F, O)
  BY DEF Lists, Shape
<1>5. /\ start \in [Node -> Nat] /\ end \in [Node -> Nat]
      /\ \A j \in Node : start[j] < PoolEnd /\ end[j] <= PoolEnd
  BY FieldsNat DEF TypeOK, Fields
<1>6. /\ past < end[node] /\ node \in Node /\ node \notin F /\ size \in Nat \ {0}
      /\ addr < past /\ past \in Nat /\ addr \in Nat
  BY <1>1, <1>2, <1>4, <1>5 DEF SizeOf
<1>7. \A j \in (F \union O) \ {node} : end[j] <= addr \/ end[node] <= start[j]
  BY <1>2, <1>4 DEF Apart
<1>8. /\ \A j \in Node \ {node} : st[j] = start[j]
      /\ st[node] = past
  BY <1>2, <1>5, <1>6
<1>9. past \in Pool /\ past # NULL
  BY <1>5, <1>6, FFAAssumption DEF Pool, NULL
<1>10. Fields(st, end, next)  BY <1>2, <1>6, <1>9 DEF TypeOK, Fields
<1> HIDE DEF st
<1>11. Shape(st, end, next, free_head, occupied_head', F, O)
  <2>1. Ordered(next, st, F, free_head)
    <3>1. \A j \in F : next[j] = next[j] /\ st[j] = start[j]
      BY <1>4, <1>6, <1>8
    <3>. QED  BY <1>4, <3>1, OrderedFrame
  <2>2. Ordered(next, st, O, occupied_head')
    <3>1. \A j \in O : st[j] \in Nat /\ st[j] < PoolEnd
      BY <1>4, <1>5, <1>6, <1>8, <1>9, FFAAssumption DEF Pool
    <3>2. \A j, k \in O : start[j] < start[k] => st[j] < st[k]
      <4>1. TAKE j, k \in O
      <4>2. HAVE start[j] < start[k]
      <4>3. CASE j = node
        <5>1. k # node /\ k \in F \union O /\ start[k] < end[k]
          BY <1>4, <1>5, <4>2, <4>3 DEF Apart
        <5>2. end[node] <= start[k]  BY <1>2, <1>4, <1>5, <1>6, <1>7, <4>2, <4>3, <5>1
        <5>. QED  BY <1>4, <1>5, <1>6, <1>8, <4>3, <5>1, <5>2
      <4>4. CASE k = node /\ j # node
        BY <1>2, <1>4, <1>5, <1>6, <1>8, <4>2, <4>4
      <4>5. CASE k # node /\ j # node  BY <1>4, <1>8, <4>2, <4>5
      <4>. QED  BY <4>3, <4>4, <4>5
    <3>. QED  BY <1>1, <1>4, <3>1, <3>2, OrderedRekey
  <2>3. F \union O = {j \in Node : st[j] # NULL}
    BY <1>2, <1>4, <1>6, <1>8, <1>9
  <2>4. Apart(st, end, F \union O)
    <3>1. \A j \in F \union O : st[j] < end[j]  BY <1>4, <1>6, <1>8 DEF Apart
    <3>2. \A j, k \in F \union O : j # k => end[j] <= st[k] \/ end[k] <= st[j]
      <4>1. TAKE j, k \in F \union O
      <4>2. HAVE j # k
      <4>3. end[j] <= start[k] \/ end[k] <= start[j]  BY <1>4, <4>2 DEF Apart
      <4>4. start[j] <= st[j] /\ start[k] <= st[k]
        BY <1>2, <1>4, <1>5, <1>6, <1>8
      <4>5. st[j] \in Nat /\ st[k] \in Nat  BY <1>4, <1>5, <1>6, <1>8
      <4>. QED  BY <1>4, <1>5, <4>3, <4>4, <4>5
    <3>. QED  BY <3>1, <3>2 DEF Apart
  <2>. QED  BY <1>4, <2>1, <2>2, <2>3, <2>4 DEF Shape
<1>12. Outside(st, end, F \union O, addr, past)
  BY <1>4, <1>5, <1>6, <1>7, <1>8 DEF Outside
<1>13. past <= PoolEnd /\ free_head \in Node \union {Nil}
  BY <1>5, <1>6, <1>9, FFAAssumption DEF TypeOK, Pool
<1>14. /\ Fields(start', end', next')
       /\ free_head' \in Node \union {Nil}
       /\ \E F2 \in SUBSET Node :
            /\ Shape(start', end', next', free_head', occupied_head', F2, O)
            /\ \A i \in O : start'[i] = st[i] /\ end'[i] = end[i]
            /\ \A lo, hi \in Nat :
                 /\ lo < hi
                 /\ Outside(st, end, F, lo, hi)
                 /\ hi <= addr \/ past <= lo
                 => Outside(start', end', F2, lo, hi)
            /\ ret' = -1 => F2 = F
       /\ \/ ret' = 0 /\ Freed(addr, size)
          \/ ret' = -1 /\ held' = held /\ start' = st /\ end' = end /\ next' = next
  <2>1. /\ size \in Nat \ {0} /\ past <= PoolEnd
        /\ free_head \in Node \union {Nil}
        /\ AddFreedRegionToFreeList(st, end, next, addr, size)
    BY <1>1, <1>6, <1>13 DEF st
  <2> DEFINE oh == occupied_head'
  <2>2. Shape(st, end, next, free_head, oh, F, O)  BY <1>11
  <2> HIDE DEF oh
  <2>3. /\ Fields(start', end', next')
        /\ free_head' \in Node \union {Nil}
        /\ \E F2 \in SUBSET Node :
             /\ Shape(start', end', next', free_head', oh, F2, O)
             /\ \A i \in O : start'[i] = st[i] /\ end'[i] = end[i]
             /\ \A lo, hi \in Nat :
                  /\ lo < hi
                  /\ Outside(st, end, F, lo, hi)
                  /\ hi <= addr \/ addr + size <= lo
                  => Outside(start', end', F2, lo, hi)
             /\ ret' = -1 => F2 = F
        /\ \/ ret' = 0 /\ Freed(addr, size)
           \/ ret' = -1 /\ held' = held /\ start' = st /\ end' = end /\ next' = next
    BY <1>10, <1>12, <2>1, <2>2, AddFreedKeepsShape
  <2>. QED  BY <2>3 DEF oh
<1>15. PICK F2 \in SUBSET Node :
         /\ Shape(start', end', next', free_head', occupied_head', F2, O)
         /\ \A i \in O : start'[i] = st[i] /\ end'[i] = end[i]
         /\ \A lo, hi \in Nat :
              /\ lo < hi
              /\ Outside(st, end, F, lo, hi)
              /\ hi <= addr \/ past <= lo
              => Outside(start', end', F2, lo, hi)
         /\ ret' = -1 => F2 = F
  BY <1>14
<1>16. \A q \in held : q.lo \in Nat /\ q.hi \in Nat
  BY FFAAssumption DEF TypeOK, Region, Pool
<1>17. \A j \in F : st[j] = start[j]  BY <1>4, <1>6, <1>8
<1>18. \A j \in O \ {node} : start'[j] = start[j] /\ end'[j] = end[j]
  BY <1>4, <1>8, <1>15
<1>19. start'[node] = past /\ end'[node] = end[node]  BY <1>2, <1>8, <1>15
<1>20. \A q \in held \ {r} : q.hi <= addr \/ end[node] <= q.lo
  BY <1>3, <1>4 DEF Caller
<1>21. \A j \in O \ {node} : \E q \in held \ {r} : q.lo <= start[j] /\ end[j] = q.hi
  <2>1. TAKE j \in O \ {node}
  <2>2. PICK q \in held : q.lo <= start[j] /\ end[j] = q.hi  BY <1>4 DEF Caller
  <2>3. q # r
    BY <1>2, <1>3, <1>4, <1>5, <1>6, <1>7, <2>2 DEF Apart
  <2>. QED  BY <2>2, <2>3
<1>22. \A q \in held \ {r} : q.lo < q.hi /\ Outside(start', end', F2, q.lo, q.hi)
  <2>1. TAKE q \in held \ {r}
  <2>2. q.lo < q.hi /\ Outside(start, end, F, q.lo, q.hi)  BY <1>4 DEF Caller
  <2>3. Outside(st, end, F, q.lo, q.hi)  BY <1>17, <2>2 DEF Outside
  <2>4. q.hi <= addr \/ past <= q.lo
    BY <1>4, <1>5, <1>6, <1>16, <1>20
  <2>. QED  BY <1>15, <1>16, <2>2, <2>3, <2>4
<1>23. ASSUME ret' = 0 /\ Freed(addr, size)
       PROVE  IInv'
  <2> DEFINE rest == [lo |-> past, hi |-> r.hi]
  <2>1. held' = (held \ {r}) \union {rest}
    <3>1. held' = (held \ {r}) \union
                  (IF r.hi = addr + size THEN {}
                   ELSE {[lo |-> addr + size, hi |-> r.hi]})
      BY <1>3, <1>23, FreedIs
    <3>. QED  BY <1>3, <1>5, <1>6, <3>1
  <2>2. rest.lo < rest.hi /\ Outside(start', end', F2, rest.lo, rest.hi)
    <3>1. Outside(start, end, F, r.lo, r.hi)  BY <1>3, <1>4 DEF Caller
    <3>2. Outside(st, end, F, past, end[node])
      BY <1>3, <1>4, <1>5, <1>6, <1>17, <3>1 DEF Outside
    <3>3. Outside(start', end', F2, past, end[node])
      BY <1>5, <1>6, <1>15, <3>2
    <3>. QED  BY <1>3, <1>6, <3>3
  <2>3. \A q \in held \ {r} : q.hi <= rest.lo \/ rest.hi <= q.lo
    BY <1>3, <1>5, <1>6, <1>16, <1>20
  <2>4. \A q, p \in held' : q # p => q.hi <= p.lo \/ p.hi <= q.lo
    BY <1>4, <2>1, <2>3 DEF Caller
  <2>5. \A j \in O : \E q \in held' : q.lo <= start'[j] /\ end'[j] = q.hi
    <3>1. TAKE j \in O
    <3>2. CASE j = node
      <4>1. rest \in held' /\ rest.lo <= start'[node] /\ end'[node] = rest.hi
        BY <1>3, <1>6, <1>19, <2>1
      <4>. QED  BY <3>2, <4>1
    <3>3. CASE j # node
      <4>1. PICK q \in held \ {r} : q.lo <= start[j] /\ end[j] = q.hi
        BY <1>21, <3>3
      <4>. QED  BY <1>18, <2>1, <3>3, <4>1
    <3>. QED  BY <3>2, <3>3
  <2>6. Caller(start', end', held', F2, O)
    BY <1>22, <2>1, <2>2, <2>4, <2>5 DEF Caller
  <2>7. rest \in Region  BY <1>3, <1>9 DEF TypeOK, Region
  <2>8. TypeOK'
    BY <1>1, <1>14, <1>23, <2>1, <2>7 DEF TypeOK, Fields
  <2>. QED  BY <1>4, <1>15, <2>6, <2>8 DEF IInv
<1>24. ASSUME ret' = -1 /\ held' = held /\ start' = st /\ end' = end /\ next' = next
       PROVE  IInv'
  <2>1. F2 = F  BY <1>15, <1>24
  <2>2. \A q \in held' : q.lo < q.hi /\ Outside(start', end', F2, q.lo, q.hi)
    <3>1. \A q \in held : q.lo < q.hi /\ Outside(start, end, F, q.lo, q.hi)
      BY <1>4 DEF Caller
    <3>. QED  BY <1>17, <1>24, <2>1, <3>1 DEF Outside
  <2>3. \A q, p \in held' : q # p => q.hi <= p.lo \/ p.hi <= q.lo
    BY <1>4, <1>24 DEF Caller
  <2>4. \A j \in O : \E q \in held' : q.lo <= start'[j] /\ end'[j] = q.hi
    <3>1. TAKE j \in O
    <3>2. CASE j = node
      BY <1>3, <1>6, <1>19, <1>24, <3>2
    <3>3. CASE j # node
      <4>1. PICK q \in held \ {r} : q.lo <= start[j] /\ end[j] = q.hi
        BY <1>21, <3>3
      <4>. QED  BY <1>18, <1>24, <3>3, <4>1
    <3>. QED  BY <3>2, <3>3
  <2>5. Caller(start', end', held', F2, O)  BY <2>2, <2>3, <2>4 DEF Caller
  <2>6. TypeOK'
    BY <1>1, <1>14, <1>24 DEF TypeOK, Fields
  <2>. QED  BY <1>4, <1>15, <2>5, <2>6 DEF IInv
<1>25. IInv'  BY <1>14, <1>23, <1>24
<1>26. ret' = 0 => Freed(addr, size)  BY <1>14
<1>. QED  BY <1>18, <1>19, <1>25, <1>26 DEF node

LEMMA StepKeeps == IInv /\ [Next]_vars => IInv'
<1>1. SUFFICES ASSUME IInv, [Next]_vars  PROVE IInv'  OBVIOUS
<1>2. TypeOK  BY <1>1 DEF IInv
<1>3. PICK F, O \in SUBSET Node : Lists(F, O)  BY <1>1 DEF IInv, Lists
<1>4. ASSUME NEW size \in Sizes, Allocate(size)  PROVE IInv'
  <2>1. size \in Nat  BY FFAAssumption
  <2>2. CASE AllocateRefused(size)
    BY <1>2, <1>3, <2>2, RefusalKeeps DEF AllocateRefused, Refused, NULL
  <2>3. CASE MoveNodeFromFreeListToOccupied(size)
    BY <1>2, <1>3, <2>1, <2>3, ExactFitKeeps
  <2>4. CASE AllocateMemoryRegionNode(size)
    BY <1>2, <1>3, <2>1, <2>4, SplitKeeps
  <2>. QED  BY <1>4, <2>2, <2>3, <2>4 DEF Allocate
<1>5. ASSUME NEW addr \in Pool, NEW size \in Sizes, MayFree(addr, size), Free(addr, size)
      PROVE  IInv'
  <2> DEFINE node == FindOccupiedMemoryRegionNode(addr)
  <2>1. size \in Nat  BY FFAAssumption
  <2>2. CASE FreeUnknown(node)
    BY <1>2, <1>3, <2>2, RefusalKeeps DEF FreeUnknown
  <2>3. CASE FreeTooMuch(node, size)
    BY <1>2, <1>3, <2>3, RefusalKeeps DEF FreeTooMuch
  <2>4. CASE FreeOccupiedRegionNode(node, addr, size)
    BY <1>2, <1>3, <1>5, <2>1, <2>4, FreeWholeKeeps
  <2>5. CASE FreePart(node, addr, size)
    BY <1>2, <1>3, <1>5, <2>1, <2>5, FreePartKeeps
  <2>. QED  BY <1>5, <2>2, <2>3, <2>4, <2>5 DEF Free
<1>6. CASE UNCHANGED vars
  BY <1>1, <1>6 DEF IInv, TypeOK, Shape, Caller, Outside, Ordered, Apart, vars
<1>. QED  BY <1>1, <1>4, <1>5, <1>6 DEF Next

-----------------------------------------------------------------------------
(* Theorems.                                                               *)

\* IInv holds of every reachable state of FirstFitAllocator.
THEOREM Invariance == Spec => []IInv
BY InitInv, StepKeeps, PTL DEF Spec

\* Every index stays a node or Nil, and every address one of the pool, for
\* every array length, pool and pattern of calls (src/FirstFitAllocator.h).
THEOREM TypeCorrect == Spec => []TypeOK
<1>1. IInv => TypeOK  BY DEF IInv
<1>. QED  BY <1>1, Invariance, PTL

\* No call, whole or partial free included, ever makes two chunks of the array
\* share a byte: the overlap half of IsValidDataStructure always succeeds.
THEOREM ChunksNeverOverlap == Spec => []NoOverlap
<1>1. IInv => NoOverlap  BY DEF IInv, Shape, Apart, NoOverlap
<1>. QED  BY <1>1, Invariance, PTL

\* No node is lost by the pointer surgery of Allocate and Free, and none is on
\* both lists: the check that IsValidDataStructure has commented out would pass.
THEOREM NoNodeDisconnected == Spec => []NoDisconnectedNode
<1>1. IInv => NoDisconnectedNode
  <2>1. SUFFICES ASSUME IInv  PROVE NoDisconnectedNode  OBVIOUS
  <2>2. PICK F, O \in SUBSET Node :
          Shape(start, end, next, free_head, occupied_head, F, O)
    BY <2>1 DEF IInv
  <2>3. FreeNodes = F  BY <2>2, OrderedList DEF Shape, FreeNodes
  <2>4. OccupiedNodes = O  BY <2>2, OrderedList DEF Shape, OccupiedNodes
  <2>. QED  BY <2>2, <2>3, <2>4 DEF Shape, NoDisconnectedNode
<1>. QED  BY <1>1, Invariance, PTL

\* Both lists stay sorted by address, as CombineAdjacentFreeNodes assumes.
THEOREM ListsStaySorted == Spec => []ListsSorted
<1>1. IInv => ListsSorted
  <2>1. SUFFICES ASSUME IInv  PROVE ListsSorted  OBVIOUS
  <2>2. PICK F, O \in SUBSET Node :
          Shape(start, end, next, free_head, occupied_head, F, O)
    BY <2>1 DEF IInv
  <2>3. FreeNodes = F  BY <2>2, OrderedList DEF Shape, FreeNodes
  <2>4. OccupiedNodes = O  BY <2>2, OrderedList DEF Shape, OccupiedNodes
  <2>. QED  BY <2>2, <2>3, <2>4 DEF Shape, Ordered, ListsSorted
<1>. QED  BY <1>1, Invariance, PTL

\* Allocate always picks the lowest free chunk that is large enough, however
\* the free list came to be.
THEOREM AllocateIsFirstFit == Spec => FirstFitByAddress
<1> DEFINE FirstFitStep ==
      \A r \in held' \ held : ret' = r.lo =>
          /\ r.lo \in {start[i] : i \in FreeNodes}
          /\ \A i \in FreeNodes : start[i] < r.lo => SizeOf(i) < r.hi - r.lo
<1>1. ASSUME IInv, IInv', Next  PROVE FirstFitStep
  <2>1. PICK F, O \in SUBSET Node : Lists(F, O)  BY <1>1 DEF IInv, Lists
  <2>2. FreeNodes = F /\ F \subseteq Node
    BY <2>1, OrderedList DEF Lists, Shape, FreeNodes
  <2>3. /\ start \in [Node -> Nat] /\ end \in [Node -> Nat]
    BY <1>1, FieldsNat DEF IInv, TypeOK, Fields
  <2>4. \A r \in held' : r.lo \in Nat \ {0}
    BY <1>1, FFAAssumption DEF IInv, TypeOK, Region, Pool
  <2>5. ASSUME NEW size \in Sizes, Allocate(size)  PROVE FirstFitStep
    <3> DEFINE i == FirstFit(size)
    <3>1. size \in Nat  BY FFAAssumption
    <3>2. CASE AllocateRefused(size)
      BY <3>2 DEF AllocateRefused, Refused
    <3>3. CASE MoveNodeFromFreeListToOccupied(size) \/ AllocateMemoryRegionNode(size)
      <4>1. i # Nil /\ held' = held \union {[lo |-> start[i], hi |-> start[i] + size]}
        BY <3>3 DEF MoveNodeFromFreeListToOccupied, AllocateMemoryRegionNode, Granted
      <4>2. /\ i \in F
            /\ \A j \in F : SizeOf(j) >= size => start[i] <= start[j]
        BY <2>1, <3>1, <4>1, FirstFitIs
      <4> HIDE DEF i
      <4>3. \A j \in F : SizeOf(j) \in Int /\ start[j] \in Nat
        BY <2>2, <2>3 DEF SizeOf
      <4>4. \A j \in F : start[j] < start[i] => SizeOf(j) < size
        BY <3>1, <4>2, <4>3
      <4>5. \A r \in held' \ held : r.lo = start[i] /\ r.hi - r.lo = size
        BY <3>1, <4>1, <4>2, <4>3
      <4>. QED  BY <2>2, <4>2, <4>4, <4>5
    <3>. QED  BY <2>5, <3>2, <3>3 DEF Allocate
  <2>6. ASSUME NEW addr \in Pool, NEW size \in Sizes, Free(addr, size)
        PROVE  FirstFitStep
    <3>1. ret' \in {0, -1, -2}
      BY <2>6 DEF Free, FreeUnknown, FreeTooMuch, FreeOccupiedRegionNode, FreePart,
                  AddFreedRegionToFreeList
    <3>. QED  BY <2>4, <3>1
  <2>. QED  BY <1>1, <2>5, <2>6 DEF Next
<1>2. IInv /\ IInv' /\ [Next]_vars => [FirstFitStep]_vars
  BY <1>1
<1>. QED  BY <1>2, Invariance, PTL DEF Spec, FirstFitByAddress

-----------------------------------------------------------------------------
(* The refinement of Heap.                                                 *)

\* A region of the caller has a node of its own.  With prefixes it need not:
\* bytes that were freed and lost for want of a node are still the caller's.
Backed == \A r \in held : \E j \in Node : start[j] = r.lo /\ end[j] = r.hi

LEMMA BackedByOccupied ==
    ASSUME TypeOK, NEW F, NEW O, Lists(F, O), Backed, NEW r \in held
    PROVE  \E j \in O : start[j] = r.lo /\ end[j] = r.hi
<1>1. PICK j \in Node : start[j] = r.lo /\ end[j] = r.hi  BY DEF Backed
<1>2. r.lo \in Nat \ {0} /\ r.hi \in Nat /\ r.lo < r.hi
  BY FFAAssumption DEF TypeOK, Region, Pool, Lists, Caller
<1>3. j \in F \union O  BY <1>1, <1>2 DEF Lists, Shape, NULL
<1>4. j \notin F  BY <1>1, <1>2 DEF Lists, Caller, Outside
<1>. QED  BY <1>1, <1>3, <1>4

\* What Allocate hands out is nobody's, and gets a node.
LEMMA AllocateRefines ==
    ASSUME IInv, IInv', Backed, NEW size \in Sizes, Allocate(size)
    PROVE  Backed' /\ heap!Allocate(size)
<1>1. TypeOK /\ size \in Nat  BY FFAAssumption DEF IInv
<1>2. PICK F, O \in SUBSET Node : Lists(F, O)  BY DEF IInv, Lists
<1>3. CASE AllocateRefused(size)
  BY <1>3 DEF AllocateRefused, Refused, lists, Backed, heap!Allocate, NULL, heap!NULL
<1>4. CASE MoveNodeFromFreeListToOccupied(size) \/ AllocateMemoryRegionNode(size)
  <2> DEFINE i == FirstFit(size)
             addr == start[i]
             r == [lo |-> addr, hi |-> addr + size]
  <2>1. i # Nil /\ size # 0 /\ held' = held \union {r} /\ ret' = addr
    BY <1>4 DEF MoveNodeFromFreeListToOccupied, AllocateMemoryRegionNode, Granted
  <2>2. i \in F /\ SizeOf(i) >= size  BY <1>1, <1>2, <2>1, FirstFitIs
  <2>3. F \subseteq Node /\ start[i] # NULL  BY <1>2, <2>2 DEF Lists, Shape
  <2>4. /\ start \in [Node -> Nat] /\ end \in [Node -> Nat]
        /\ \A j \in Node : start[j] < PoolEnd /\ end[j] <= PoolEnd
    BY <1>1, FieldsNat DEF TypeOK, Fields
  <2>5. addr \in Pool /\ addr + size <= end[i] /\ end[i] <= PoolEnd
    BY <1>1, <2>2, <2>3, <2>4 DEF TypeOK, SizeOf
  <2>6. \A q \in held : heap!Disjoint(r, q)
    <3>1. TAKE q \in held
    <3>2. end[i] <= q.lo \/ q.hi <= addr
      BY <1>2, <2>2 DEF Lists, Caller, Outside
    <3>3. q.lo \in Nat  BY <1>1, FFAAssumption DEF TypeOK, Region, Pool
    <3>. QED  BY <1>1, <2>2, <2>3, <2>4, <2>5, <3>2, <3>3 DEF heap!Disjoint
  <2>7. heap!Allocate(size)
    <3>1. addr + size <= PoolEnd  BY <1>1, <2>3, <2>2, <2>4, <2>5, FFAAssumption
    <3> HIDE DEF i, addr
    <3>2. addr \in heap!Pool /\ r.hi <= PoolEnd  BY <2>5, <3>1 DEF heap!Pool, Pool
    <3>. QED  BY <2>1, <2>6, <3>2 DEF heap!Allocate
  <2>8. Backed'
    <3>1. CASE MoveNodeFromFreeListToOccupied(size)
      <4>1. /\ start' = start /\ end' = end /\ SizeOf(i) = size
        BY <3>1 DEF MoveNodeFromFreeListToOccupied
      <4>2. end[i] = addr + size  BY <1>1, <2>2, <2>3, <2>4, <4>1 DEF SizeOf
      <4> HIDE DEF i
      <4>. QED  BY <2>1, <2>2, <2>3, <4>1, <4>2 DEF Backed
    <3>2. CASE AllocateMemoryRegionNode(size)
      <4> DEFINE node == FindFreeNode(start)
      <4>1. /\ node # Nil
            /\ start' = [start EXCEPT ![node] = addr, ![i] = addr + size]
            /\ end' = [end EXCEPT ![node] = addr + size]
        BY <3>2 DEF AllocateMemoryRegionNode
      <4>2. node \in Node /\ start[node] = NULL  BY <4>1, FreeNodeIsUnused
      <4> HIDE DEF i, node
      <4>3. start'[node] = addr /\ end'[node] = addr + size
        BY <2>2, <2>3, <2>4, <4>1, <4>2
      <4>4. ASSUME NEW q \in held
            PROVE  \E j \in Node : start'[j] = q.lo /\ end'[j] = q.hi
        <5>1. PICK j \in O : start[j] = q.lo /\ end[j] = q.hi
          BY <1>1, <1>2, BackedByOccupied
        <5>2. j \in Node /\ j # i /\ j # node
          BY <1>2, <2>2, <4>2, <5>1 DEF Lists, Shape
        <5>. QED  BY <2>4, <4>1, <5>1, <5>2
      <4>. QED  BY <2>1, <4>2, <4>3, <4>4 DEF Backed
    <3>. QED  BY <1>4, <3>1, <3>2
  <2>. QED  BY <2>7, <2>8
<1>. QED  BY <1>3, <1>4 DEF Allocate

\* Free of a whole region frees it, and so does Free of a prefix, unless it
\* fails half way; nothing else succeeds.
LEMMA FreeRefines ==
    ASSUME IInv, IInv', Backed, NEW addr \in Pool, NEW size \in Sizes,
           MayFree(addr, size), Free(addr, size),
           FreePart(FindOccupiedMemoryRegionNode(addr), addr, size) => ret' = 0
    PROVE  Backed' /\ heap!Free(addr, size)
<1> DEFINE node == FindOccupiedMemoryRegionNode(addr)
<1>1. TypeOK /\ size \in Nat /\ addr \in Nat  BY FFAAssumption DEF IInv, Pool
<1>2. PICK F, O \in SUBSET Node : Lists(F, O)  BY DEF IInv, Lists
<1>3. start \in [Node -> Nat] /\ end \in [Node -> Nat]
  BY <1>1, FieldsNat DEF TypeOK, Fields
<1>4. CASE FreeUnknown(node)
  <2>1. \A j \in O : start[j] # addr
    BY <1>2, <1>4, FoundOccupied, NilNotNode DEF FreeUnknown
  <2>2. \A r \in held : r.lo # addr
    BY <1>1, <1>2, <2>1, BackedByOccupied
  <2>. QED  BY <1>4, <2>2 DEF FreeUnknown, lists, Backed, heap!Free
<1>5. CASE FreeTooMuch(node, size)
  <2>1. node # Nil /\ SizeOf(node) < size  BY <1>5 DEF FreeTooMuch
  <2>2. /\ node \in O /\ start[node] = addr
        /\ \E r \in held : /\ r.lo = addr /\ r.hi = end[node]
                           /\ \A q \in held : q.lo = addr => q = r
    BY <1>1, <1>2, <2>1, CallerFreesFromStart
  <2> HIDE DEF node
  <2>3. node \in Node  BY <1>2, <2>2
  <2>4. \A q \in held : q.lo = addr => addr + size > q.hi
    BY <1>1, <1>3, <2>1, <2>2, <2>3 DEF SizeOf
  <2>. QED  BY <1>5, <2>4 DEF FreeTooMuch, lists, Backed, heap!Free
<1>6. CASE FreeOccupiedRegionNode(node, addr, size)
  <2>1. /\ ret' = 0
        /\ \E r \in held : /\ r.lo = addr /\ r.hi = addr + size
                           /\ held' = held \ {r}
                           /\ \A q \in held : q.lo = addr => q = r
        /\ \A j \in O : start[j] # addr => start'[j] = start[j] /\ end'[j] = end[j]
    BY <1>1, <1>2, <1>6, FreeWholeKeeps
  <2>2. heap!Free(addr, size)  BY <2>1 DEF heap!Free
  <2>3. ASSUME NEW q \in held'
        PROVE  \E j \in Node : start'[j] = q.lo /\ end'[j] = q.hi
    <3>1. q \in held /\ q.lo # addr  BY <2>1
    <3>2. PICK j \in O : start[j] = q.lo /\ end[j] = q.hi
      BY <1>1, <1>2, <3>1, BackedByOccupied
    <3>. QED  BY <1>2, <2>1, <3>1, <3>2
  <2>. QED  BY <2>2, <2>3 DEF Backed
<1>7. CASE FreePart(node, addr, size)
  <2> DEFINE rest == [lo |-> addr + size, hi |-> end[node]]
  <2>1. ret' = 0 /\ node # Nil /\ SizeOf(node) > size  BY <1>7 DEF FreePart
  <2>2. /\ node \in O /\ start[node] = addr /\ PartialFrees
        /\ \E r \in held : /\ r.lo = addr /\ r.hi = end[node]
                           /\ \A q \in held : q.lo = addr => q = r
    BY <1>1, <1>2, <2>1, CallerFreesFromStart
  <2>3. /\ \A j \in O \ {node} : start'[j] = start[j] /\ end'[j] = end[j]
        /\ start'[node] = addr + size /\ end'[node] = end[node]
        /\ Freed(addr, size)
    <3>1. /\ \A j \in O \ {node} : start'[j] = start[j] /\ end'[j] = end[j]
          /\ start'[node] = addr + size /\ end'[node] = end[node]
          /\ ret' = 0 => Freed(addr, size)
      BY <1>1, <1>2, <1>7, FreePartKeeps
    <3>. QED  BY <2>1, <3>1
  <2>4. PICK r \in held : /\ r.lo = addr /\ r.hi = end[node]
                          /\ \A q \in held : q.lo = addr => q = r
    BY <2>2
  <2> HIDE DEF node
  <2>5. node \in Node /\ O \subseteq Node  BY <1>2, <2>2
  <2>6. addr + size < r.hi  BY <1>1, <1>3, <2>1, <2>2, <2>4, <2>5 DEF SizeOf
  <2>7. held' = (held \ {r}) \union {rest}
    <3>1. held' = (held \ {r}) \union
                  (IF r.hi = addr + size THEN {}
                   ELSE {[lo |-> addr + size, hi |-> r.hi]})
      BY <2>3, <2>4, FreedIs
    <3>2. r.hi # addr + size  BY <1>1, <1>3, <2>4, <2>5, <2>6
    <3>. QED  BY <2>4, <3>1, <3>2
  <2>8. heap!Free(addr, size)
    <3>1. r = [lo |-> r.lo, hi |-> r.hi]  BY <1>1 DEF TypeOK, Region
    <3>2. [r EXCEPT !.lo = addr + size] = rest  BY <2>4, <3>1
    <3>3. addr + size # r.hi  BY <1>1, <1>3, <2>4, <2>5, <2>6
    <3>. QED  BY <2>1, <2>2, <2>4, <2>6, <2>7, <3>2, <3>3 DEF heap!Free
  <2>9. ASSUME NEW q \in held'
        PROVE  \E j \in Node : start'[j] = q.lo /\ end'[j] = q.hi
    <3>1. CASE q = rest  BY <2>3, <2>5, <3>1
    <3>2. CASE q # rest
      <4>1. q \in held /\ q.lo # addr  BY <2>4, <2>7, <3>2
      <4>2. PICK j \in O : start[j] = q.lo /\ end[j] = q.hi
        BY <1>1, <1>2, <4>1, BackedByOccupied
      <4>3. j # node  BY <2>2, <4>1, <4>2
      <4>. QED  BY <2>3, <2>5, <4>2, <4>3
    <3>. QED  BY <3>1, <3>2
  <2>. QED  BY <2>8, <2>9 DEF Backed
<1>. QED  BY <1>4, <1>5, <1>6, <1>7 DEF Free
=============================================================================
