--------------------- MODULE FirstFitAllocatorSpaceProofs ---------------------
(***************************************************************************)
(* Proofs about FirstFitAllocator: what becomes of the bytes of the pool.  *)
(* GetFreeSpace and IsValidDataStructure add sizes of chunks; chunks being *)
(* apart, a sum of sizes is a number of bytes, and no byte is lost.        *)
(***************************************************************************)
EXTENDS FirstFitAllocatorProofs, FiniteSetTheorems

-----------------------------------------------------------------------------
(* Sums of sizes.                                                          *)

\* f adds the sizes of every subset of S as MapThenSumSet does.
Adds(f, S) ==
    f = [s \in SUBSET S |->
            IF s = {} THEN 0
            ELSE SizeOf(CHOOSE x \in s : TRUE) + f[s \ {CHOOSE x \in s : TRUE}]]

LEMMA SumIs ==
    ASSUME NEW S
    PROVE  MapThenSumSet(SizeOf, S) = (CHOOSE f : Adds(f, S))[S]
BY DEF MapThenSumSet, MapThenFoldSet, Adds

LEMMA AddsOnce ==
    ASSUME NEW S, IsFiniteSet(S), NEW f, Adds(f, S), NEW g, Adds(g, S)
    PROVE  f = g
<1>. DEFINE bad == {s \in SUBSET S : f[s] # g[s]}
            Choice(s) == CHOOSE x \in s : TRUE
<1>1. \A s \in SUBSET S : s # {} => /\ Choice(s) \in s
                                    /\ f[s] = SizeOf(Choice(s)) + f[s \ {Choice(s)}]
                                    /\ g[s] = SizeOf(Choice(s)) + g[s \ {Choice(s)}]
  BY DEF Adds
<1>2. f[{}] = 0 /\ g[{}] = 0  BY DEF Adds
<1>3. f = [s \in SUBSET S |-> f[s]] /\ g = [s \in SUBSET S |-> g[s]]  BY DEF Adds
<1>. HIDE DEF Choice
<1>4. bad = {}
  <2>1. SUFFICES ASSUME bad # {}  PROVE FALSE  OBVIOUS
  <2>2. IsWellFoundedOn(StrictSubsetOrdering(S), SUBSET S)
    BY FS_StrictSubsetOrderingWellFounded, FS_FiniteSubsetsOfFinite
  <2>3. PICK s \in bad : \A t \in bad : ~(<<t, s>> \in StrictSubsetOrdering(S))
    <3>. HIDE DEF bad
    <3>1. bad \subseteq SUBSET S  BY DEF bad
    <3>. QED  BY <2>1, <2>2, <3>1, WFMin
  <2>4. s # {}  BY <1>2, <2>3
  <2>. DEFINE t == s \ {Choice(s)}
  <2>5. Choice(s) \in s /\ t \in SUBSET S /\ t \subseteq s /\ t # s  BY <1>1, <2>3, <2>4
  <2>6. <<t, s>> \in StrictSubsetOrdering(S)  BY <2>3, <2>5 DEF StrictSubsetOrdering
  <2>7. f[t] = g[t]  BY <2>3, <2>5, <2>6
  <2>. QED  BY <1>1, <2>3, <2>4, <2>7
<1>. QED  BY <1>3, <1>4

\* The bytes of the chunks of the nodes S.
BytesOf(S) == UNION {Bytes(start[i], end[i]) : i \in S}

LEMMA BytesFinite ==
    ASSUME start \in [Node -> Nat], end \in [Node -> Nat],
           \A i \in Node : end[i] <= PoolEnd, NEW S \in SUBSET Node
    PROVE  IsFiniteSet(BytesOf(S)) /\ Cardinality(BytesOf(S)) \in Nat
<1>1. BytesOf(S) \in SUBSET (0 .. PoolEnd)
  BY FFAAssumption DEF BytesOf, Bytes
<1>2. IsFiniteSet(0 .. PoolEnd)  BY FS_Interval, FFAAssumption
<1>3. IsFiniteSet(BytesOf(S))
  <2>. HIDE DEF BytesOf
  <2>. QED  BY <1>1, <1>2, FS_Subset
<1>. QED  BY <1>3, FS_CardinalityType

\* Chunks that are apart have as many bytes as their sizes add up to.
LEMMA SizesAddUp ==
    ASSUME start \in [Node -> Nat], end \in [Node -> Nat],
           \A i \in Node : end[i] <= PoolEnd,
           NEW S \in SUBSET Node, Apart(start, end, S)
    PROVE  MapThenSumSet(SizeOf, S) = Cardinality(BytesOf(S))
<1>. DEFINE g == [s \in SUBSET S |-> Cardinality(BytesOf(s))]
            Choice(s) == CHOOSE x \in s : TRUE
<1>1. ASSUME NEW s \in SUBSET S, NEW x \in s
      PROVE  Cardinality(BytesOf(s)) = SizeOf(x) + Cardinality(BytesOf(s \ {x}))
  <2>. DEFINE A == Bytes(start[x], end[x])
              B == BytesOf(s \ {x})
  <2>1. start[x] \in Nat /\ end[x] \in Nat /\ start[x] < end[x]  BY DEF Apart
  <2>2. IsFiniteSet(A) /\ Cardinality(A) = SizeOf(x)
    <3>. DEFINE lo == start[x]
                hi == end[x] - 1
    <3>1. /\ lo \in Int /\ hi \in Int /\ ~(lo > hi)
          /\ hi - lo + 1 = end[x] - start[x] /\ A = lo .. hi
      BY <2>1 DEF Bytes
    <3>. HIDE DEF lo, hi, A
    <3>2. IsFiniteSet(lo .. hi) /\ Cardinality(lo .. hi) = hi - lo + 1
      BY <3>1, FS_Interval
    <3>. QED  BY <3>1, <3>2 DEF SizeOf
  <2>3. s \ {x} \in SUBSET Node /\ s \in SUBSET Node  OBVIOUS
  <2>4. IsFiniteSet(B) /\ Cardinality(B) \in Nat  BY <2>3, BytesFinite
  <2>5. BytesOf(s) = A \union B  BY DEF BytesOf
  <2>6. A \cap B = {}
    <3>1. ASSUME NEW y \in s \ {x}, NEW b \in A, b \in Bytes(start[y], end[y])  PROVE FALSE
      <4>1. end[x] <= start[y] \/ end[y] <= start[x]  BY DEF Apart
      <4>2. start[y] \in Nat /\ end[y] \in Nat  OBVIOUS
      <4>. QED  BY <2>1, <3>1, <4>1, <4>2 DEF Bytes
    <3>. QED  BY <3>1 DEF BytesOf
  <2>. HIDE DEF A, B
  <2>7. Cardinality(A \union B) = Cardinality(A) + Cardinality(B) - Cardinality({})
    BY <2>2, <2>4, <2>6, FS_Union
  <2>8. Cardinality({}) = 0 /\ Cardinality(A) \in Nat
    BY <2>2, FS_EmptySet, FS_CardinalityType
  <2>. QED  BY <2>2, <2>4, <2>5, <2>7, <2>8 DEF B
<1>2. BytesOf({}) = {} /\ Cardinality({}) = 0  BY FS_EmptySet DEF BytesOf
<1>3. \A s \in SUBSET S : s # {} => /\ Choice(s) \in s
                                    /\ s \ {Choice(s)} \in SUBSET S
  OBVIOUS
<1>. HIDE DEF Choice
<1>4. \A s \in SUBSET S : g[s] = IF s = {} THEN 0
                                 ELSE SizeOf(Choice(s)) + g[s \ {Choice(s)}]
  BY <1>1, <1>2, <1>3
<1>. HIDE DEF g
<1>5. Adds(g, S)
  <2>1. g = [s \in SUBSET S |-> g[s]]  BY DEF g
  <2>. QED  BY <1>4, <2>1 DEF Adds, Choice
<1>6. Adds((CHOOSE f : Adds(f, S)), S)  BY <1>5
<1>7. IsFiniteSet(S)
  <2>1. IsFiniteSet(Node)
    <3>1. 0 \in Int /\ Len - 1 \in Int  BY FFAAssumption
    <3>. QED  BY <3>1, FS_Interval DEF Node
  <2>. QED  BY <2>1, FS_Subset
<1>8. (CHOOSE f : Adds(f, S)) = g  BY <1>5, <1>6, <1>7, AddsOnce
<1>9. g[S] = Cardinality(BytesOf(S))  BY DEF g
<1>. QED  BY <1>8, <1>9, SumIs

-----------------------------------------------------------------------------
(* Every byte of the pool has a chunk.                                     *)

Within(b, st, en, i) == st[i] <= b /\ b < en[i]

Covered == \A b \in Pool : \E i \in Node : start[i] # NULL /\ Within(b, start, end, i)

\* Combining loses no byte: what an absorbed node had, the survivor of its run
\* has.
LEMMA CombinedCovers ==
    ASSUME NEW nx \in [Node -> Node \union {Nil}],
           NEW st \in [Node -> Nat], NEW en \in [Node -> Nat],
           NEW S, NEW h, S # {},
           Ordered(nx, st, S, h), Apart(st, en, S),
           NEW b \in Nat, NEW j \in S, Within(b, st, en, j)
    PROVE  LET gone == Absorbed(st, en, nx, h)
               st2  == CombinedStart(st, en, nx, h)
               en2  == CombinedEnd(st, en, nx, h)
           IN  \E i \in S \ gone : Within(b, st2, en2, i)
<1>. DEFINE gone == Absorbed(st, en, nx, h)
            st2  == CombinedStart(st, en, nx, h)
            en2  == CombinedEnd(st, en, nx, h)
            nx2  == CombinedNext(st, en, nx, h)
            E(i) == RunEnd(st, en, nx, i)
            S2   == S \ gone
            before == {i \in S2 : st[i] <= st[j]}
<1>1. /\ gone \subseteq S
      /\ Ordered(nx2, st2, S2, h)
      /\ \A i \in S2 : st2[i] = st[i]
  <2>1. /\ gone \subseteq S
        /\ Ordered(nx2, st2, S2, h)
        /\ Apart(st2, en2, S2)
        /\ \A i \in S2 : \E e \in S : en2[i] = en[e]
        /\ \A i \in S2 : st2[i] = st[i]
        /\ \A i \in gone : st2[i] = NULL /\ en2[i] = NULL
        /\ \A i \in Node \ S : st2[i] = st[i] /\ en2[i] = en[i] /\ nx2[i] = nx[i]
        /\ nx2 \in [Node -> Node \union {Nil}]
        /\ \A lo, hi \in Nat : lo < hi /\ Outside(st, en, S, lo, hi)
                                 => Outside(st2, en2, S2, lo, hi)
    BY Combined
  <2>. QED  BY <2>1
<1>2. S \subseteq Node /\ h \in S /\ \A i \in S : st[h] <= st[i] /\ st[i] < PoolEnd
  BY DEF Ordered
<1>3. \A i \in S2 : en2[i] = en[E(i)] /\ nx2[i] = nx[E(i)]
  <2>1. ListFrom(nx, h) = S  BY OrderedList
  <2>. QED  BY <1>2, <2>1 DEF CombinedEnd, CombinedNext
<1>4. \A i \in S : E(i) \in S /\ st[i] <= st[E(i)]  BY RunEndIs
<1>. HIDE DEF gone, st2, en2, nx2, E
<1>5. h \in before
  <2>1. h \in S2
    <3>1. CASE S2 # {}  BY <1>1, <3>1 DEF Ordered
    <3>2. CASE S2 = {}
      <4>1. h = Nil  BY <1>1, <3>2 DEF Ordered
      <4>. QED  BY <1>2, <4>1, NilNotNode
    <3>. QED  BY <3>1, <3>2
  <2>. QED  BY <1>2, <2>1
<1>6. PICK i \in before : \A k \in before : st[k] <= st[i]
  <2>1. \A k \in before : st[k] \in Nat /\ st[k] <= PoolEnd
    BY <1>2, FFAAssumption
  <2>. HIDE DEF before
  <2>. QED  BY <1>5, <2>1, GreatestKey, FFAAssumption
<1>7. i \in S2 /\ i \in S /\ st[i] <= st[j] /\ E(i) \in S  BY <1>4, <1>6
<1>8. st[j] <= st[E(i)]
  <2>1. SUFFICES ASSUME st[E(i)] < st[j]  PROVE FALSE  BY <1>2, <1>7
  <2>2. nx[E(i)] # Nil
    <3>1. nx[E(i)] = Nil => st[j] <= st[E(i)]  BY <1>7 DEF Ordered
    <3>. QED  BY <1>2, <1>7, <2>1, <3>1
  <2>. DEFINE k == nx[E(i)]
  <2>3. /\ k \in S /\ st[E(i)] < st[k]
        /\ st[j] <= st[E(i)] \/ st[k] <= st[j]
    BY <1>7, <2>2 DEF Ordered
  <2>4. st[k] <= st[j]  BY <1>2, <1>7, <2>1, <2>3
  <2>5. k \in S2
    <3>1. nx2[i] = k /\ nx2[i] # Nil  BY <1>3, <1>7, <2>2
    <3>. QED  BY <1>1, <1>7, <3>1 DEF Ordered
  <2>. HIDE DEF k
  <2>6. k \in before  BY <2>4, <2>5
  <2>7. st[k] <= st[i]  BY <1>6, <2>6
  <2>. QED  BY <1>2, <1>4, <1>7, <2>3, <2>7
<1>9. b < en[E(i)]
  <2>1. CASE j = E(i)  BY <2>1 DEF Within
  <2>2. CASE j # E(i)
    <3>1. en[j] <= st[E(i)] \/ en[E(i)] <= st[j]  BY <1>7, <2>2 DEF Apart
    <3>2. st[j] < en[j] /\ st[E(i)] < en[E(i)]  BY <1>7 DEF Apart
    <3>. QED  BY <1>2, <1>7, <1>8, <3>1, <3>2 DEF Within
  <2>. QED  BY <2>1, <2>2
<1>10. st2[i] <= b /\ b < en2[i]  BY <1>1, <1>2, <1>3, <1>7, <1>9 DEF Within
<1>. QED  BY <1>7, <1>10 DEF Within, gone, st2, en2

\* Bytes that are freed, and do not fail for want of a node, have a chunk then,
\* as have all that had one.
LEMMA AddFreedCovers ==
    ASSUME NEW st, NEW en, NEW nx, NEW F \in SUBSET Node, NEW O \in SUBSET Node,
           NEW addr \in Pool, NEW size \in Nat \ {0}, addr + size <= PoolEnd,
           Fields(st, en, nx),
           Ordered(nx, st, F, free_head), Apart(st, en, F),
           F \union O = {i \in Node : st[i] # NULL}, F \cap O = {},
           Outside(st, en, F, addr, addr + size),
           AddFreedRegionToFreeList(st, en, nx, addr, size), ret' = 0,
           NEW b \in Nat,
           \/ b \in Bytes(addr, addr + size)
           \/ \E i \in F \union O : Within(b, st, en, i)
    PROVE  \E i \in Node : start'[i] # NULL /\ Within(b, start', end', i)
<1>. DEFINE past == addr + size
            hits == {i \in Node : st[i] = past \/ en[i] = addr}
            touch == FirstOn(nx, free_head, hits)
            node == FindFreeNode(st)
            st2 == [st EXCEPT ![node] = addr]
            en2 == [en EXCEPT ![node] = past]
            nx2 == InsertNext(nx, free_head, st, node, addr)
            h2 == InsertHead(nx, free_head, st, node, addr)
<1>1. /\ addr \in Nat /\ past \in Nat /\ addr < past /\ addr # NULL /\ addr < PoolEnd
  BY FFAAssumption DEF Pool, NULL
<1>2. st \in [Node -> Nat] /\ en \in [Node -> Nat]  BY FieldsNat
<1>3. \A i \in F : (past <= st[i] \/ en[i] <= addr) /\ st[i] < en[i] /\ st[i] # NULL
  BY DEF Outside, Apart
<1>4. b \in Bytes(addr, past) => addr <= b /\ b < past  BY <1>1 DEF Bytes
<1>5. \/ touch = Nil
      \/ touch \in F /\ (st[touch] = past \/ en[touch] = addr)
  <2>1. \/ touch = Nil
        \/ touch \in F \cap hits
    <3>. HIDE DEF hits
    <3>. QED  BY OrderedFirstOn
  <2>. QED  BY <2>1
<1>6. CASE touch # Nil
  <2>1. touch \in F /\ (st[touch] = past \/ en[touch] = addr)  BY <1>5, <1>6
  <2>2. IF st[touch] = past THEN start' = [st EXCEPT ![touch] = addr] /\ end' = en
        ELSE start' = st /\ end' = [en EXCEPT ![touch] = past]
    BY <1>6 DEF AddFreedRegionToFreeList
  <2>. HIDE DEF touch
  <2>3. /\ start'[touch] = IF st[touch] = past THEN addr ELSE st[touch]
        /\ end'[touch] = IF st[touch] = past THEN en[touch] ELSE past
        /\ \A i \in Node \ {touch} : start'[i] = st[i] /\ end'[i] = en[i]
    BY <1>2, <2>1, <2>2
  <2>4. CASE b \in Bytes(addr, past)
    <3>1. start'[touch] # NULL /\ start'[touch] <= b /\ b < end'[touch]
      BY <1>1, <1>2, <1>3, <1>4, <2>1, <2>3, <2>4
    <3>. QED  BY <2>1, <3>1 DEF Within
  <2>5. ASSUME NEW i \in F \union O, Within(b, st, en, i)
        PROVE  start'[i] # NULL /\ start'[i] <= b /\ b < end'[i]
    <3>1. st[i] # NULL /\ st[i] <= b /\ b < en[i] /\ i \in Node  BY <2>5 DEF Within
    <3>. QED  BY <1>1, <1>2, <1>3, <2>1, <2>3, <3>1
  <2>. QED  BY <2>4, <2>5 DEF Within
<1>7. CASE touch = Nil
  <2>. DEFINE F1 == F \union {node}
              gone == Absorbed(st2, en2, nx2, h2)
  <2>1. /\ start' = CombinedStart(st2, en2, nx2, h2)
        /\ end' = CombinedEnd(st2, en2, nx2, h2)
        /\ node # Nil
    BY <1>7 DEF AddFreedRegionToFreeList
  <2>2. node \in Node /\ st[node] = NULL /\ node \notin F \union O
    BY <2>1, FreeNodeIsUnused
  <2>. HIDE DEF touch, past, node, hits
  <2>3. /\ st2 \in [Node -> Nat] /\ en2 \in [Node -> Nat]
        /\ st2[node] = addr /\ en2[node] = past
        /\ \A i \in Node \ {node} : st2[i] = st[i] /\ en2[i] = en[i]
    BY <1>1, <1>2, <2>2
  <2>4. \A i \in F : st[i] # addr /\ st2[i] = st[i]
    BY <1>1, <1>2, <1>3, <2>2, <2>3
  <2>5. Ordered(nx2, st2, F1, h2) /\ nx2 \in [Node -> Node \union {Nil}]
    <3>1. nx \in [Node -> Node \union {Nil}]  BY DEF Fields
    <3>2. node \in Node \ F /\ addr \in Nat /\ addr < PoolEnd /\ st2[node] = addr
      BY <1>1, <2>2, <2>3
    <3>. HIDE DEF st2
    <3>. QED  BY <2>4, <3>1, <3>2, OrderedInsert
  <2>. HIDE DEF st2, en2, nx2, h2
  <2>6. Apart(st2, en2, F1)
    <3>1. \A i \in F1 : st2[i] < en2[i]  BY <1>1, <1>3, <2>2, <2>3
    <3>2. \A i, j \in F1 : i # j => en2[i] <= st2[j] \/ en2[j] <= st2[i]
      BY <1>3, <2>2, <2>3 DEF Apart
    <3>. QED  BY <3>1, <3>2 DEF Apart
  <2>. DEFINE cs == CombinedStart(st2, en2, nx2, h2)
              ce == CombinedEnd(st2, en2, nx2, h2)
  <2>7. /\ \A i \in F1 \ gone : cs[i] = st2[i]
        /\ \A i \in Node \ F1 : cs[i] = st2[i] /\ ce[i] = en2[i]
    <3>. DEFINE cn == CombinedNext(st2, en2, nx2, h2)
    <3>. HIDE DEF F1
    <3>1. F1 # {}  BY DEF F1
    <3>2. /\ gone \subseteq F1
          /\ Ordered(cn, cs, F1 \ gone, h2)
          /\ Apart(cs, ce, F1 \ gone)
          /\ \A i \in F1 \ gone : \E e \in F1 : ce[i] = en2[e]
          /\ \A i \in F1 \ gone : cs[i] = st2[i]
          /\ \A i \in gone : cs[i] = NULL /\ ce[i] = NULL
          /\ \A i \in Node \ F1 : cs[i] = st2[i] /\ ce[i] = en2[i] /\ cn[i] = nx2[i]
          /\ cn \in [Node -> Node \union {Nil}]
          /\ \A lo, hi \in Nat : lo < hi /\ Outside(st2, en2, F1, lo, hi)
                                   => Outside(cs, ce, F1 \ gone, lo, hi)
      BY <2>3, <2>5, <2>6, <3>1, Combined
    <3>. QED  BY <3>2
  <2>8. ASSUME NEW j \in F1, Within(b, st2, en2, j)
        PROVE  \E i \in F1 \ gone : Within(b, cs, ce, i)
    <3>. HIDE DEF F1
    <3>1. F1 # {}  BY DEF F1
    <3>. QED  BY <2>3, <2>5, <2>6, <2>8, <3>1, CombinedCovers
  <2>9. \A i \in F1 : st2[i] # NULL /\ i \in Node  BY <1>1, <1>3, <2>2, <2>3
  <2>10. start' = cs /\ end' = ce  BY <2>1
  <2>. HIDE DEF cs, ce, gone
  <2>11. (\E j \in F1 : Within(b, st2, en2, j)) =>
           \E i \in Node : start'[i] # NULL /\ Within(b, start', end', i)
    <3>. HIDE DEF F1
    <3>. QED  BY <2>7, <2>8, <2>9, <2>10
  <2>12. CASE b \in Bytes(addr, past)
    <3>1. Within(b, st2, en2, node)  BY <1>4, <2>3, <2>12 DEF Within
    <3>. QED  BY <2>11, <3>1
  <2>13. ASSUME NEW i \in F, Within(b, st, en, i)  PROVE \E j \in F1 : Within(b, st2, en2, j)
    <3>1. i # node /\ i \in Node  BY <2>2
    <3>. QED  BY <2>3, <2>13, <3>1 DEF Within
  <2>14. ASSUME NEW i \in O, Within(b, st, en, i)
         PROVE  \E j \in Node : start'[j] # NULL /\ Within(b, start', end', j)
    <3>1. i \in Node \ F1 /\ st[i] # NULL  BY <2>2
    <3>2. start'[i] = st[i] /\ end'[i] = en[i]  BY <2>3, <2>7, <2>10, <3>1
    <3>. QED  BY <2>14, <3>1, <3>2 DEF Within
  <2>. QED  BY <2>11, <2>12, <2>13, <2>14 DEF past
<1>. QED  BY <1>6, <1>7

\* Where no byte is ever lost: the caller frees whole regions, so that a node
\* becomes unused with every Free, or there is a node for every byte.
NothingLost == ~PartialFrees \/ PoolEnd - PoolStart <= Len

LEMMA InitCovers == Init => Covered
<1>. SUFFICES ASSUME Init  PROVE Covered
  OBVIOUS
<1>1. 0 \in Node /\ start[0] = PoolStart /\ end[0] = PoolEnd
  BY FFAAssumption DEF Init, Node
<1>. QED  BY <1>1, FFAAssumption DEF Covered, Within, Pool, NULL

LEMMA AllocateCovers ==
    ASSUME IInv, Covered, NEW size \in Nat, Allocate(size)
    PROVE  Covered'
<1>1. PICK F, O \in SUBSET Node : Lists(F, O)  BY DEF IInv, Lists
<1>2. /\ start \in [Node -> Nat] /\ end \in [Node -> Nat] /\ TypeOK
      /\ F \union O = {i \in Node : start[i] # NULL}
  BY <1>1, FieldsNat DEF IInv, TypeOK, Fields, Lists, Shape
<1>3. CASE AllocateRefused(size) \/ MoveNodeFromFreeListToOccupied(size)
  <2>1. start' = start /\ end' = end
    BY <1>3 DEF AllocateRefused, Refused, lists, MoveNodeFromFreeListToOccupied
  <2>. QED  BY <2>1 DEF Covered, Within
<1>4. CASE AllocateMemoryRegionNode(size)
  <2>. DEFINE i == FirstFit(size)
              node == FindFreeNode(start)
              addr == start[i]
  <2>1. /\ i # Nil /\ node # Nil
        /\ start' = [start EXCEPT ![node] = addr, ![i] = addr + size]
        /\ end' = [end EXCEPT ![node] = addr + size]
    BY <1>4 DEF AllocateMemoryRegionNode
  <2>2. i \in F /\ SizeOf(i) >= size  BY <1>1, <2>1, FirstFitIs
  <2>3. node \in Node /\ start[node] = NULL  BY <2>1, FreeNodeIsUnused
  <2>4. i \in Node /\ addr # NULL /\ i # node  BY <1>2, <2>2, <2>3
  <2>. HIDE DEF i, node
  <2>5. /\ start'[i] = addr + size /\ end'[i] = end[i]
        /\ start'[node] = addr /\ end'[node] = addr + size
        /\ \A j \in Node \ {i, node} : start'[j] = start[j] /\ end'[j] = end[j]
    BY <1>2, <2>1, <2>3, <2>4
  <2>6. addr \in Nat /\ addr + size \in Nat /\ addr + size # NULL
    BY <1>2, <2>4 DEF NULL
  <2>7. ASSUME NEW b \in Pool
        PROVE  \E j \in Node : start'[j] # NULL /\ start'[j] <= b /\ b < end'[j]
    <3>1. PICK j \in Node : start[j] # NULL /\ start[j] <= b /\ b < end[j]
      BY DEF Covered, Within
    <3>2. b \in Nat  BY FFAAssumption DEF Pool
    <3>3. CASE j = i /\ b < addr + size
      <4>1. start'[node] # NULL /\ start'[node] <= b /\ b < end'[node]
        BY <2>4, <2>5, <3>1, <3>3
      <4>. QED  BY <2>3, <4>1
    <3>4. CASE j = i /\ ~(b < addr + size)
      <4>1. start'[i] # NULL /\ start'[i] <= b /\ b < end'[i]
        BY <2>5, <2>6, <3>1, <3>2, <3>4
      <4>. QED  BY <2>4, <4>1
    <3>5. CASE j # i
      <4>1. j # node  BY <2>3, <3>1
      <4>. QED  BY <2>5, <3>1, <3>5, <4>1
    <3>. QED  BY <3>3, <3>4, <3>5
  <2>. QED  BY <2>7 DEF Covered, Within
<1>. QED  BY <1>3, <1>4 DEF Allocate

LEMMA FreeWholeCovers ==
    ASSUME IInv, Covered, NEW addr \in Pool, NEW size \in Nat, MayFree(addr, size),
           FreeOccupiedRegionNode(FindOccupiedMemoryRegionNode(addr), addr, size)
    PROVE  Covered'
<1>. DEFINE node == FindOccupiedMemoryRegionNode(addr)
            st == [start EXCEPT ![node] = NULL]
            en == [end EXCEPT ![node] = NULL]
            nx == UnlinkNext(next, occupied_head, node)
            past == addr + size
<1>0. TypeOK  BY DEF IInv
<1>1. PICK F, O \in SUBSET Node : Lists(F, O)  BY DEF IInv, Lists
<1>2. /\ node # Nil /\ SizeOf(node) = size
      /\ AddFreedRegionToFreeList(st, en, nx, addr, size)
  BY DEF FreeOccupiedRegionNode
<1>3. ret' = 0  BY <1>0, <1>1, FreeWholeKeeps
<1>4. node \in O /\ start[node] = addr /\ size # 0
  BY <1>0, <1>1, <1>2, CallerFreesFromStart
<1>. HIDE DEF node
<1>5. /\ Ordered(next, start, F, free_head) /\ Ordered(next, start, O, occupied_head)
      /\ F \cap O = {} /\ F \union O = {j \in Node : start[j] # NULL}
      /\ Apart(start, end, F \union O)
  BY <1>1 DEF Lists, Shape
<1>6. /\ start \in [Node -> Nat] /\ end \in [Node -> Nat]
      /\ \A j \in Node : start[j] < PoolEnd /\ end[j] <= PoolEnd
  BY <1>0, FieldsNat DEF TypeOK, Fields
<1>7. past = end[node] /\ node \in Node /\ node \notin F /\ size \in Nat \ {0}
      /\ past <= PoolEnd
  BY <1>2, <1>4, <1>5, <1>6 DEF SizeOf
<1>8. /\ \A j \in Node \ {node} : st[j] = start[j] /\ en[j] = end[j]
      /\ st[node] = NULL /\ en[node] = NULL
  BY <1>6, <1>7
<1>9. nx \in [Node -> Node \union {Nil}] /\ \A j \in Node \ O : nx[j] = next[j]
  <2>1. next \in [Node -> Node \union {Nil}]  BY <1>0 DEF TypeOK
  <2>. DEFINE hd == UnlinkHead(next, occupied_head, node)
  <2>2. /\ Ordered(nx, start, O \ {node}, hd)
        /\ nx \in [Node -> Node \union {Nil}]
        /\ \A j \in Node \ O : nx[j] = next[j]
        /\ hd \in Node \union {Nil}
    BY <1>4, <1>5, <2>1, OrderedUnlink
  <2>. QED  BY <2>2
<1>. HIDE DEF nx
<1>10. Fields(st, en, nx)  BY <1>0, <1>7, <1>9 DEF TypeOK, Fields
<1>. HIDE DEF st, en
<1>11. Ordered(nx, st, F, free_head)
  <2>1. \A j \in F : nx[j] = next[j] /\ st[j] = start[j]
    BY <1>5, <1>7, <1>8, <1>9
  <2>. QED  BY <1>5, <2>1, OrderedFrame
<1>12. Apart(st, en, F)  BY <1>5, <1>7, <1>8 DEF Apart
<1>13. F \union (O \ {node}) = {j \in Node : st[j] # NULL} /\ F \cap (O \ {node}) = {}
  BY <1>5, <1>7, <1>8
<1>14. Outside(st, en, F, addr, past)
  BY <1>4, <1>5, <1>7, <1>8 DEF Apart, Outside
<1>15. ASSUME NEW b \in Pool
       PROVE  \E i \in Node : start'[i] # NULL /\ Within(b, start', end', i)
  <2>1. b \in Nat  BY FFAAssumption DEF Pool
  <2>2. PICK j \in Node : start[j] # NULL /\ Within(b, start, end, j)  BY DEF Covered
  <2>3. \/ b \in Bytes(addr, past)
        \/ \E i \in F \union (O \ {node}) : Within(b, st, en, i)
    <3>1. CASE j = node  BY <1>4, <1>6, <1>7, <2>1, <2>2, <3>1 DEF Within, Bytes
    <3>2. CASE j # node
      <4>1. st[j] = start[j] /\ en[j] = end[j]  BY <1>8, <3>2
      <4>2. j \in F \union (O \ {node})  BY <1>13, <2>2, <4>1
      <4>. QED  BY <2>2, <4>1, <4>2 DEF Within
    <3>. QED  BY <3>1, <3>2
  <2>4. O \ {node} \in SUBSET Node  OBVIOUS
  <2>. QED
    BY <1>2, <1>3, <1>7, <1>10, <1>11, <1>12, <1>13, <1>14, <2>1, <2>3, <2>4,
       AddFreedCovers
<1>. QED  BY <1>15 DEF Covered, Within

\* A node for every byte: each node in use has a byte of its own, and the byte
\* that is freed is none of these.
LEMMA NodeToSpare ==
    ASSUME PoolEnd - PoolStart <= Len,
           NEW st \in [Node -> {NULL} \union Pool],
           \A i, j \in Node : i # j /\ st[i] # NULL => st[i] # st[j],
           NEW addr \in Pool, \A i \in Node : st[i] # addr
    PROVE  FindFreeNode(st) # Nil
<1>. SUFFICES ASSUME FindFreeNode(st) = Nil  PROVE FALSE
  OBVIOUS
<1>1. \A i \in Node : st[i] # NULL  BY FreeNodeIsUnused, NilNotNode
<1>. DEFINE Rest == Pool \ {addr}
<1>2. IsFiniteSet(Pool) /\ Cardinality(Pool) = PoolEnd - PoolStart
  <2>. DEFINE lo == PoolStart
              hi == PoolEnd - 1
  <2>1. /\ lo \in Int /\ hi \in Int /\ ~(lo > hi)
        /\ hi - lo + 1 = PoolEnd - PoolStart /\ Pool = lo .. hi
    BY FFAAssumption DEF Pool
  <2>. HIDE DEF lo, hi
  <2>. QED  BY <2>1, FS_Interval
<1>3. IsFiniteSet(Rest) /\ Cardinality(Rest) = PoolEnd - PoolStart - 1
  BY <1>2, FS_RemoveElement
<1>4. st \in Injection(Node, Rest)
  <2>1. \A i \in Node : st[i] \in Rest  BY <1>1
  <2>2. st \in [Node -> Rest]  BY <2>1
  <2>3. IsInjective(st)  BY <1>1 DEF IsInjective
  <2>. QED  BY <2>2, <2>3 DEF Injection
<1>5. Cardinality(Node) = Len
  <2>. DEFINE lo == 0
              hi == Len - 1
  <2>1. /\ lo \in Int /\ hi \in Int /\ ~(lo > hi) /\ hi - lo + 1 = Len
        /\ Node = lo .. hi
    BY FFAAssumption DEF Node
  <2>. HIDE DEF lo, hi
  <2>. QED  BY <2>1, FS_Interval
<1>. HIDE DEF Rest
<1>6. Cardinality(Node) <= Cardinality(Rest)  BY <1>3, <1>4, FS_Injection
<1>. QED  BY <1>3, <1>5, <1>6, FFAAssumption

LEMMA FreePartCovers ==
    ASSUME NothingLost, IInv, Covered,
           NEW addr \in Pool, NEW size \in Nat, MayFree(addr, size),
           FreePart(FindOccupiedMemoryRegionNode(addr), addr, size)
    PROVE  Covered' /\ ret' = 0
<1>. DEFINE node == FindOccupiedMemoryRegionNode(addr)
            st == [start EXCEPT ![node] = @ + size]
            past == addr + size
<1>0. TypeOK  BY DEF IInv
<1>1. PICK F, O \in SUBSET Node : Lists(F, O)  BY DEF IInv, Lists
<1>2. /\ node # Nil /\ SizeOf(node) > size
      /\ AddFreedRegionToFreeList(st, end, next, addr, size)
  BY DEF FreePart
<1>3. node \in O /\ start[node] = addr /\ size # 0 /\ PartialFrees
  BY <1>0, <1>1, <1>2, CallerFreesFromStart
<1>. HIDE DEF node
<1>4. /\ Ordered(next, start, F, free_head)
      /\ F \cap O = {} /\ F \union O = {j \in Node : start[j] # NULL}
      /\ Apart(start, end, F \union O)
  BY <1>1 DEF Lists, Shape
<1>5. /\ start \in [Node -> Nat] /\ end \in [Node -> Nat]
      /\ \A j \in Node : start[j] < PoolEnd /\ end[j] <= PoolEnd
  BY <1>0, FieldsNat DEF TypeOK, Fields
<1>6. /\ past < end[node] /\ node \in Node /\ node \notin F /\ size \in Nat \ {0}
      /\ addr < past /\ past \in Nat /\ addr \in Nat /\ past <= PoolEnd
  <2>1. node \in Node /\ node \notin F  BY <1>3, <1>4
  <2>2. start[node] \in Nat /\ end[node] \in Nat /\ end[node] <= PoolEnd
    BY <1>5, <2>1
  <2>3. end[node] - start[node] > size  BY <1>2 DEF SizeOf
  <2>. QED  BY <1>3, <2>1, <2>2, <2>3, FFAAssumption
<1>7. /\ \A j \in Node \ {node} : st[j] = start[j]
      /\ st[node] = past
  BY <1>3, <1>5, <1>6
<1>8. past \in Pool /\ past # NULL
  BY <1>5, <1>6, FFAAssumption DEF Pool, NULL
<1>9. Fields(st, end, next)  BY <1>0, <1>3, <1>6, <1>8 DEF TypeOK, Fields
<1>. HIDE DEF st
<1>10. Ordered(next, st, F, free_head)
  <2>1. \A j \in F : next[j] = next[j] /\ st[j] = start[j]  BY <1>4, <1>6, <1>7
  <2>. QED  BY <1>4, <2>1, OrderedFrame
<1>11. Apart(st, end, F)  BY <1>4, <1>6, <1>7 DEF Apart
<1>12. F \union O = {j \in Node : st[j] # NULL}  BY <1>3, <1>4, <1>6, <1>7, <1>8
<1>13. Outside(st, end, F, addr, past)
  <2>1. \A j \in F : end[j] <= addr \/ end[node] <= start[j]
    BY <1>3, <1>4, <1>6 DEF Apart
  <2>. QED  BY <1>4, <1>5, <1>6, <1>7, <2>1 DEF Outside
<1>14. ret' = 0
  <2>1. \A i, j \in Node : i # j /\ st[i] # NULL => st[i] # st[j]
    <3>1. \A i, j \in F \union O : i # j => start[i] # start[j]
      BY <1>4, <1>5 DEF Apart
    <3>2. \A i \in (F \union O) \ {node} : start[i] # past
      <4>1. TAKE i \in (F \union O) \ {node}
      <4>2. end[i] <= addr \/ end[node] <= start[i]  BY <1>3, <1>4 DEF Apart
      <4>3. start[i] < end[i] /\ i \in Node  BY <1>4 DEF Apart
      <4>. QED  BY <1>5, <1>6, <4>2, <4>3
    <3>3. TAKE i, j \in Node
    <3>4. HAVE i # j /\ st[i] # NULL
    <3>5. SUFFICES ASSUME st[i] = st[j]  PROVE FALSE  OBVIOUS
    <3>6. i \in F \union O /\ j \in F \union O  BY <1>12, <3>4, <3>5
    <3>7. CASE i # node /\ j # node  BY <1>7, <3>1, <3>4, <3>5, <3>6, <3>7
    <3>8. CASE i = node  BY <1>7, <3>2, <3>4, <3>5, <3>6, <3>8
    <3>9. CASE j = node  BY <1>7, <3>2, <3>4, <3>5, <3>6, <3>9
    <3>. QED  BY <3>7, <3>8, <3>9
  <2>2. \A i \in Node : st[i] # addr
    <3>1. TAKE i \in Node
    <3>2. CASE i = node  BY <1>6, <1>7, <3>2
    <3>3. CASE i # node /\ start[i] = addr
      <4>1. i \in F \union O  BY <1>3, <1>4, <3>3
      <4>. QED  BY <1>3, <1>4, <1>5, <3>3, <4>1 DEF Apart
    <3>4. CASE i # node /\ start[i] # addr  BY <1>7, <3>4
    <3>. QED  BY <3>2, <3>3, <3>4
  <2>3. PoolEnd - PoolStart <= Len  BY <1>3 DEF NothingLost
  <2>4. st \in [Node -> {NULL} \union Pool]  BY <1>9 DEF Fields
  <2>5. FindFreeNode(st) # Nil  BY <2>1, <2>2, <2>3, <2>4, NodeToSpare
  <2>. QED  BY <1>2, <2>5 DEF AddFreedRegionToFreeList
<1>15. ASSUME NEW b \in Pool
       PROVE  \E i \in Node : start'[i] # NULL /\ Within(b, start', end', i)
  <2>1. b \in Nat  BY FFAAssumption DEF Pool
  <2>2. PICK j \in Node : start[j] # NULL /\ Within(b, start, end, j)  BY DEF Covered
  <2>3. \/ b \in Bytes(addr, past)
        \/ \E i \in F \union O : Within(b, st, end, i)
    <3>1. j \in F \union O  BY <1>4, <2>2
    <3>2. CASE j = node
      <4>1. addr <= b /\ b < end[node]  BY <1>3, <2>2, <3>2 DEF Within
      <4>2. b < past => b \in Bytes(addr, past)  BY <1>6, <2>1, <4>1 DEF Bytes
      <4>3. ~(b < past) => Within(b, st, end, node)  BY <1>6, <1>7, <2>1, <4>1 DEF Within
      <4>. QED  BY <3>1, <3>2, <4>2, <4>3
    <3>3. CASE j # node  BY <1>7, <2>2, <3>1, <3>3 DEF Within
    <3>. QED  BY <3>2, <3>3
  <2>. QED
    BY <1>2, <1>4, <1>6, <1>9, <1>10, <1>11, <1>12, <1>13, <1>14, <2>1, <2>3,
       AddFreedCovers
<1>16. Covered'  BY <1>15 DEF Covered, Within
<1>. QED  BY <1>14, <1>16

LEMMA StepCovers ==
    ASSUME NothingLost, IInv, Covered, [Next]_vars
    PROVE  Covered'
<1>1. ASSUME NEW size \in Sizes, Allocate(size)  PROVE Covered'
  BY <1>1, AllocateCovers, FFAAssumption
<1>2. ASSUME NEW addr \in Pool, NEW size \in Sizes, MayFree(addr, size), Free(addr, size)
      PROVE  Covered'
  <2>. DEFINE node == FindOccupiedMemoryRegionNode(addr)
  <2>1. size \in Nat  BY FFAAssumption
  <2>2. CASE FreeUnknown(node) \/ FreeTooMuch(node, size)
    <3>1. start' = start /\ end' = end  BY <2>2 DEF FreeUnknown, FreeTooMuch, lists
    <3>. QED  BY <3>1 DEF Covered, Within
  <2>3. CASE FreeOccupiedRegionNode(node, addr, size)
    BY <1>2, <2>1, <2>3, FreeWholeCovers
  <2>4. CASE FreePart(node, addr, size)  BY <1>2, <2>1, <2>4, FreePartCovers
  <2>. QED  BY <1>2, <2>2, <2>3, <2>4 DEF Free
<1>3. CASE UNCHANGED vars  BY <1>3 DEF vars, Covered, Within
<1>. QED  BY <1>1, <1>2, <1>3 DEF Next

-----------------------------------------------------------------------------
(* Theorems.                                                               *)

\* The bytes of the chunks are those of the pool, the occupied ones apart from
\* the free ones.
LEMMA PoolIsShared ==
    ASSUME TypeOK, NEW F \in SUBSET Node, NEW O \in SUBSET Node, Lists(F, O), Covered
    PROVE  /\ MapThenSumSet(SizeOf, F) = Cardinality(BytesOf(F))
           /\ MapThenSumSet(SizeOf, O) = Cardinality(BytesOf(O))
           /\ IsFiniteSet(BytesOf(F)) /\ IsFiniteSet(BytesOf(O))
           /\ BytesOf(F) \union BytesOf(O) = Pool
           /\ BytesOf(F) \cap BytesOf(O) = {}
<1>1. /\ start \in [Node -> Nat] /\ end \in [Node -> Nat]
      /\ \A j \in Node : start[j] < PoolEnd /\ end[j] <= PoolEnd
  BY FieldsNat DEF TypeOK, Fields
<1>2. /\ F \cap O = {} /\ F \union O = {j \in Node : start[j] # NULL}
      /\ Apart(start, end, F \union O)
  BY DEF Lists, Shape
<1>3. Apart(start, end, F) /\ Apart(start, end, O)  BY <1>2 DEF Apart
<1>4. \A b, i : i \in Node => (b \in Bytes(start[i], end[i]) <=>
                                 b \in Int /\ start[i] <= b /\ b < end[i])
  BY <1>1 DEF Bytes
<1>5. ASSUME NEW b \in BytesOf(F) \union BytesOf(O)  PROVE b \in Pool
  <2>1. PICK i \in F \union O : b \in Bytes(start[i], end[i])  BY DEF BytesOf
  <2>2. i \in Node /\ start[i] \in Pool  BY <1>2 DEF TypeOK
  <2>. QED  BY <1>1, <1>4, <2>1, <2>2, FFAAssumption DEF Pool
<1>6. ASSUME NEW b \in Pool  PROVE b \in BytesOf(F) \union BytesOf(O)
  <2>1. PICK i \in Node : start[i] # NULL /\ start[i] <= b /\ b < end[i]
    BY DEF Covered, Within
  <2>2. b \in Bytes(start[i], end[i])  BY <1>4, <2>1, FFAAssumption DEF Pool
  <2>. QED  BY <1>2, <2>1, <2>2 DEF BytesOf
<1>7. BytesOf(F) \cap BytesOf(O) = {}
  <2>1. SUFFICES ASSUME NEW i \in F, NEW j \in O, NEW b \in Bytes(start[i], end[i]),
                        b \in Bytes(start[j], end[j])
                 PROVE  FALSE
    BY DEF BytesOf
  <2>2. i # j /\ (end[i] <= start[j] \/ end[j] <= start[i])  BY <1>2 DEF Apart
  <2>3. start[i] <= b /\ b < end[i] /\ start[j] <= b /\ b < end[j] /\ b \in Int
    BY <1>4, <2>1
  <2>4. start[i] \in Nat /\ end[i] \in Nat /\ start[j] \in Nat /\ end[j] \in Nat  BY <1>1
  <2>. QED  BY <2>2, <2>3, <2>4
<1>8. \A j \in Node : end[j] <= PoolEnd  BY <1>1
<1>. QED  BY <1>1, <1>3, <1>5, <1>6, <1>7, <1>8, SizesAddUp, BytesFinite

LEMMA PoolCardinality == IsFiniteSet(Pool) /\ Cardinality(Pool) = PoolEnd - PoolStart
<1>. DEFINE lo == PoolStart
            hi == PoolEnd - 1
<1>1. /\ lo \in Int /\ hi \in Int /\ ~(lo > hi)
      /\ hi - lo + 1 = PoolEnd - PoolStart /\ Pool = lo .. hi
  BY FFAAssumption DEF Pool
<1>. HIDE DEF lo, hi
<1>. QED  BY <1>1, FS_Interval

\* The assertion of RUN_VALIDATION holds after every call, for a caller that
\* frees whole regions and for any caller with a node for every byte.
THEOREM ValidationSucceeds == NothingLost => (Spec => []RunValidation)
<1>. SUFFICES ASSUME NothingLost  PROVE Spec => []RunValidation
  OBVIOUS
<1>1. ASSUME IInv, Covered  PROVE RunValidation
  <2>1. PICK F, O \in SUBSET Node : Lists(F, O)  BY <1>1 DEF IInv, Lists
  <2>2. FreeNodes = F /\ OccupiedNodes = O
    BY <2>1, OrderedList DEF Lists, Shape, FreeNodes, OccupiedNodes
  <2>3. /\ F \cap O = {} /\ F \subseteq Node /\ O \subseteq Node
        /\ Apart(start, end, F \union O)
        /\ start \in [Node -> Nat] /\ end \in [Node -> Nat]
    BY <1>1, <2>1, FieldsNat DEF Lists, Shape, IInv, TypeOK, Fields
  <2>4. ASSUME NEW i \in F \union O, NEW j \in F \union O, i # j  PROVE ~Overlaps(i, j)
    <3>1. /\ end[i] <= start[j] \/ end[j] <= start[i]
          /\ start[i] < end[i] /\ start[j] < end[j]
      BY <2>3, <2>4 DEF Apart
    <3>2. /\ start[i] \in Nat /\ end[i] \in Nat /\ start[j] \in Nat /\ end[j] \in Nat
      BY <2>3
    <3>. QED  BY <3>1, <3>2 DEF Overlaps
  <2>5. /\ MapThenSumSet(SizeOf, F) = Cardinality(BytesOf(F))
        /\ MapThenSumSet(SizeOf, O) = Cardinality(BytesOf(O))
        /\ IsFiniteSet(BytesOf(F)) /\ IsFiniteSet(BytesOf(O))
        /\ BytesOf(F) \union BytesOf(O) = Pool
        /\ BytesOf(F) \cap BytesOf(O) = {}
    BY <1>1, <2>1, PoolIsShared DEF IInv
  <2>6. Cardinality(BytesOf(O)) + Cardinality(BytesOf(F)) = PoolEnd - PoolStart
    <3>1. Cardinality(BytesOf(F) \union BytesOf(O))
            = Cardinality(BytesOf(F)) + Cardinality(BytesOf(O)) - Cardinality({})
      BY <2>5, FS_Union
    <3>2. Cardinality({}) = 0 /\ Cardinality(BytesOf(F)) \in Nat
          /\ Cardinality(BytesOf(O)) \in Nat
      BY <2>5, FS_EmptySet, FS_CardinalityType
    <3>3. Cardinality(BytesOf(F) \union BytesOf(O)) = PoolEnd - PoolStart
      BY <2>5, PoolCardinality
    <3>. DEFINE nf == Cardinality(BytesOf(F))
                no == Cardinality(BytesOf(O))
    <3>4. nf \in Nat /\ no \in Nat /\ PoolEnd - PoolStart = nf + no - 0
      BY <3>1, <3>2, <3>3
    <3>. HIDE DEF nf, no
    <3>5. no + nf = PoolEnd - PoolStart  BY <3>4, FFAAssumption
    <3>. QED  BY <3>5 DEF nf, no
  <2>7. MapThenSumSet(SizeOf, OccupiedNodes) + GetFreeSpace = PoolEnd - PoolStart
    <3>1. GetFreeSpace = MapThenSumSet(SizeOf, F)  BY <2>2 DEF GetFreeSpace
    <3>2. MapThenSumSet(SizeOf, OccupiedNodes) = MapThenSumSet(SizeOf, O)  BY <2>2
    <3>. QED  BY <2>5, <2>6, <3>1, <3>2
  <2>8. /\ \A i \in O, j \in O : i # j => ~Overlaps(i, j)
        /\ \A i \in O, j \in F : ~Overlaps(i, j)
        /\ \A i \in F, j \in F : i # j => ~Overlaps(i, j)
    BY <2>3, <2>4
  <2>. QED  BY <2>2, <2>7, <2>8 DEF RunValidation, IsValidDataStructure
<1>2. IInv /\ Covered /\ [Next]_vars => Covered'  BY StepCovers
<1>. QED  BY <1>1, <1>2, InitCovers, Invariance, PTL DEF Spec

\* Where nothing is lost a Free that fails has changed nothing: in particular it
\* never runs out of nodes half way.
THEOREM FreesAreAtomic == NothingLost => (Spec => FailedFreeChangesNothing)
<1> SUFFICES ASSUME NothingLost  PROVE Spec => FailedFreeChangesNothing
  OBVIOUS
<1>1. ASSUME IInv, Covered, Next, ret' \in {-1, -2}  PROVE UNCHANGED lists
  <2>1. PICK F, O \in SUBSET Node : Lists(F, O)  BY <1>1 DEF IInv, Lists
  <2>2. /\ start \in [Node -> Nat] /\ end \in [Node -> Nat] /\ TypeOK
    BY <1>1, FieldsNat DEF IInv, TypeOK, Fields
  <2>3. ASSUME NEW size \in Sizes, Allocate(size)  PROVE UNCHANGED lists
    <3>1. size \in Nat  BY FFAAssumption
    <3>2. CASE AllocateRefused(size)
      BY <3>2 DEF AllocateRefused, Refused
    <3>3. CASE MoveNodeFromFreeListToOccupied(size) \/ AllocateMemoryRegionNode(size)
      <4>1. FirstFit(size) # Nil /\ ret' = start[FirstFit(size)]
        BY <3>3 DEF MoveNodeFromFreeListToOccupied, AllocateMemoryRegionNode, Granted
      <4>2. FirstFit(size) \in Node
        BY <2>1, <3>1, <4>1, FirstFitIs DEF Lists
      <4>. QED  BY <1>1, <2>2, <4>1, <4>2
    <3>. QED  BY <2>3, <3>2, <3>3 DEF Allocate
  <2>4. ASSUME NEW addr \in Pool, NEW size \in Sizes, MayFree(addr, size), Free(addr, size)
        PROVE  UNCHANGED lists
    <3> DEFINE node == FindOccupiedMemoryRegionNode(addr)
    <3>1. size \in Nat  BY FFAAssumption
    <3>2. CASE FreeUnknown(node)  BY <3>2 DEF FreeUnknown
    <3>3. CASE FreeTooMuch(node, size)  BY <3>3 DEF FreeTooMuch
    <3>4. CASE FreeOccupiedRegionNode(node, addr, size)
      <4> DEFINE st == [start EXCEPT ![node] = NULL]
      <4>1. node # Nil  BY <3>4 DEF FreeOccupiedRegionNode
      <4>2. node \in Node
        BY <2>1, <2>2, <2>4, <3>1, <4>1, CallerFreesFromStart DEF Lists
      <4>3. st[node] = NULL  BY <2>2, <4>2
      <4>4. FindFreeNode(st) # Nil
        BY <4>2, <4>3, FreeNodeIsUnused, NilNotNode
      <4>5. ret' = 0
        BY <1>1, <3>4, <4>4 DEF FreeOccupiedRegionNode, AddFreedRegionToFreeList
      <4>. QED  BY <1>1, <4>5
    <3>5. CASE FreePart(node, addr, size)
      <4>1. ret' = 0  BY <1>1, <2>4, <3>1, <3>5, FreePartCovers
      <4>. QED  BY <1>1, <4>1
    <3>. QED  BY <2>4, <3>2, <3>3, <3>4, <3>5 DEF Free
  <2>. QED  BY <1>1, <2>3, <2>4 DEF Next
<1>2. IInv /\ Covered /\ [Next]_vars => [ret' \in {-1, -2} => UNCHANGED lists]_vars
  BY <1>1
<1>3. IInv /\ Covered /\ [Next]_vars => Covered'  BY StepCovers
<1>. QED  BY <1>2, <1>3, InitCovers, Invariance, PTL DEF Spec, FailedFreeChangesNothing

\* A call is a step of Heap or leaves the caller's view alone, and every region
\* of the caller keeps its node.
LEMMA StepRefines ==
    ASSUME NothingLost, IInv, IInv', Covered, Backed, [Next]_vars
    PROVE  Backed' /\ [heap!Next]_<<held, ret>>
<1>1. CASE UNCHANGED vars  BY <1>1 DEF vars, Backed
<1>2. ASSUME NEW size \in Sizes, Allocate(size)
      PROVE  Backed' /\ heap!Next
  BY <1>2, AllocateRefines DEF heap!Next
<1>3. ASSUME NEW addr \in Pool, NEW size \in Sizes, MayFree(addr, size), Free(addr, size)
      PROVE  Backed' /\ heap!Next
  <2>1. size \in Sizes \ {0} /\ addr \in heap!Pool
    BY <1>3 DEF MayFree, Pool, heap!Pool
  <2>2. FreePart(FindOccupiedMemoryRegionNode(addr), addr, size) => ret' = 0
    BY <1>3, FreePartCovers, FFAAssumption
  <2>. QED  BY <1>3, <2>1, <2>2, FreeRefines DEF heap!Next
<1>. QED  BY <1>1, <1>2, <1>3 DEF Next

LEMMA InitBacked == Init => Backed /\ heap!Init
BY DEF Init, Backed, heap!Init

\* Where nothing is lost the allocator is a Heap: no region handed out overlaps
\* another one, and freeing a region, or a prefix of one, succeeds.
THEOREM AllocatorIsHeap == NothingLost => (Spec => HeapSpec)
<1>. SUFFICES ASSUME NothingLost  PROVE Spec => HeapSpec
  OBVIOUS
<1>1. Init => heap!Init  BY InitBacked
<1>2. IInv /\ IInv' /\ Covered /\ Backed /\ [Next]_vars
        => Backed' /\ [heap!Next]_<<held, ret>>
  BY StepRefines
<1>3. IInv /\ Covered /\ [Next]_vars => Covered'  BY StepCovers
<1>4. Init => Backed  BY InitBacked
<1>. QED  BY <1>1, <1>2, <1>3, <1>4, InitCovers, Invariance, PTL DEF Spec, HeapSpec, heap!Spec

\* Where nothing is lost allocator and caller agree: the occupied chunks are
\* the caller's regions, everything else is free, and GetFreeSpace and
\* GetTopAddress tell just that.
THEOREM AllocatorAgrees == NothingLost => (Spec => []AgreesWithCaller)
<1>. SUFFICES ASSUME NothingLost  PROVE Spec => []AgreesWithCaller
  OBVIOUS
<1>1. ASSUME IInv, Covered, Backed  PROVE AgreesWithCaller
  <2>1. PICK F, O \in SUBSET Node : Lists(F, O)  BY <1>1 DEF IInv, Lists
  <2>2. FreeNodes = F /\ OccupiedNodes = O
    BY <2>1, OrderedList DEF Lists, Shape, FreeNodes, OccupiedNodes
  <2>3. /\ TypeOK /\ start \in [Node -> Nat] /\ end \in [Node -> Nat]
        /\ Apart(start, end, F \union O) /\ Caller(start, end, held, F, O)
    BY <1>1, <2>1, FieldsNat DEF Lists, Shape, IInv, TypeOK, Fields
  <2>4. \A r \in held : \E j \in O : start[j] = r.lo /\ end[j] = r.hi
    BY <1>1, <2>1, <2>3, BackedByOccupied
  <2>5. \A i \in O : \E r \in held : r.lo = start[i] /\ r.hi = end[i]
    <3>1. TAKE i \in O
    <3>2. PICK r \in held : r.lo <= start[i] /\ end[i] = r.hi  BY <2>3 DEF Caller
    <3>3. PICK j \in O : start[j] = r.lo /\ end[j] = r.hi  BY <2>4
    <3>4. i = j
      <4>1. start[i] \in Nat /\ end[i] \in Nat /\ start[j] \in Nat /\ end[j] \in Nat
            /\ start[i] < end[i] /\ start[j] < end[j]
            /\ (i # j => end[i] <= start[j] \/ end[j] <= start[i])
        BY <2>3 DEF Apart
      <4>. QED  BY <3>2, <3>3, <4>1
    <3>. QED  BY <3>2, <3>3, <3>4
  <2>6. \A r \in held : r = [lo |-> r.lo, hi |-> r.hi]
    BY <2>3 DEF TypeOK, Region
  <2>7. {[lo |-> start[i], hi |-> end[i]] : i \in O} = held
    <3>1. ASSUME NEW i \in O  PROVE [lo |-> start[i], hi |-> end[i]] \in held
      BY <2>5, <2>6
    <3>2. ASSUME NEW r \in held  PROVE \E i \in O : r = [lo |-> start[i], hi |-> end[i]]
      BY <2>4, <2>6
    <3>. QED  BY <3>1, <3>2
  <2>8. {end[i] : i \in O} = {r.hi : r \in held}
    BY <2>4, <2>5
  <2>9. /\ MapThenSumSet(SizeOf, F) = Cardinality(BytesOf(F))
        /\ BytesOf(F) \union BytesOf(O) = Pool
        /\ BytesOf(F) \cap BytesOf(O) = {}
    BY <2>1, <2>3, <1>1, PoolIsShared
  <2>10. BytesOf(F) = {b \in Pool : \A r \in held : b \notin Bytes(r.lo, r.hi)}
    <3>1. ASSUME NEW b \in Pool
          PROVE  b \in BytesOf(O) <=> \E r \in held : b \in Bytes(r.lo, r.hi)
      <4>1. b \in BytesOf(O) <=> \E i \in O : b \in Bytes(start[i], end[i])
        BY DEF BytesOf
      <4>. QED  BY <2>4, <2>5, <4>1
    <3>. QED  BY <2>9, <3>1
  <2>11. GetFreeSpace
           = Cardinality({b \in Pool : \A r \in held : b \notin Bytes(r.lo, r.hi)})
    <3>1. GetFreeSpace = MapThenSumSet(SizeOf, F)  BY <2>2 DEF GetFreeSpace
    <3>. QED  BY <2>9, <2>10, <3>1
  <2>12. GetTopAddress = Max({PoolStart} \union {r.hi : r \in held})
    BY <2>2, <2>8 DEF GetTopAddress
  <2>. QED  BY <2>2, <2>7, <2>11, <2>12 DEF AgreesWithCaller
<1>2. IInv /\ Covered /\ [Next]_vars => Covered'  BY StepCovers
<1>3. IInv /\ IInv' /\ Covered /\ Backed /\ [Next]_vars => Backed'  BY StepRefines
<1>4. Init => Backed  BY InitBacked
<1>. QED  BY <1>1, <1>2, <1>3, <1>4, InitCovers, Invariance, PTL DEF Spec
=============================================================================
