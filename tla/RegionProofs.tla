----------------------------- MODULE RegionProofs -----------------------------
(***************************************************************************)
(* MosaicRegion implements Region: intervals, parts and reservation are    *)
(* what its user need not know of.                                         *)
(***************************************************************************)
EXTENDS MosaicRegionProofs

-----------------------------------------------------------------------------
(* The list of intervals says of each offset what the layout says.         *)

LEMMA LayoutPage ==
    ASSUME layout \in Layouts, Partition(region_intervals, layout),
           NEW k \in DOMAIN region_intervals,
           NEW offset \in Nat, In(offset, region_intervals[k])
    PROVE  LET i == region_intervals[k]
           IN  /\ region!PageSizeOf(offset) = i.page
               /\ i.page = BASE_4KB => region!FirstPage(offset) = 0
               /\ i.page # BASE_4KB => region!FirstPage(offset) = i.lo
<1>. DEFINE i == region_intervals[k]
            one == Interval(layout.start_1gb, layout.end_1gb, HUGE_1GB)
            two == Interval(layout.start_2mb, layout.end_2mb, HUGE_2MB)
<1>1. /\ Fits(region_intervals, layout) /\ IntervalOf(i, layout)
      /\ HasHuge(region_intervals, layout)
  BY DEF Partition, Fits
<1>2. /\ i.lo \in Nat /\ i.hi \in Nat /\ i.lo <= offset /\ offset < i.hi
      /\ i.page \in PageSize
  BY <1>1, IntervalFields DEF In
<1>3. /\ layout.start_1gb \in Nat /\ layout.end_1gb \in Nat
      /\ layout.start_2mb \in Nat /\ layout.end_2mb \in Nat
  BY LayoutNat
<1>4. ASSUME region!In1GB(offset)  PROVE i = one
  <2>1. layout.start_1gb <= offset /\ offset < layout.end_1gb  BY <1>4 DEF region!In1GB
  <2>2. Size1GB(layout) > 0  BY <1>3, <2>1 DEF Size1GB
  <2>3. PICK j \in DOMAIN region_intervals : region_intervals[j] = one
    BY <1>1, <2>2 DEF HasHuge
  <2>4. In(offset, region_intervals[j])  BY <1>3, <2>1, <2>3 DEF In, Interval
  <2>. QED  BY <2>3, <2>4, InOne
<1>5. ASSUME region!In2MB(offset)  PROVE i = two
  <2>1. layout.start_2mb <= offset /\ offset < layout.end_2mb  BY <1>5 DEF region!In2MB
  <2>2. Size2MB(layout) > 0  BY <1>3, <2>1 DEF Size2MB
  <2>3. PICK j \in DOMAIN region_intervals : region_intervals[j] = two
    BY <1>1, <2>2 DEF HasHuge
  <2>4. In(offset, region_intervals[j])  BY <1>3, <2>1, <2>3 DEF In, Interval
  <2>. QED  BY <2>3, <2>4, InOne
<1>6. ASSUME i.page = HUGE_1GB  PROVE region!In1GB(offset)
  <2>1. Size1GB(layout) > 0 /\ i.lo = layout.start_1gb  BY <1>1, <1>6 DEF IntervalOf
  <2>2. PICK j \in DOMAIN region_intervals : region_intervals[j] = one
    BY <1>1, <2>1 DEF HasHuge
  <2>3. In(i.lo, region_intervals[j]) /\ In(i.lo, region_intervals[k])
    BY <1>2, <1>3, <2>1, <2>2 DEF In, Interval, Size1GB
  <2>4. i = one  BY <2>2, <2>3, InOne
  <2>. QED  BY <1>2, <2>4 DEF region!In1GB, Interval
<1>7. ASSUME i.page = HUGE_2MB  PROVE region!In2MB(offset)
  <2>1. Size2MB(layout) > 0 /\ i.lo = layout.start_2mb  BY <1>1, <1>7 DEF IntervalOf
  <2>2. PICK j \in DOMAIN region_intervals : region_intervals[j] = two
    BY <1>1, <2>1 DEF HasHuge
  <2>3. In(i.lo, region_intervals[j]) /\ In(i.lo, region_intervals[k])
    BY <1>2, <1>3, <2>1, <2>2 DEF In, Interval, Size2MB
  <2>4. i = two  BY <2>2, <2>3, InOne
  <2>. QED  BY <1>2, <2>4 DEF region!In2MB, Interval
<1>8. one.page = HUGE_1GB /\ one.lo = layout.start_1gb
      /\ two.page = HUGE_2MB /\ two.lo = layout.start_2mb
  BY DEF Interval
<1>. HIDE DEF i, one, two
<1>9. i.page = HUGE_1GB <=> region!In1GB(offset)  BY <1>4, <1>6, <1>8
<1>10. i.page = HUGE_2MB <=> region!In2MB(offset)  BY <1>5, <1>7, <1>8
<1>11. i.page \in {BASE_4KB, HUGE_2MB, HUGE_1GB}  BY <1>2 DEF PageSize
<1>12. region!PageSizeOf(offset) = i.page
  BY <1>9, <1>10, <1>11, PageSizes DEF region!PageSizeOf
<1>13. i.page = BASE_4KB => region!FirstPage(offset) = 0
  BY <1>9, <1>10, PageSizes DEF region!FirstPage
<1>14. i.page # BASE_4KB => region!FirstPage(offset) = i.lo
  BY <1>4, <1>5, <1>8, <1>9, <1>10, <1>11 DEF region!FirstPage
<1>. QED  BY <1>12, <1>13, <1>14 DEF i

LEMMA NextMultiple ==
    ASSUME NEW d \in Nat \ {0}, NEW m \in Nat \ {0}
    PROVE  ROUND_UP(d, m) = ((d - 1) \div m + 1) * m
<1>1. (d + m - 1) \div m = (d - 1) \div m + 1
  <2>. DEFINE q == (d - 1) \div m
              e == (d - 1) % m
  <2>1. q \in Int /\ e \in 0 .. m - 1 /\ d - 1 = m * q + e  OBVIOUS
  <2>. HIDE DEF q, e
  <2>2. d + m - 1 = m * (q + 1) + e  BY <2>1
  <2>3. (m * (q + 1) + e) \div m = q + 1  BY <2>1
  <2>. QED  BY <2>2, <2>3 DEF q
<1>. QED  BY <1>1 DEF ROUND_UP

\* The next multiple counted from a multiple is that counted from 0.
LEMMA MultiplesFrom ==
    ASSUME NEW m \in Nat \ {0}, NEW a \in Int, IS_ALIGNED(a, m), NEW b \in Int
    PROVE  a + ((b - a) \div m + 1) * m = (b \div m + 1) * m
<1>1. PICK q \in Int : a = q * m  BY AlignedIs
<1>. DEFINE d == b - a
            n == d \div m
            e == d % m
<1>2. d \in Int /\ b = a + d  OBVIOUS
<1>. HIDE DEF d
<1>3. n \in Int /\ e \in 0 .. m - 1 /\ d = m * n + e  BY <1>2
<1>4. n = (b - a) \div m  BY DEF d
<1>. HIDE DEF n, e
<1>5. b = m * (q + n) + e  BY <1>1, <1>2, <1>3
<1>6. b \div m = q + n
  <2>. DEFINE k == q + n
  <2>1. k \in Int /\ b = m * k + e  BY <1>3, <1>5
  <2>. HIDE DEF k
  <2>2. (m * k + e) \div m = k  BY <1>3, <2>1
  <2>. QED  BY <2>1, <2>2 DEF k
<1>7. a + (n + 1) * m = (q + n + 1) * m  BY <1>1, <1>3
<1>. QED  BY <1>4, <1>6, <1>7

\* The size that is needed for s bytes is the end of the page of the last one.
LEMMA NeededIsPageEnd ==
    ASSUME layout \in Layouts, Partition(region_intervals, layout),
           NEW s \in 1 .. layout.pool_size, NEW t, Needed(t, s)
    PROVE  t = region!PageEnd(s - 1)
<1>1. layout.pool_size \in Nat /\ s \in Nat /\ s - 1 \in 0 .. layout.pool_size - 1
  BY LayoutNat
<1>2. PICK k \in DOMAIN region_intervals : In(s - 1, region_intervals[k])
  BY <1>1 DEF Partition, Covers
<1>. DEFINE i == region_intervals[k]
            first == region!FirstPage(s - 1)
<1>3. IntervalOf(i, layout)  BY DEF Partition, Fits
<1>4. /\ i.lo \in Nat /\ i.hi \in Nat /\ i.page \in Nat \ {0} /\ s \in i.lo .. i.hi
      /\ s - i.lo \in Nat \ {0} /\ IS_ALIGNED(i.lo, BASE_4KB)
  BY <1>1, <1>2, <1>3, IntervalFields DEF In
<1>5. /\ region!PageSizeOf(s - 1) = i.page
      /\ i.page = BASE_4KB => first = 0
      /\ i.page # BASE_4KB => first = i.lo
  BY <1>1, <1>2, LayoutPage
<1>6. Needed(i.lo + ROUND_UP(s - i.lo, i.page), s)  BY <1>4, RoundedIsNeeded
<1>7. t = i.lo + ROUND_UP(s - i.lo, i.page)  BY <1>6, NeededUnique
<1>8. region!PageEnd(s - 1) = first + ((s - 1 - first) \div i.page + 1) * i.page
  BY <1>5 DEF region!PageEnd
<1>. HIDE DEF first, i
<1>9. CASE i.page # BASE_4KB
  <2>1. ROUND_UP(s - i.lo, i.page) = ((s - i.lo - 1) \div i.page + 1) * i.page
    BY <1>4, NextMultiple
  <2>2. s - i.lo - 1 = s - 1 - i.lo  BY <1>4
  <2>. QED  BY <1>5, <1>7, <1>8, <1>9, <2>1, <2>2
<1>10. CASE i.page = BASE_4KB
  <2>1. ROUND_UP(s - i.lo, i.page) = ((s - i.lo - 1) \div i.page + 1) * i.page
    BY <1>4, NextMultiple
  <2>. DEFINE b == s - 1
  <2>2. b \in Int /\ s - i.lo - 1 = b - i.lo /\ i.lo \in Int /\ b - 0 = b
    BY <1>1, <1>4
  <2>3. first = 0  BY <1>5, <1>10
  <2>. HIDE DEF b
  <2>4. t = i.lo + ((b - i.lo) \div i.page + 1) * i.page  BY <1>7, <2>1, <2>2
  <2>5. region!PageEnd(s - 1) = 0 + (b \div i.page + 1) * i.page
    <3>1. region!PageEnd(s - 1) = first + ((b - first) \div i.page + 1) * i.page
      BY <1>8 DEF b
    <3>. QED  BY <2>2, <2>3, <3>1
  <2>6. (b \div i.page + 1) * i.page \in Int  BY <1>4, <2>2
  <2>7. t = (b \div i.page + 1) * i.page  BY <1>4, <1>10, <2>2, <2>4, MultiplesFrom
  <2>. QED  BY <2>5, <2>6, <2>7
<1>. QED  BY <1>9, <1>10
-----------------------------------------------------------------------------
(* Every step of the region is one of Region or none of its business.      *)

\* Resize, from a region whose contents the user sees, or from none.
LEMMA ResizedHolds ==
    ASSUME layout \in Layouts, Placed, region_current_size \in Boundaries, Prefix,
           memory \in MemoryType, NEW s \in Nat, Resized(s),
           UNCHANGED <<layout, region_start, region_intervals>>, pc' = "ready",
           size_seen = region_current_size, memory_seen = memory
    PROVE  region!Holds(s) /\ s <= layout.pool_size
<1>. DEFINE cur == region_current_size
            t == region_current_size'
<1>1. /\ Partition(region_intervals, layout) /\ region_start \in Nat
      /\ layout.pool_size \in Nat
  BY LayoutNat DEF Placed
<1>2. /\ s <= layout.pool_size
      /\ Needed(t, s)
      /\ memory' \in MemoryType
      /\ Prefix'
      /\ \A p \in Pages : Offset(p) \notin 0 .. t - 1 =>
            memory'[p] = IF Offset(p) \in t .. cur - 1 THEN Free ELSE memory[p]
  BY ResizedKeeps
<1>3. cur \in Nat /\ t \in Nat /\ t <= layout.pool_size
  BY <1>1, <1>2, NeededNat DEF Needed
<1>4. t = IF s = 0 THEN 0 ELSE region!PageEnd(s - 1)
  <2>1. CASE s = 0
    <3>1. 0 \in Boundaries  BY DEF Boundaries
    <3>. QED  BY <1>2, <1>3, <2>1, <3>1 DEF Needed
  <2>2. CASE s # 0
    <3>1. s \in 1 .. layout.pool_size  BY <1>1, <1>2, <2>2
    <3>. QED  BY <1>1, <1>2, <2>2, <3>1, NeededIsPageEnd
  <2>. QED  BY <2>1, <2>2
<1>5. size_seen' = t /\ start_seen' = region_start  BY DEF size_seen, start_seen
<1>6. memory_seen' = memory'
  <2>1. memory' = [p \in Pages |-> memory'[p]]  BY <1>2 DEF MemoryType
  <2>2. memory_seen' = [p \in Pages |-> memory'[p]]  BY DEF memory_seen
  <2>. QED  BY <2>1, <2>2
<1>7. \A p \in Pages : Offset(p)' = Offset(p) /\ Offset(p) = p * BASE_4KB - region_start
                       /\ Offset(p) \in Int
  BY <1>1, PagesAre, PageSizes DEF Offset
<1>8. ASSUME NEW p \in Pages, Offset(p) \in 0 .. t - 1
      PROVE  memory'[p] = region!PageSizeOf(Offset(p))
  <2>1. memory'[p] = PageSizeAt(Offset(p))
    <3>1. memory'[p] = PageSizeAt(Offset(p))'  BY <1>2, <1>7, <1>8 DEF Prefix
    <3>. QED  BY <1>7, <3>1 DEF PageSizeAt
  <2>2. Offset(p) \in 0 .. layout.pool_size - 1  BY <1>1, <1>3, <1>8
  <2>3. PICK k \in DOMAIN region_intervals : In(Offset(p), region_intervals[k])
    BY <1>1, <2>2 DEF Partition, Covers
  <2>4. PageSizeAt(Offset(p)) = region_intervals[k].page  BY <1>1, <2>3, PageSizeAtIs
  <2>5. Offset(p) \in Nat  BY <1>8
  <2>. QED  BY <1>1, <2>1, <2>3, <2>4, <2>5, LayoutPage
<1>. HIDE DEF t, cur
<1>9. ASSUME NEW p \in Pages
      PROVE  memory'[p] = LET offset == p * BASE_4KB - start_seen'
                          IN  IF offset \in 0 .. t - 1 THEN region!PageSizeOf(offset)
                              ELSE IF offset \in t .. cur - 1 THEN Free
                              ELSE memory[p]
  BY <1>2, <1>5, <1>7, <1>8 DEF t, cur
<1>10. memory' = [p \in Pages |->
                    LET offset == p * BASE_4KB - start_seen'
                    IN  IF offset \in 0 .. t - 1 THEN region!PageSizeOf(offset)
                        ELSE IF offset \in t .. cur - 1 THEN Free
                        ELSE memory[p]]
  <2>1. memory' = [p \in Pages |-> memory'[p]]  BY <1>2 DEF MemoryType
  <2>. QED  BY <1>9, <2>1
<1>11. cur = size_seen  BY DEF cur
<1>. QED  BY <1>2, <1>4, <1>5, <1>6, <1>10, <1>11 DEF region!Holds, region!Free, Free

\* Before there is a region the user sees the pages of other threads.
LEMMA SeenBefore ==
    ASSUME IInv, pc \in {"new", "released"}
    PROVE  size_seen = 0 /\ start_seen = -1 /\ memory_seen = memory
<1>1. \A p \in Pages : memory[p] \in {Free, Foreign}
  BY DEF IInv, NothingMapped, Mapped
<1>2. memory = [p \in Pages |-> memory[p]]  BY DEF IInv, MemoryType
<1>3. ~Exited  BY DEF Exited
<1>4. \A p \in Pages : (IF pc = "ready" \/ (memory[p] = Foreign /\ ~Exited) THEN memory[p]
                        ELSE Free) = memory[p]
  BY <1>1, <1>3
<1>. QED  BY <1>2, <1>3, <1>4 DEF memory_seen, start_seen, size_seen, NULL

LEMMA SeenReady ==
    ASSUME IInv, pc = "ready"
    PROVE  /\ size_seen = region_current_size /\ start_seen = region_start
           /\ memory_seen = memory
<1>1. memory = [p \in Pages |-> memory[p]]  BY DEF IInv, MemoryType
<1>. QED  BY <1>1 DEF memory_seen, start_seen, size_seen

\* A call that fails.
LEMMA ExitStep ==
    ASSUME pc' \in {"ENOMEM", "EINVAL"}, UNCHANGED layout
    PROVE  region!Exit
<1>1. Exited' /\ pc' # "ready"  BY DEF Exited
<1>. QED
  BY <1>1 DEF region!Exit, region!Gone, region!Free, Free, start_seen, size_seen, memory_seen
Unseen == UNCHANGED <<layout, start_seen, size_seen, memory_seen>>

\* While Initialize has its reservation only the pages of others are seen.
LEMMA HiddenStep ==
    ASSUME pc \notin {"ready", "ENOMEM", "EINVAL"}, pc' \notin {"ready", "ENOMEM", "EINVAL"},
           UNCHANGED layout,
           \A p \in Pages : memory'[p] = Foreign <=> memory[p] = Foreign
    PROVE  Unseen
<1>1. ~Exited /\ ~Exited' /\ pc # "ready" /\ pc' # "ready"  BY DEF Exited
<1>2. UNCHANGED <<start_seen, size_seen>>  BY <1>1 DEF start_seen, size_seen
<1>3. /\ memory_seen = [p \in Pages |-> IF memory[p] = Foreign THEN Foreign ELSE Free]
      /\ memory_seen' = [p \in Pages |-> IF memory'[p] = Foreign THEN Foreign ELSE Free]
  BY <1>1 DEF memory_seen
<1>4. memory_seen' = memory_seen  BY <1>3
<1>. QED  BY <1>2, <1>4 DEF Unseen

LEMMA ReserveStep ==
    ASSUME NEW base \in 0 .. Top, Reserve(base)
    PROVE  Unseen
<1>1. /\ \A p \in PagesOf(base, ReservedSize(layout)) : memory[p] = Free
      /\ memory' = [p \in Pages |->
                      IF p \in PagesOf(base, ReservedSize(layout)) THEN BASE_4KB ELSE memory[p]]
      /\ pc = "new" /\ pc' = "reserved" /\ UNCHANGED layout
  BY DEF Reserve, Room
<1>2. BASE_4KB # Foreign /\ Free # Foreign  BY PageSizes DEF Free, Foreign
<1>3. \A p \in Pages : memory'[p] = Foreign <=> memory[p] = Foreign  BY <1>1, <1>2
<1>. QED  BY <1>1, <1>3, HiddenStep

LEMMA ReleaseStep ==
    ASSUME IInv, Release
    PROVE  Unseen
<1>1. /\ memory' = [p \in Pages |->
                      IF p \in PagesOf(base_addr, region_current_size) THEN Free ELSE memory[p]]
      /\ pc = "reserved" /\ pc' = "released" /\ UNCHANGED layout
  BY DEF Release
<1>2. \A p \in Pages : memory[p] = Foreign => memory'[p] = Foreign  BY ReleaseKeeps
<1>3. \A p \in Pages : memory'[p] = Foreign => memory[p] = Foreign
  BY <1>1 DEF Free, Foreign
<1>. QED  BY <1>1, <1>2, <1>3, HiddenStep

LEMMA ReallocateStep ==
    ASSUME IInv, pc = "released", Resized(region_max_size), pc' = "ready",
           UNCHANGED <<layout, region_start, region_intervals>>
    PROVE  region!Initialize
<1>1. /\ layout \in Layouts /\ Placed /\ memory \in MemoryType
      /\ region_current_size = 0 /\ NothingMapped
      /\ region_max_size = layout.pool_size /\ region_max_size \in Nat
      /\ region_start \in Nat
  BY DEF IInv, Placed
<1>2. region_current_size \in Boundaries  BY <1>1 DEF Boundaries
<1>3. Prefix
  <2>1. \A p \in Pages : Offset(p) \notin 0 .. region_current_size - 1  BY <1>1
  <2>. QED  BY <1>1, <2>1 DEF Prefix, NothingMapped
<1>4. size_seen = region_current_size /\ start_seen = -1 /\ memory_seen = memory
  BY <1>1, SeenBefore
<1>5. region!Holds(region_max_size)  BY <1>1, <1>2, <1>3, <1>4, ResizedHolds
<1>6. start_seen' = region_start  BY DEF start_seen
<1>. QED  BY <1>1, <1>4, <1>5, <1>6 DEF region!Initialize, region!None

LEMMA ResizeStep ==
    ASSUME IInv, pc = "ready", NEW s \in Nat, Resized(s),
           UNCHANGED <<layout, region_start, region_intervals, pc>>
    PROVE  \E new_size \in 0 .. layout.pool_size : region!Resize(new_size)
<1>1. /\ layout \in Layouts /\ Placed /\ memory \in MemoryType /\ Prefix
      /\ region_current_size \in Boundaries
      /\ region_start \in Nat /\ layout.pool_size \in Nat
  BY LayoutNat DEF IInv, Placed, Needed
<1>2. /\ size_seen = region_current_size /\ start_seen = region_start
      /\ memory_seen = memory
  BY SeenReady
<1>3. region!Holds(s) /\ s <= layout.pool_size  BY <1>1, <1>2, ResizedHolds
<1>4. start_seen' = region_start  BY DEF start_seen
<1>5. region!Resize(s)  BY <1>1, <1>2, <1>3, <1>4 DEF region!Resize
<1>6. s \in 0 .. layout.pool_size  BY <1>1, <1>3
<1>. QED  BY <1>5, <1>6

\* In the reservation there is no room for another thread.
LEMMA MmapStep ==
    ASSUME IInv, NEW q \in Pages, ForeignMmap(q)
    PROVE  region!Mmap(q)
<1>1. /\ ~Exited /\ memory[q] = Free /\ memory' = [memory EXCEPT ![q] = Foreign]
      /\ UNCHANGED <<fields, layout, pc>>
  BY DEF ForeignMmap
<1>2. ~Exited' /\ memory \in MemoryType  BY <1>1 DEF Exited, IInv
<1>3. UNCHANGED <<layout, start_seen, size_seen>>
  BY <1>1, <1>2 DEF start_seen, size_seen, fields
<1>4. \A p \in Pages : memory'[p] = IF p = q THEN Foreign ELSE memory[p]
  BY <1>1, <1>2 DEF MemoryType
<1>5. /\ memory_seen = [p \in Pages |->
                          IF pc = "ready" \/ memory[p] = Foreign THEN memory[p] ELSE Free]
      /\ memory_seen' = [p \in Pages |->
                          IF pc = "ready" \/ memory'[p] = Foreign THEN memory'[p] ELSE Free]
  BY <1>1, <1>2 DEF memory_seen
<1>6. memory_seen[q] = Free  BY <1>1, <1>5
<1>7. memory_seen' = [memory_seen EXCEPT ![q] = Foreign]  BY <1>4, <1>5
<1>. QED  BY <1>3, <1>6, <1>7 DEF region!Mmap, region!Free, region!Foreign, Free, Foreign

\* To its user the region is Region: for layouts of whole huge pages that are
\* apart, each offset has the pages its layout says, and a Resize maps and
\* unmaps just the pages the new size asks for.
THEOREM MosaicRegionIsRegion == AllPlausible => (Spec => RegionSpec)
<1>. SUFFICES ASSUME AllPlausible  PROVE Spec => RegionSpec
  OBVIOUS
<1>1. ASSUME Init  PROVE region!Init
  <2>1. IInv /\ pc = "new"  BY <1>1, InitIInv DEF Init
  <2>2. size_seen = 0 /\ start_seen = -1 /\ memory_seen = memory  BY <2>1, SeenBefore
  <2>. QED
    BY <1>1, <2>2 DEF Init, region!Init, region!None, region!Free, Free
<1>2. ASSUME IInv, [Next]_vars
      PROVE  region!Next \/ Unseen
  <2>1. CASE \E base \in 0 .. Top : Reserve(base)  BY <2>1, ReserveStep
  <2>2. CASE ReserveExits
    <3>1. pc' \in {"ENOMEM", "EINVAL"} /\ UNCHANGED layout  BY <2>2 DEF ReserveExits
    <3>. QED  BY <3>1, ExitStep DEF region!Next
  <2>3. CASE Release  BY <1>2, <2>3, ReleaseStep
  <2>4. ASSUME UNCHANGED layout, NEW s, ResizeExits(s)  PROVE region!Next
    <3>1. pc' \in {"ENOMEM", "EINVAL"}  BY <2>4 DEF ResizeExits
    <3>. QED  BY <2>4, <3>1, ExitStep DEF region!Next
  <2>5. CASE Reallocate
    <3>1. pc = "released" /\ UNCHANGED layout  BY <2>5 DEF Reallocate
    <3>2. CASE /\ Resized(region_max_size) /\ pc' = "ready"
               /\ UNCHANGED <<region_start, region_intervals>>
      BY <1>2, <3>1, <3>2, ReallocateStep DEF region!Next
    <3>3. CASE ResizeExits(region_max_size)  BY <2>4, <3>1, <3>3
    <3>. QED  BY <2>5, <3>2, <3>3 DEF Reallocate
  <2>6. ASSUME NEW s \in 0 .. region_max_size + 1, Resize(s)  PROVE region!Next
    <3>1. pc = "ready" /\ UNCHANGED layout /\ s \in Nat  BY <1>2, <2>6 DEF Resize, IInv
    <3>2. CASE Resized(s) /\ UNCHANGED <<region_start, region_max_size, region_intervals, pc>>
      BY <1>2, <3>1, <3>2, ResizeStep DEF region!Next
    <3>3. CASE ResizeExits(s)  BY <2>4, <3>1, <3>3
    <3>. QED  BY <2>6, <3>2, <3>3 DEF Resize
  <2>7. CASE \E q \in Pages : ForeignMmap(q)  BY <1>2, <2>7, MmapStep DEF region!Next
  <2>8. CASE UNCHANGED vars
    BY <2>8 DEF Unseen, vars, fields, start_seen, size_seen, memory_seen, Exited
  <2>. QED  BY <1>2, <2>1, <2>2, <2>3, <2>5, <2>6, <2>7, <2>8 DEF Next
<1>3. Spec => []IInv  BY SpecIInv
<1>. QED  BY <1>1, <1>2, <1>3, PTL DEF Spec, RegionSpec, region!Spec, Unseen
=============================================================================
