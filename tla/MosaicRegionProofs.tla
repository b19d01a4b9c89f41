------------------------- MODULE MosaicRegionProofs -------------------------
(***************************************************************************)
(* Proofs about MosaicRegion, for every size of pages and every address    *)
(* space: that the region is reserved whole, for every layout, valid or    *)
(* not; the rest for layouts of whole huge pages that are apart (Plausible *)
(* below), some of which ValidateRegionOffsets would refuse.               *)
(***************************************************************************)
EXTENDS MosaicRegion, FiniteSetTheorems, SequenceTheorems, TLAPS

-----------------------------------------------------------------------------
(* The arithmetic of the alignment macros.                                 *)

LEMMA RoundUp ==
    ASSUME NEW num \in Nat, NEW mul \in Nat \ {0}
    PROVE  /\ ROUND_UP(num, mul) \in Nat
           /\ num <= ROUND_UP(num, mul) /\ ROUND_UP(num, mul) < num + mul
<1>1. /\ (num + mul - 1) \div mul \in Nat
      /\ num + mul - 1 = mul * ((num + mul - 1) \div mul) + ((num + mul - 1) % mul)
      /\ (num + mul - 1) % mul \in 0 .. mul - 1
  OBVIOUS
<1>. QED  BY <1>1 DEF ROUND_UP

LEMMA RoundUpAligned ==
    ASSUME NEW num \in Nat, NEW mul \in Nat \ {0}, num % mul = 0
    PROVE  ROUND_UP(num, mul) = num
<1>1. num = mul * (num \div mul)  OBVIOUS
<1>2. (num + mul - 1) \div mul = num \div mul  BY <1>1
<1>. QED  BY <1>1, <1>2 DEF ROUND_UP

LEMMA AlignedIs ==
    ASSUME NEW a \in Int, NEW m \in Nat \ {0}
    PROVE  IS_ALIGNED(a, m) <=> \E q \in Int : a = q * m
<1>1. /\ a \div m \in Int /\ a % m \in 0 .. m - 1
      /\ a = m * (a \div m) + (a % m)
      /\ m * (a \div m) = (a \div m) * m
  OBVIOUS
<1>2. ASSUME NEW q \in Int, a = q * m  PROVE a % m = 0
  <2>. DEFINE d == q - a \div m
  <2>1. d \in Int /\ a % m = d * m  BY <1>1, <1>2
  <2>2. CASE d >= 1  BY <1>1, <2>1, <2>2
  <2>3. CASE d <= -1  BY <1>1, <2>1, <2>3
  <2>. QED  BY <2>1, <2>2, <2>3
<1>3. a % m = 0 => a = (a \div m) * m  BY <1>1
<1>. QED  BY <1>1, <1>2, <1>3 DEF IS_ALIGNED

LEMMA AlignedSum ==
    ASSUME NEW a \in Int, NEW b \in Int, NEW m \in Nat \ {0},
           IS_ALIGNED(a, m), IS_ALIGNED(b, m)
    PROVE  IS_ALIGNED(a + b, m) /\ IS_ALIGNED(a - b, m)
<1>1. PICK p \in Int : a = p * m  BY AlignedIs
<1>2. PICK q \in Int : b = q * m  BY AlignedIs
<1>3. a + b = (p + q) * m /\ a - b = (p - q) * m /\ p + q \in Int /\ p - q \in Int
  BY <1>1, <1>2
<1>4. a + b \in Int /\ a - b \in Int  OBVIOUS
<1>. QED  BY <1>3, <1>4, AlignedIs

LEMMA AlignedTimes ==
    ASSUME NEW k \in Int, NEW m \in Nat \ {0}
    PROVE  IS_ALIGNED(k * m, m)
BY AlignedIs

LEMMA AlignedTrans ==
    ASSUME NEW a \in Int, NEW m \in Nat \ {0}, NEW n \in Nat \ {0},
           IS_ALIGNED(a, m), IS_ALIGNED(m, n)
    PROVE  IS_ALIGNED(a, n)
<1>1. PICK p \in Int : a = p * m  BY AlignedIs
<1>2. PICK q \in Int : m = q * n  BY AlignedIs
<1>3. a = (p * q) * n /\ p * q \in Int  BY <1>1, <1>2
<1>. QED  BY <1>3, AlignedIs

\* Two multiples are equal or a whole unit apart.
LEMMA AlignedApart ==
    ASSUME NEW a \in Int, NEW b \in Int, NEW m \in Nat \ {0},
           IS_ALIGNED(a, m), IS_ALIGNED(b, m), a < b
    PROVE  a + m <= b
<1>1. PICK p \in Int : a = p * m  BY AlignedIs
<1>2. PICK q \in Int : b = q * m  BY AlignedIs
<1>3. b - a = (q - p) * m /\ q - p \in Int  BY <1>1, <1>2
<1>4. q - p >= 1  BY <1>3
<1>. QED  BY <1>3, <1>4

\* ROUND_UP is the least multiple that is not less.
LEMMA RoundUpLeast ==
    ASSUME NEW num \in Nat, NEW mul \in Nat \ {0}
    PROVE  /\ IS_ALIGNED(ROUND_UP(num, mul), mul)
           /\ \A b \in Int : IS_ALIGNED(b, mul) /\ num <= b => ROUND_UP(num, mul) <= b
<1>1. (num + mul - 1) \div mul \in Int  OBVIOUS
<1>2. IS_ALIGNED(ROUND_UP(num, mul), mul)  BY <1>1, AlignedTimes DEF ROUND_UP
<1>3. ASSUME NEW b \in Int, IS_ALIGNED(b, mul), num <= b, b < ROUND_UP(num, mul)
      PROVE  FALSE
  <2>1. ROUND_UP(num, mul) \in Nat /\ ROUND_UP(num, mul) < num + mul  BY RoundUp
  <2>2. b + mul <= ROUND_UP(num, mul)  BY <1>2, <1>3, <2>1, AlignedApart
  <2>. QED  BY <1>3, <2>1, <2>2
<1>4. ROUND_UP(num, mul) \in Nat  BY RoundUp
<1>. QED  BY <1>2, <1>3, <1>4

\* The aligned start is less than one page of the largest size away from the
\* reservation's, which is what the reservation has more than the pool.
LEMMA AlignmentFits ==
    ASSUME NEW l \in Layouts, NEW base \in Nat, IS_ALIGNED(base, BASE_4KB)
    PROVE  /\ RegionStart(l, base) >= base
           /\ RegionStart(l, base) + l.pool_size <= base + ReservedSize(l)
<1>1. /\ Alignment(l) \in Nat \ {0} /\ AlignedOffset(l) \in Nat /\ l.pool_size \in Nat
      /\ base + AlignedOffset(l) \in Nat
  BY MosaicRegionAssumption DEF Alignment, AlignedOffset
<1>2. /\ ROUND_UP(base + AlignedOffset(l), Alignment(l)) \in Nat
      /\ base + AlignedOffset(l) <= ROUND_UP(base + AlignedOffset(l), Alignment(l))
      /\ ROUND_UP(base + AlignedOffset(l), Alignment(l)) < base + AlignedOffset(l) + Alignment(l)
  BY <1>1, RoundUp
<1>3. CASE Alignment(l) = BASE_4KB
  <2>1. AlignedOffset(l) = 0
    BY <1>3, MosaicRegionAssumption DEF Alignment, AlignedOffset
  <2>2. ROUND_UP(base, BASE_4KB) = base
    BY MosaicRegionAssumption, RoundUpAligned DEF IS_ALIGNED
  <2>. QED  BY <1>1, <1>3, <2>1, <2>2 DEF RegionStart, ReservedSize
<1>4. CASE Alignment(l) # BASE_4KB
  <2>1. l.pool_size + Alignment(l) \in Nat  BY <1>1
  <2>2. /\ ROUND_UP(l.pool_size + Alignment(l), Alignment(l)) \in Nat
        /\ l.pool_size + Alignment(l) <= ROUND_UP(l.pool_size + Alignment(l), Alignment(l))
    BY <1>1, <2>1, RoundUp
  <2>. QED  BY <1>1, <1>2, <1>4, <2>2 DEF RegionStart, ReservedSize
<1>. QED  BY <1>3, <1>4

-----------------------------------------------------------------------------
(* Sort.                                                                   *)

\* The intervals of a list, no two of which start together, in order.
LEMMA Sorted ==
    ASSUME NEW n \in Nat, NEW list, DOMAIN list = 1 .. n,
           \A i \in 1 .. n : list[i].lo \in Int,
           \A i, j \in 1 .. n : i # j => list[i].lo # list[j].lo
    PROVE  /\ Sort(list) = [k \in 1 .. n |-> Sort(list)[k]]
           /\ \A k \in 1 .. n : \E i \in 1 .. n : Sort(list)[k] = list[i]
           /\ \A i \in 1 .. n : \E k \in 1 .. n : Sort(list)[k] = list[i]
           /\ \A j, k \in 1 .. n : j < k => Sort(list)[j].lo < Sort(list)[k].lo
<1>. DEFINE UpTo(i) == {j \in DOMAIN list : list[j].lo <= list[i].lo}
            rank == [i \in 1 .. n |-> Cardinality(UpTo(i))]
            place == [k \in 1 .. n |-> CHOOSE i \in DOMAIN list : Cardinality(UpTo(i)) = k]
<1>1. IsFiniteSet(1 .. n) /\ Cardinality(1 .. n) = n  BY FS_Interval
<1>2. ASSUME NEW i \in 1 .. n  PROVE rank[i] \in 1 .. n
  <2>1. UpTo(i) \in SUBSET (1 .. n) /\ i \in UpTo(i)  OBVIOUS
  <2>2. IsFiniteSet(UpTo(i)) /\ Cardinality(UpTo(i)) <= n  BY <1>1, <2>1, FS_Subset
  <2>3. Cardinality(UpTo(i)) \in Nat /\ Cardinality(UpTo(i)) # 0
    BY <2>1, <2>2, FS_CardinalityType, FS_EmptySet
  <2>. QED  BY <2>2, <2>3
<1>3. ASSUME NEW i \in 1 .. n, NEW j \in 1 .. n, list[i].lo < list[j].lo
      PROVE  rank[i] < rank[j]
  <2>1. UpTo(j) \in SUBSET (1 .. n)  OBVIOUS
  <2>2. IsFiniteSet(UpTo(j))  BY <1>1, <2>1, FS_Subset
  <2>3. UpTo(i) \in SUBSET UpTo(j) /\ j \in UpTo(j) /\ j \notin UpTo(i)  BY <1>3
  <2>4. /\ Cardinality(UpTo(i)) <= Cardinality(UpTo(j))
        /\ Cardinality(UpTo(i)) # Cardinality(UpTo(j))
    BY <2>2, <2>3, FS_Subset
  <2>5. rank[i] \in 1 .. n /\ rank[j] \in 1 .. n  BY <1>2
  <2>. QED  BY <2>4, <2>5
<1>4. Sort(list) = [k \in 1 .. n |-> list[place[k]]]  BY DEF Sort
<1>5. ASSUME NEW k \in 1 .. n, NEW i \in 1 .. n, rank[i] = k
      PROVE  place[k] \in 1 .. n /\ rank[place[k]] = k
  <2>1. \E j \in DOMAIN list : Cardinality(UpTo(j)) = k  BY <1>5
  <2>2. place[k] \in DOMAIN list /\ Cardinality(UpTo(place[k])) = k  BY <2>1
  <2>. QED  BY <2>2
<1>6. rank \in [1 .. n -> 1 .. n]  BY <1>2
<1>. HIDE DEF rank, place
<1>7. ASSUME NEW i \in 1 .. n, NEW j \in 1 .. n, rank[i] = rank[j]  PROVE i = j
  <2>1. ~(list[i].lo < list[j].lo) /\ ~(list[j].lo < list[i].lo)  BY <1>2, <1>3, <1>7
  <2>. QED  BY <2>1
<1>8. rank \in Surjection(1 .. n, 1 .. n)
  <2>1. rank \in Injection(1 .. n, 1 .. n)  BY <1>6, <1>7 DEF Injection, IsInjective
  <2>. QED  BY <1>1, <2>1, FS_Injection
<1>9. ASSUME NEW k \in 1 .. n  PROVE place[k] \in 1 .. n /\ rank[place[k]] = k
  <2>1. PICK i \in 1 .. n : rank[i] = k  BY <1>8 DEF Surjection
  <2>. QED  BY <1>5, <2>1
<1>10. ASSUME NEW i \in 1 .. n  PROVE \E k \in 1 .. n : Sort(list)[k] = list[i]
  <2>1. rank[i] \in 1 .. n  BY <1>2
  <2>2. place[rank[i]] = i  BY <1>7, <1>9, <2>1
  <2>. QED  BY <1>4, <2>1, <2>2
<1>11. ASSUME NEW j \in 1 .. n, NEW k \in 1 .. n, j < k
       PROVE  Sort(list)[j].lo < Sort(list)[k].lo
  <2>1. /\ place[j] \in 1 .. n /\ rank[place[j]] = j
        /\ place[k] \in 1 .. n /\ rank[place[k]] = k
    BY <1>9
  <2>2. place[j] # place[k] /\ ~(list[place[k]].lo < list[place[j]].lo)
    BY <1>3, <1>11, <2>1
  <2>. QED  BY <1>4, <2>1, <2>2
<1>. QED  BY <1>4, <1>9, <1>10, <1>11, SMTT(30)

-----------------------------------------------------------------------------
(* The list of intervals Initialize builds.                                *)

PageSize == {BASE_4KB, HUGE_2MB, HUGE_1GB}
MemoryInterval == [lo : Nat, hi : Nat, page : PageSize]

\* What Initialize counts on and does not check: intervals of whole huge pages
\* that begin at a 4KB page of the pool and do not overlap.
Plausible(l) ==
    /\ IS_ALIGNED(l.start_1gb, BASE_4KB) /\ IS_ALIGNED(l.start_2mb, BASE_4KB)
    /\ Size1GB(l) >= 0 /\ IS_ALIGNED(Size1GB(l), HUGE_1GB)
    /\ Size2MB(l) >= 0 /\ IS_ALIGNED(Size2MB(l), HUGE_2MB)
    /\ Size1GB(l) > 0 /\ Size2MB(l) > 0 =>
         l.end_1gb <= l.start_2mb \/ l.end_2mb <= l.start_1gb

\* An interval of the pool; those of huge pages are the layout's.
IntervalOf(i, l) ==
    /\ i \in MemoryInterval
    /\ i.lo < i.hi /\ i.hi <= l.pool_size
    /\ IS_ALIGNED(i.lo, BASE_4KB) /\ IS_ALIGNED(i.hi - i.lo, i.page)
    /\ i.page = HUGE_1GB => Size1GB(l) > 0 /\ i.lo = l.start_1gb
    /\ i.page = HUGE_2MB => Size2MB(l) > 0 /\ i.lo = l.start_2mb

Apart(i, j) == i.hi <= j.lo \/ j.hi <= i.lo

Fits(list, l) ==
    /\ list \in Seq(MemoryInterval)
    /\ \A k \in DOMAIN list : IntervalOf(list[k], l)
    /\ \A j, k \in DOMAIN list : j # k => Apart(list[j], list[k])

InOrder(list) == \A j, k \in DOMAIN list : j < k => list[j].hi <= list[k].lo

In(offset, i) == offset \in i.lo .. i.hi - 1
Covers(list, size) ==
    \A offset \in 0 .. size - 1 : \E k \in DOMAIN list : In(offset, list[k])

\* The layout's huge intervals are there, whole.
HasHuge(list, l) ==
    /\ Size1GB(l) > 0 =>
         \E k \in DOMAIN list : list[k] = Interval(l.start_1gb, l.end_1gb, HUGE_1GB)
    /\ Size2MB(l) > 0 =>
         \E k \in DOMAIN list : list[k] = Interval(l.start_2mb, l.end_2mb, HUGE_2MB)

Partition(list, l) ==
    Fits(list, l) /\ InOrder(list) /\ Covers(list, l.pool_size) /\ HasHuge(list, l)

LEMMA PageSizes ==
    /\ PageSize \subseteq Nat \ {0}
    /\ BASE_4KB \in Nat \ {0} /\ HUGE_2MB \in Nat \ {0} /\ HUGE_1GB \in Nat \ {0}
    /\ BASE_4KB # HUGE_2MB /\ BASE_4KB # HUGE_1GB /\ HUGE_2MB # HUGE_1GB
    /\ \A page \in PageSize : IS_ALIGNED(page, BASE_4KB)
<1>1. /\ BASE_4KB \in Nat \ {0} /\ HUGE_2MB \in Nat \ {0} /\ HUGE_1GB \in Nat \ {0}
      /\ BASE_4KB # HUGE_2MB /\ BASE_4KB # HUGE_1GB /\ HUGE_2MB # HUGE_1GB
      /\ IS_ALIGNED(HUGE_2MB, BASE_4KB) /\ IS_ALIGNED(HUGE_1GB, HUGE_2MB)
  BY MosaicRegionAssumption DEF IS_ALIGNED
<1>2. IS_ALIGNED(HUGE_1GB, BASE_4KB)  BY <1>1, AlignedTrans
<1>3. IS_ALIGNED(BASE_4KB, BASE_4KB)
  <2>1. BASE_4KB = 1 * BASE_4KB  BY <1>1
  <2>. QED  BY <1>1, <2>1, AlignedTimes
<1>. QED  BY <1>1, <1>2, <1>3 DEF PageSize

LEMMA LayoutNat ==
    ASSUME NEW l \in Layouts
    PROVE  /\ l.pool_size \in Nat /\ l.pool_size > 0 /\ IS_ALIGNED(l.pool_size, BASE_4KB)
           /\ l.start_1gb \in Nat /\ l.end_1gb \in Nat
           /\ l.start_2mb \in Nat /\ l.end_2mb \in Nat
BY MosaicRegionAssumption DEF IS_ALIGNED

\* Sorting intervals that are apart puts them in order and loses none.
LEMMA SortFits ==
    ASSUME NEW l \in Layouts, NEW list, Fits(list, l)
    PROVE  /\ Fits(Sort(list), l) /\ InOrder(Sort(list))
           /\ \A k \in DOMAIN list : \E j \in DOMAIN Sort(list) : Sort(list)[j] = list[k]
<1>. DEFINE n == Len(list)
            s == Sort(list)
<1>1. n \in Nat /\ DOMAIN list = 1 .. n  BY DEF Fits
<1>2. \A k \in 1 .. n : IntervalOf(list[k], l)  BY <1>1 DEF Fits
<1>3. \A k \in 1 .. n : list[k].lo \in Nat /\ list[k].hi \in Nat /\ list[k].lo < list[k].hi
  BY <1>2 DEF IntervalOf, MemoryInterval
<1>4. \A j, k \in 1 .. n : j # k => Apart(list[j], list[k])  BY <1>1 DEF Fits
<1>5. \A j, k \in 1 .. n : j # k => list[j].lo # list[k].lo  BY <1>3, <1>4 DEF Apart
<1>6. /\ s = [k \in 1 .. n |-> s[k]]
      /\ \A k \in 1 .. n : \E i \in 1 .. n : s[k] = list[i]
      /\ \A i \in 1 .. n : \E k \in 1 .. n : s[k] = list[i]
      /\ \A j, k \in 1 .. n : j < k => s[j].lo < s[k].lo
  <2>1. \A i \in 1 .. n : list[i].lo \in Int  BY <1>3
  <2>. QED  BY <1>1, <1>5, <2>1, Sorted
<1>. HIDE DEF s
<1>7. \A k \in 1 .. n : IntervalOf(s[k], l)  BY <1>2, <1>6
<1>8. s \in Seq(MemoryInterval) /\ DOMAIN s = 1 .. n
  <2>1. \A k \in 1 .. n : s[k] \in MemoryInterval  BY <1>7 DEF IntervalOf
  <2>. QED  BY <1>1, <1>6, <2>1, IsASeq
<1>9. ASSUME NEW j \in 1 .. n, NEW k \in 1 .. n, j < k  PROVE s[j].hi <= s[k].lo
  <2>1. PICK p \in 1 .. n : s[j] = list[p]  BY <1>6
  <2>2. PICK q \in 1 .. n : s[k] = list[q]  BY <1>6
  <2>3. list[p].lo < list[q].lo  BY <1>6, <1>9, <2>1, <2>2
  <2>4. p # q  BY <1>3, <2>3
  <2>5. Apart(list[p], list[q])  BY <1>4, <2>4
  <2>. QED  BY <1>3, <2>1, <2>2, <2>3, <2>5 DEF Apart
<1>10. \A j, k \in 1 .. n : j # k => Apart(s[j], s[k])
  BY <1>1, <1>9 DEF Apart
<1>. QED  BY <1>1, <1>6, <1>7, <1>8, <1>9, <1>10 DEF Fits, InOrder, s

\* Adding an interval that is apart from those in the list.
LEMMA AddFits ==
    ASSUME NEW l, NEW list, Fits(list, l), NEW lo, NEW hi, NEW page,
           lo < hi => /\ IntervalOf(Interval(lo, hi, page), l)
                      /\ \A k \in DOMAIN list : Apart(list[k], Interval(lo, hi, page))
    PROVE  LET add == AddInterval(list, lo, hi, page)
           IN  /\ Fits(add, l)
               /\ \A k \in DOMAIN list : \E j \in DOMAIN add : add[j] = list[k]
               /\ lo < hi => \E j \in DOMAIN add : add[j] = Interval(lo, hi, page)
<1>. DEFINE i == Interval(lo, hi, page)
            n == Len(list)
<1>1. CASE ~(lo < hi)  BY <1>1 DEF AddInterval
<1>2. CASE lo < hi
  <2>1. list \in Seq(MemoryInterval) /\ i \in MemoryInterval /\ n \in Nat
        /\ DOMAIN list = 1 .. n
    BY <1>2 DEF Fits, IntervalOf
  <2>2. AddInterval(list, lo, hi, page) = Append(list, i)  BY <1>2 DEF AddInterval
  <2>3. IntervalOf(i, l) /\ \A k \in 1 .. n : Apart(list[k], i)  BY <1>2, <2>1
  <2>. HIDE DEF i
  <2>4. /\ Append(list, i) \in Seq(MemoryInterval)
        /\ DOMAIN Append(list, i) = 1 .. n + 1
        /\ \A k \in 1 .. n : Append(list, i)[k] = list[k]
        /\ Append(list, i)[n + 1] = i
    BY <2>1, AppendProperties
  <2>5. \A k \in 1 .. n : IntervalOf(list[k], l)  BY <2>1 DEF Fits
  <2>6. \A j, k \in 1 .. n : j # k => Apart(list[j], list[k])  BY <2>1 DEF Fits
  <2>7. \A k \in 1 .. n + 1 : k \in 1 .. n \/ k = n + 1  BY <2>1
  <2>8. \A k \in 1 .. n + 1 : IntervalOf(Append(list, i)[k], l)  BY <2>3, <2>4, <2>5, <2>7
  <2>9. \A j, k \in 1 .. n + 1 : j # k => Apart(Append(list, i)[j], Append(list, i)[k])
    BY <2>3, <2>4, <2>6, <2>7 DEF Apart
  <2>10. Fits(Append(list, i), l)  BY <2>4, <2>8, <2>9 DEF Fits
  <2>11. \A k \in DOMAIN list : \E j \in DOMAIN Append(list, i) : Append(list, i)[j] = list[k]
    BY <2>1, <2>4
  <2>12. \E j \in DOMAIN Append(list, i) : Append(list, i)[j] = i
    BY <2>1, <2>4
  <2>. QED  BY <2>2, <2>10, <2>11, <2>12 DEF i
<1>. QED  BY <1>1, <1>2

LEMMA HugeIntervalsFit ==
    ASSUME NEW l \in Layouts, Plausible(l), PoolMatchesOffsets(l)
    PROVE  /\ Fits(HugeIntervals(l), l) /\ InOrder(HugeIntervals(l))
           /\ HasHuge(HugeIntervals(l), l)
<1>. DEFINE one == AddInterval(<<>>, l.start_1gb, l.end_1gb, HUGE_1GB)
            two == AddInterval(one, l.start_2mb, l.end_2mb, HUGE_2MB)
            i == Interval(l.start_1gb, l.end_1gb, HUGE_1GB)
            j == Interval(l.start_2mb, l.end_2mb, HUGE_2MB)
<1>1. /\ l.pool_size \in Nat /\ l.start_1gb \in Nat /\ l.end_1gb \in Nat
      /\ l.start_2mb \in Nat /\ l.end_2mb \in Nat
  BY LayoutNat
<1>2. l.end_1gb <= l.pool_size /\ l.end_2mb <= l.pool_size
  <2>1. \E x \in {l.end_1gb, l.end_2mb} : \A y \in {l.end_1gb, l.end_2mb} : x >= y
    BY <1>1
  <2>. QED  BY <1>1, <2>1 DEF PoolMatchesOffsets, Max
<1>3. l.start_1gb < l.end_1gb => IntervalOf(i, l)
  BY <1>1, <1>2, PageSizes DEF Plausible, IntervalOf, MemoryInterval, Interval, PageSize,
     Size1GB
<1>4. l.start_2mb < l.end_2mb => IntervalOf(j, l)
  BY <1>1, <1>2, PageSizes DEF Plausible, IntervalOf, MemoryInterval, Interval, PageSize,
     Size2MB
<1>5. l.start_1gb < l.end_1gb /\ l.start_2mb < l.end_2mb => Apart(i, j) /\ Apart(j, i)
  BY <1>1 DEF Plausible, Apart, Interval, Size1GB, Size2MB
<1>6. Fits(<<>>, l)  BY DEF Fits
<1>7. Fits(one, l)  BY <1>3, <1>6, AddFits
<1>8. ASSUME l.start_2mb < l.end_2mb, NEW k \in DOMAIN one  PROVE Apart(one[k], j)
  <2>1. CASE ~(l.start_1gb < l.end_1gb)  BY <1>8, <2>1 DEF AddInterval
  <2>2. CASE l.start_1gb < l.end_1gb
    <3>1. one = Append(<<>>, i)  BY <2>2 DEF AddInterval
    <3>2. i \in MemoryInterval /\ <<>> \in Seq(MemoryInterval) /\ Len(<<>>) = 0
      BY <1>3, <2>2 DEF IntervalOf
    <3>. HIDE DEF i
    <3>3. one[k] = i
      <4>. HIDE DEF one
      <4>1. DOMAIN one = 1 .. 1 /\ one[1] = i  BY <3>1, <3>2, AppendProperties
      <4>. QED  BY <4>1
    <3>. QED  BY <1>5, <1>8, <2>2, <3>3
  <2>. QED  BY <2>1, <2>2
<1>. HIDE DEF one
<1>9. Fits(two, l)  BY <1>4, <1>7, <1>8, AddFits
<1>. HIDE DEF two
<1>10. HugeIntervals(l) = Sort(two)  BY DEF HugeIntervals, two, one
<1>11. /\ l.start_1gb < l.end_1gb => \E k \in DOMAIN one : one[k] = i
       /\ \A k \in DOMAIN one : \E m \in DOMAIN two : two[m] = one[k]
       /\ l.start_2mb < l.end_2mb => \E k \in DOMAIN two : two[k] = j
  BY <1>3, <1>4, <1>6, <1>7, <1>8, AddFits DEF one, two
<1>12. Size1GB(l) > 0 => l.start_1gb < l.end_1gb  BY <1>1 DEF Size1GB
<1>13. Size2MB(l) > 0 => l.start_2mb < l.end_2mb  BY <1>1 DEF Size2MB
<1>14. HasHuge(two, l)  BY <1>11, <1>12, <1>13 DEF HasHuge
<1>15. /\ Fits(Sort(two), l) /\ InOrder(Sort(two))
       /\ \A k \in DOMAIN two : \E m \in DOMAIN Sort(two) : Sort(two)[m] = two[k]
  BY <1>9, SortFits
<1>16. HasHuge(Sort(two), l)  BY <1>14, <1>15 DEF HasHuge
<1>. QED  BY <1>10, <1>15, <1>16

LEMMA IntervalFields ==
    ASSUME NEW l, NEW i, IntervalOf(i, l)
    PROVE  /\ i \in MemoryInterval /\ i.lo \in Nat /\ i.hi \in Nat
           /\ i.lo < i.hi /\ i.hi <= l.pool_size
           /\ i.page \in PageSize /\ i.page \in Nat \ {0}
           /\ IS_ALIGNED(i.page, BASE_4KB) /\ BASE_4KB \in Nat \ {0}
           /\ IS_ALIGNED(i.lo, BASE_4KB) /\ IS_ALIGNED(i.hi - i.lo, i.page)
<1>1. /\ i \in MemoryInterval /\ i.lo < i.hi /\ i.hi <= l.pool_size
      /\ IS_ALIGNED(i.lo, BASE_4KB) /\ IS_ALIGNED(i.hi - i.lo, i.page)
  BY DEF IntervalOf
<1>2. i.lo \in Nat /\ i.hi \in Nat /\ i.page \in PageSize  BY <1>1 DEF MemoryInterval
<1>. QED  BY <1>1, <1>2, PageSizes

LEMMA BoundsAligned ==
    ASSUME NEW l, NEW i, IntervalOf(i, l)
    PROVE  IS_ALIGNED(i.lo, BASE_4KB) /\ IS_ALIGNED(i.hi, BASE_4KB)
<1>1. i.lo \in Nat /\ i.hi \in Nat  BY IntervalFields
<1>2. IS_ALIGNED(i.lo, BASE_4KB) /\ IS_ALIGNED(i.hi - i.lo, i.page)  BY IntervalFields
<1>3. i.page \in Nat \ {0} /\ IS_ALIGNED(i.page, BASE_4KB) /\ BASE_4KB \in Nat \ {0}
  BY IntervalFields
<1>. DEFINE size == i.hi - i.lo
<1>4. size \in Int /\ i.lo \in Int /\ i.lo + size = i.hi /\ IS_ALIGNED(size, i.page)
  BY <1>1, <1>2
<1>. HIDE DEF size
<1>5. IS_ALIGNED(size, BASE_4KB)  BY <1>3, <1>4, AlignedTrans
<1>6. IS_ALIGNED(i.lo + size, BASE_4KB)  BY <1>2, <1>3, <1>4, <1>5, AlignedSum
<1>. QED  BY <1>2, <1>4, <1>6

\* Every nonempty set of natural numbers has a least element.
LEMMA LeastNat ==
    ASSUME NEW T \in SUBSET Nat, T # {}
    PROVE  \E least \in T : \A t \in T : least <= t
<1>1. \E least \in T : \A t \in T : ~(<<t, least>> \in OpToRel(<, Nat))
  <2>1. IsWellFoundedOn(OpToRel(<, Nat), Nat)  BY NatLessThanWellFounded
  <2>. HIDE DEF OpToRel
  <2>. QED  BY <2>1, WFMin
<1>2. PICK least \in T : \A t \in T : ~(<<t, least>> \in OpToRel(<, Nat))  BY <1>1
<1>3. \A t \in T : ~(t < least)  BY <1>2 DEF OpToRel
<1>. QED  BY <1>3

LEMMA SetToSeqIs ==
    ASSUME NEW S, IsFiniteSet(S)
    PROVE  /\ Cardinality(S) \in Nat
           /\ SetToSeq(S) \in [1 .. Cardinality(S) -> S]
           /\ \A j, k \in 1 .. Cardinality(S) : j # k => SetToSeq(S)[j] # SetToSeq(S)[k]
           /\ \A x \in S : \E k \in 1 .. Cardinality(S) : SetToSeq(S)[k] = x
<1>. DEFINE n == Cardinality(S)
<1>1. n \in Nat /\ ExistsBijection(1 .. n, S)  BY FS_CardinalityType
<1>2. \E f \in [1 .. n -> S] : IsInjective(f)
  BY <1>1 DEF ExistsBijection, Bijection, Injection
<1>3. SetToSeq(S) \in [1 .. n -> S] /\ IsInjective(SetToSeq(S))  BY <1>2 DEF SetToSeq
<1>. HIDE DEF n
<1>4. SetToSeq(S) \in Injection(1 .. n, S)  BY <1>3 DEF Injection
<1>5. Cardinality(1 .. n) = n  BY <1>1, FS_Interval
<1>6. SetToSeq(S) \in Surjection(1 .. n, S)  BY <1>4, <1>5, FS_Injection DEF n
<1>7. \A j, k \in 1 .. n : j # k => SetToSeq(S)[j] # SetToSeq(S)[k]
  BY <1>3 DEF IsInjective
<1>. QED  BY <1>1, <1>3, <1>6, <1>7 DEF Surjection, n

\* The intervals of huge pages and the gaps between them share the pool.
LEMMA IntervalsPartition ==
    ASSUME NEW l \in Layouts, Plausible(l), PoolMatchesOffsets(l)
    PROVE  Partition(Intervals(l), l)
<1>. DEFINE huge == HugeIntervals(l)
            m == Len(huge)
            Start(i) == IF i = 1 THEN 0 ELSE huge[i - 1].hi
            End(i) == IF i = m + 1 THEN l.pool_size ELSE huge[i].lo
            gaps == {i \in 1 .. m + 1 : Start(i) < End(i)}
            Gap(i) == Interval(Start(i), End(i), BASE_4KB)
            S == {Gap(i) : i \in gaps}
            fill == SetToSeq(S)
            n == Cardinality(S)
            all == huge \o fill
<1>1. Fits(huge, l) /\ InOrder(huge) /\ HasHuge(huge, l)  BY HugeIntervalsFit
<1>2. l.pool_size \in Nat /\ l.pool_size > 0 /\ IS_ALIGNED(l.pool_size, BASE_4KB)
  BY LayoutNat
<1>3. Intervals(l) = Sort(all)  BY DEF Intervals
<1>. HIDE DEF huge
<1>4. huge \in Seq(MemoryInterval) /\ m \in Nat /\ DOMAIN huge = 1 .. m
  BY <1>1 DEF Fits
<1>5. /\ \A i \in 1 .. m : IntervalOf(huge[i], l)
      /\ \A i, j \in 1 .. m : i # j => Apart(huge[i], huge[j])
      /\ \A i, j \in 1 .. m : i < j => huge[i].hi <= huge[j].lo
  BY <1>1, <1>4 DEF Fits, InOrder
<1>. HIDE DEF m
<1>6. \A i \in 1 .. m : /\ huge[i].lo \in Nat /\ huge[i].hi \in Nat
                        /\ huge[i].lo < huge[i].hi /\ huge[i].hi <= l.pool_size
                        /\ IS_ALIGNED(huge[i].lo, BASE_4KB) /\ IS_ALIGNED(huge[i].hi, BASE_4KB)
  BY <1>5, BoundsAligned DEF IntervalOf, MemoryInterval
<1>7. ASSUME NEW i \in 1 .. m + 1
      PROVE  /\ Start(i) \in Nat /\ End(i) \in Nat /\ End(i) <= l.pool_size
             /\ IS_ALIGNED(Start(i), BASE_4KB) /\ IS_ALIGNED(End(i), BASE_4KB)
  <2>1. IS_ALIGNED(0, BASE_4KB)
    BY PageSizes DEF IS_ALIGNED
  <2>2. i # 1 => i - 1 \in 1 .. m  BY <1>4
  <2>3. i # m + 1 => i \in 1 .. m  BY <1>4
  <2>. QED  BY <1>2, <1>6, <2>1, <2>2, <2>3
<1>8. ASSUME NEW i \in gaps  PROVE IntervalOf(Gap(i), l)
  <2>1. /\ Start(i) \in Nat /\ End(i) \in Nat /\ End(i) <= l.pool_size
        /\ IS_ALIGNED(Start(i), BASE_4KB) /\ IS_ALIGNED(End(i), BASE_4KB)
        /\ Start(i) < End(i)
    BY <1>7
  <2>. HIDE DEF Start, End
  <2>2. IS_ALIGNED(End(i) - Start(i), BASE_4KB)  BY <2>1, PageSizes, AlignedSum
  <2>. QED  BY <2>1, <2>2, PageSizes DEF IntervalOf, MemoryInterval, Interval, PageSize
<1>9. ASSUME NEW i \in gaps, NEW j \in 1 .. m  PROVE Apart(Gap(i), huge[j])
  <2>1. CASE j >= i
    <3>1. i # m + 1 /\ i \in 1 .. m  BY <1>4, <2>1
    <3>2. End(i) <= huge[j].lo  BY <1>5, <1>6, <2>1, <3>1
    <3>. QED  BY <3>2 DEF Apart, Interval
  <2>2. CASE j < i
    <3>1. i # 1 /\ i - 1 \in 1 .. m /\ (j = i - 1 \/ j < i - 1)  BY <1>4, <2>2
    <3>2. huge[j].hi <= Start(i)  BY <1>5, <1>6, <3>1
    <3>. QED  BY <3>2 DEF Apart, Interval
  <2>. QED  BY <1>4, <2>1, <2>2
<1>10. ASSUME NEW i \in gaps, NEW j \in gaps, i < j  PROVE Gap(i).hi <= Gap(j).lo
  <2>1. i # m + 1 /\ i \in 1 .. m /\ j # 1 /\ j - 1 \in 1 .. m /\ (i = j - 1 \/ i < j - 1)
    BY <1>4, <1>10
  <2>2. End(i) <= Start(j)  BY <1>5, <1>6, <2>1
  <2>. QED  BY <2>2 DEF Interval
<1>11. ASSUME NEW offset \in 0 .. l.pool_size - 1,
              \A j \in 1 .. m : ~In(offset, huge[j])
       PROVE  \E i \in gaps : In(offset, Gap(i))
  <2>. DEFINE After == {i \in 1 .. m + 1 : i = m + 1 \/ offset < huge[i].lo}
  <2>1. After \subseteq Nat /\ m + 1 \in After  BY <1>4
  <2>2. PICK i \in After : \A j \in After : i <= j  BY <2>1, LeastNat
  <2>3. offset < End(i)  BY <1>2, <1>4, <1>11, <2>2
  <2>4. Start(i) <= offset
    <3>1. CASE i = 1  BY <3>1
    <3>2. CASE i # 1
      <4>1. i - 1 \in 1 .. m /\ i - 1 \notin After  BY <1>4, <2>2, <3>2
      <4>2. ~(offset < huge[i - 1].lo) /\ ~In(offset, huge[i - 1])  BY <1>4, <1>11, <4>1
      <4>. QED  BY <1>6, <3>2, <4>1, <4>2 DEF In
    <3>. QED  BY <3>1, <3>2
  <2>5. Start(i) \in Nat /\ End(i) \in Nat  BY <1>7, <2>2
  <2>6. i \in gaps  BY <2>2, <2>3, <2>4, <2>5
  <2>. QED  BY <2>3, <2>4, <2>5, <2>6 DEF In, Interval
<1>12. IsFiniteSet(S)
  <2>. DEFINE f == [i \in gaps |-> Gap(i)]
  <2>1. f \in Surjection(gaps, S)  BY DEF Surjection
  <2>2. IsFiniteSet(1 .. m + 1)  BY <1>4, FS_Interval
  <2>3. IsFiniteSet(gaps)  BY <2>2, FS_Subset
  <2>. QED  BY <2>1, <2>3, FS_Surjection
<1>13. /\ n \in Nat /\ fill \in [1 .. n -> S]
       /\ \A j, k \in 1 .. n : j # k => fill[j] # fill[k]
       /\ \A x \in S : \E k \in 1 .. n : fill[k] = x
  BY <1>12, SetToSeqIs
<1>. HIDE DEF fill, n
<1>14. \A k \in 1 .. n : \E i \in gaps : fill[k] = Gap(i)  BY <1>13
<1>15. \A k \in 1 .. n : IntervalOf(fill[k], l)  BY <1>8, <1>14
<1>16. \A k \in 1 .. n, j \in 1 .. m : Apart(fill[k], huge[j])  BY <1>9, <1>14
<1>17. ASSUME NEW j \in 1 .. n, NEW k \in 1 .. n, j # k  PROVE Apart(fill[j], fill[k])
  <2>1. PICK p \in gaps : fill[j] = Gap(p)  BY <1>14
  <2>2. PICK q \in gaps : fill[k] = Gap(q)  BY <1>14
  <2>3. p < q \/ q < p  BY <1>4, <1>13, <1>17, <2>1, <2>2
  <2>. HIDE DEF Gap, gaps
  <2>. QED  BY <1>10, <2>1, <2>2, <2>3 DEF Apart
<1>. HIDE DEF gaps, Gap, S
<1>18. fill \in Seq(MemoryInterval) /\ Len(fill) = n
  <2>1. \A k \in 1 .. n : fill[k] \in MemoryInterval  BY <1>15 DEF IntervalOf
  <2>2. fill \in [1 .. n -> MemoryInterval]  BY <1>13, <2>1
  <2>. QED  BY <1>13, <2>2
<1>19. /\ all \in Seq(MemoryInterval) /\ DOMAIN all = 1 .. m + n
       /\ \A i \in 1 .. m : all[i] = huge[i]
       /\ \A k \in 1 .. n : all[m + k] = fill[k]
  <2>1. /\ all \in Seq(MemoryInterval) /\ Len(all) = m + n
        /\ \A i \in 1 .. m + n : all[i] = IF i <= m THEN huge[i] ELSE fill[i - m]
    BY <1>4, <1>18, ConcatProperties DEF m
  <2>. HIDE DEF all
  <2>. QED  BY <1>4, <1>13, <2>1
<1>. HIDE DEF all
<1>20. \A i \in 1 .. m + n : i \in 1 .. m \/ \E k \in 1 .. n : i = m + k
  <2>1. \A i \in 1 .. m + n : i \notin 1 .. m => i - m \in 1 .. n /\ i = m + (i - m)
    BY <1>4, <1>13
  <2>. QED  BY <2>1
<1>21. Fits(all, l)
  <2>1. \A i \in 1 .. m + n : IntervalOf(all[i], l)  BY <1>5, <1>15, <1>19, <1>20
  <2>2. ASSUME NEW i \in 1 .. m + n, NEW j \in 1 .. m + n, i # j  PROVE Apart(all[i], all[j])
    <3>1. CASE i \in 1 .. m /\ j \in 1 .. m  BY <1>5, <1>19, <2>2, <3>1
    <3>2. CASE i \in 1 .. m /\ j \notin 1 .. m
      BY <1>16, <1>19, <1>20, <3>2 DEF Apart
    <3>3. CASE i \notin 1 .. m /\ j \in 1 .. m
      BY <1>16, <1>19, <1>20, <3>3 DEF Apart
    <3>4. CASE i \notin 1 .. m /\ j \notin 1 .. m
      <4>1. PICK p \in 1 .. n : i = m + p  BY <1>20, <3>4
      <4>2. PICK q \in 1 .. n : j = m + q  BY <1>20, <3>4
      <4>. QED  BY <1>17, <1>19, <2>2, <4>1, <4>2
    <3>. QED  BY <3>1, <3>2, <3>3, <3>4
  <2>. QED  BY <1>19, <2>1, <2>2 DEF Fits
<1>22. ASSUME NEW offset \in 0 .. l.pool_size - 1
       PROVE  \E i \in 1 .. m + n : In(offset, all[i])
  <2>1. CASE \E j \in 1 .. m : In(offset, huge[j])
    <3>1. PICK j \in 1 .. m : In(offset, huge[j])  BY <2>1
    <3>2. j \in 1 .. m + n  BY <1>4, <1>13
    <3>. QED  BY <1>19, <3>1, <3>2
  <2>2. CASE \A j \in 1 .. m : ~In(offset, huge[j])
    <3>1. PICK i \in gaps : In(offset, Gap(i))  BY <1>11, <2>2
    <3>2. PICK k \in 1 .. n : fill[k] = Gap(i)  BY <1>13 DEF S
    <3>3. m + k \in 1 .. m + n  BY <1>4, <1>13
    <3>. QED  BY <1>19, <3>1, <3>2, <3>3
  <2>. QED  BY <2>1, <2>2
<1>23. Covers(Sort(all), l.pool_size)
  BY <1>19, <1>21, <1>22, SortFits, ZenonT(60) DEF Covers
<1>24. HasHuge(Sort(all), l)
  <2>1. \A i \in 1 .. m : i \in 1 .. m + n  BY <1>4, <1>13
  <2>2. HasHuge(all, l)  BY <1>1, <1>4, <1>19, <2>1 DEF HasHuge
  <2>3. \A k \in DOMAIN all : \E j \in DOMAIN Sort(all) : Sort(all)[j] = all[k]
    BY <1>21, SortFits
  <2>. QED  BY <2>2, <2>3 DEF HasHuge
<1>. QED  BY <1>3, <1>21, <1>23, <1>24, SortFits DEF Partition

-----------------------------------------------------------------------------
(* Sizes of the region.                                                    *)

\* An offset at which a page of interval i begins or the interval ends.
OnPage(b, i) == b \in i.lo .. i.hi /\ IS_ALIGNED(b - i.lo, i.page)

LEMMA OnPageAligned ==
    ASSUME NEW l, NEW i, IntervalOf(i, l), NEW b \in Int, OnPage(b, i)
    PROVE  IS_ALIGNED(b, BASE_4KB)
<1>. DEFINE size == b - i.lo
<1>1. i.lo \in Int /\ i.page \in Nat \ {0} /\ IS_ALIGNED(i.page, BASE_4KB)
      /\ BASE_4KB \in Nat \ {0} /\ IS_ALIGNED(i.lo, BASE_4KB)
  BY IntervalFields
<1>2. size \in Int /\ IS_ALIGNED(size, i.page) /\ i.lo + size = b  BY <1>1 DEF OnPage
<1>. HIDE DEF size
<1>3. IS_ALIGNED(size, BASE_4KB)  BY <1>1, <1>2, AlignedTrans
<1>4. IS_ALIGNED(i.lo + size, BASE_4KB)  BY <1>1, <1>2, <1>3, AlignedSum
<1>. QED  BY <1>2, <1>4

LEMMA TimesMonotonic ==
    ASSUME NEW p \in Int, NEW q \in Int, NEW m \in Nat \ {0}
    PROVE  p <= q <=> p * m <= q * m
OBVIOUS

LEMMA BoundaryIs ==
    ASSUME NEW l, Fits(region_intervals, l)
    PROVE  \A b : b \in Boundaries <=>
               b = 0 \/ \E k \in DOMAIN region_intervals : OnPage(b, region_intervals[k])
<1>1. ASSUME NEW k \in DOMAIN region_intervals
      PROVE  LET i == region_intervals[k]
             IN  \A b : OnPage(b, i) <=> \E c \in 0 .. (i.hi - i.lo) \div i.page :
                                             b = i.lo + c * i.page
  <2>. DEFINE i == region_intervals[k]
              size == i.hi - i.lo
              n == size \div i.page
  <2>1. /\ i.lo \in Nat /\ i.hi \in Nat /\ i.lo < i.hi /\ i.page \in Nat \ {0}
        /\ IS_ALIGNED(size, i.page)
    BY PageSizes DEF Fits, IntervalOf, MemoryInterval
  <2>2. size \in Nat /\ i.lo + size = i.hi  BY <2>1
  <2>. HIDE DEF i, size
  <2>3. n \in Nat /\ size = n * i.page  BY <2>1, <2>2 DEF IS_ALIGNED
  <2>. HIDE DEF n
  <2>4. ASSUME NEW c \in 0 .. n  PROVE OnPage(i.lo + c * i.page, i)
    <3>1. c * i.page \in Int /\ 0 * i.page <= c * i.page /\ c * i.page <= n * i.page
      BY <2>1, <2>3, TimesMonotonic
    <3>2. 0 * i.page = 0 /\ i.lo + c * i.page - i.lo = c * i.page  BY <2>1, <3>1
    <3>3. IS_ALIGNED(c * i.page, i.page)
      <4>1. c \in Int /\ i.page \in Nat \ {0}  BY <2>1, <2>3
      <4>. QED  BY <4>1, AlignedTimes
    <3>. QED  BY <2>1, <2>2, <2>3, <3>1, <3>2, <3>3 DEF OnPage
  <2>5. ASSUME NEW b, OnPage(b, i)  PROVE \E c \in 0 .. n : b = i.lo + c * i.page
    <3>1. b \in Int /\ b - i.lo \in Int /\ 0 <= b - i.lo /\ b - i.lo <= size
          /\ IS_ALIGNED(b - i.lo, i.page)
      BY <2>1, <2>2, <2>5 DEF OnPage
    <3>2. PICK c \in Int : b - i.lo = c * i.page  BY <2>1, <3>1, AlignedIs
    <3>3. 0 * i.page <= c * i.page /\ c * i.page <= n * i.page  BY <2>1, <2>3, <3>1, <3>2
    <3>4. 0 <= c /\ c <= n  BY <2>1, <2>3, <3>3, TimesMonotonic
    <3>. QED  BY <2>1, <2>3, <3>1, <3>2, <3>4
  <2>. QED  BY <2>4, <2>5 DEF i, size, n
<1>2. DOMAIN region_intervals = 1 .. Len(region_intervals)  BY DEF Fits
<1>. QED  BY <1>1, <1>2 DEF Boundaries, Range

LEMMA RoundedUp ==
    ASSUME NEW l, NEW i, IntervalOf(i, l), NEW s \in i.lo .. i.hi
    PROVE  LET t == i.lo + ROUND_UP(s - i.lo, i.page)
           IN  /\ t \in Nat /\ s <= t /\ OnPage(t, i)
               /\ \A b : OnPage(b, i) /\ s <= b => t <= b
               /\ s = i.lo => t = s
<1>. DEFINE d == s - i.lo
            r == ROUND_UP(d, i.page)
<1>1. /\ i.lo \in Nat /\ i.hi \in Nat /\ i.page \in Nat \ {0}
      /\ IS_ALIGNED(i.hi - i.lo, i.page) /\ d \in Nat /\ s = i.lo + d
  <2>1. /\ i.lo \in Nat /\ i.hi \in Nat /\ i.page \in Nat \ {0}
        /\ IS_ALIGNED(i.hi - i.lo, i.page)
    BY IntervalFields
  <2>. QED  BY <2>1
<1>. HIDE DEF d
<1>2. r \in Nat /\ d <= r /\ r < d + i.page  BY <1>1, RoundUp
<1>3. IS_ALIGNED(r, i.page) /\ \A b \in Int : IS_ALIGNED(b, i.page) /\ d <= b => r <= b
  BY <1>1, RoundUpLeast
<1>4. d = 0 => r = 0
  <2>1. d = 0 => IS_ALIGNED(0, i.page)  BY <1>1 DEF IS_ALIGNED
  <2>. QED  BY <1>2, <1>3, <2>1
<1>. HIDE DEF r
<1>5. r <= i.hi - i.lo  BY <1>1, <1>3
<1>6. i.lo + r - i.lo = r  BY <1>1, <1>2
<1>7. OnPage(i.lo + r, i)  BY <1>1, <1>2, <1>3, <1>5, <1>6 DEF OnPage
<1>8. ASSUME NEW b, OnPage(b, i), s <= b  PROVE i.lo + r <= b
  <2>1. b \in Int /\ b - i.lo \in Int /\ IS_ALIGNED(b - i.lo, i.page) /\ d <= b - i.lo
    BY <1>1, <1>8 DEF OnPage
  <2>2. r <= b - i.lo  BY <1>3, <2>1
  <2>. QED  BY <1>1, <1>2, <2>1, <2>2
<1>. QED  BY <1>1, <1>2, <1>4, <1>7, <1>8 DEF r, d

\* What SizeIsWhatIsNeeded says of a size t when s bytes were asked for.
Needed(t, s) ==
    /\ t \in Boundaries /\ s <= t
    /\ \A b \in Boundaries : s <= b => t <= b

\* The offset s is in, or at the end of, an interval that begins at or before it.
LEMMA SomeInterval ==
    ASSUME NEW l \in Layouts, Partition(region_intervals, l), NEW s \in 0 .. l.pool_size
    PROVE  \E k \in DOMAIN region_intervals :
               /\ s \in region_intervals[k].lo .. region_intervals[k].hi
               /\ s < l.pool_size => s < region_intervals[k].hi
<1>1. l.pool_size \in Nat /\ l.pool_size > 0  BY LayoutNat
<1>2. \A k \in DOMAIN region_intervals :
        /\ region_intervals[k].lo \in Nat /\ region_intervals[k].hi \in Nat
        /\ region_intervals[k].hi <= l.pool_size
  BY DEF Partition, Fits, IntervalOf, MemoryInterval
<1>3. CASE s < l.pool_size
  <2>1. PICK k \in DOMAIN region_intervals : In(s, region_intervals[k])
    BY <1>1, <1>3 DEF Partition, Covers
  <2>. QED  BY <1>2, <2>1 DEF In
<1>4. CASE s = l.pool_size
  <2>1. s - 1 \in 0 .. l.pool_size - 1  BY <1>1, <1>4
  <2>2. PICK k \in DOMAIN region_intervals : In(s - 1, region_intervals[k])
    BY <2>1 DEF Partition, Covers
  <2>. QED  BY <1>1, <1>2, <1>4, <2>2 DEF In
<1>. QED  BY <1>1, <1>3, <1>4

\* Rounding up within the interval gives the size that is needed.
LEMMA RoundedIsNeeded ==
    ASSUME NEW l \in Layouts, Partition(region_intervals, l),
           NEW k \in DOMAIN region_intervals,
           NEW s \in region_intervals[k].lo .. region_intervals[k].hi
    PROVE  LET i == region_intervals[k]
           IN  Needed(i.lo + ROUND_UP(s - i.lo, i.page), s)
<1>. DEFINE i == region_intervals[k]
            t == i.lo + ROUND_UP(s - i.lo, i.page)
<1>1. Fits(region_intervals, l) /\ InOrder(region_intervals) /\ IntervalOf(i, l)
  BY DEF Partition, Fits
<1>2. /\ t \in Nat /\ s <= t /\ OnPage(t, i)
      /\ \A b : OnPage(b, i) /\ s <= b => t <= b
      /\ s = i.lo => t = s
  BY <1>1, RoundedUp
<1>. HIDE DEF t
<1>3. t \in Boundaries  BY <1>1, <1>2, BoundaryIs
<1>4. i.lo \in Nat /\ i.hi \in Nat /\ s \in i.lo .. i.hi  BY <1>1 DEF IntervalOf, MemoryInterval
<1>5. ASSUME NEW b \in Boundaries, s <= b  PROVE t <= b
  <2>1. CASE b = 0  BY <1>2, <1>4, <1>5, <2>1
  <2>2. ASSUME NEW j \in DOMAIN region_intervals, OnPage(b, region_intervals[j])
        PROVE  t <= b
    <3>. DEFINE o == region_intervals[j]
    <3>1. o.lo \in Nat /\ o.hi \in Nat /\ b \in o.lo .. o.hi
      BY <1>1, <2>2 DEF Fits, IntervalOf, MemoryInterval, OnPage
    <3>2. j \in Int /\ k \in Int  BY <1>1 DEF Fits
    <3>3. CASE j = k  BY <1>2, <1>5, <2>2, <3>3
    <3>4. CASE j < k
      <4>1. o.hi <= i.lo  BY <1>1, <3>4 DEF InOrder
      <4>. QED  BY <1>2, <1>4, <1>5, <3>1, <4>1
    <3>5. CASE k < j
      <4>1. i.hi <= o.lo  BY <1>1, <3>5 DEF InOrder
      <4>2. t <= i.hi  BY <1>2 DEF OnPage
      <4>. QED  BY <1>2, <1>4, <3>1, <4>1, <4>2
    <3>. QED  BY <3>2, <3>3, <3>4, <3>5
  <2>. QED  BY <1>1, <1>5, <2>1, <2>2, BoundaryIs
<1>. QED  BY <1>2, <1>3, <1>5 DEF Needed, t

LEMMA NeededNat ==
    ASSUME NEW l \in Layouts, Partition(region_intervals, l)
    PROVE  /\ Boundaries \subseteq 0 .. l.pool_size
           /\ \A k \in DOMAIN region_intervals :
                 region_intervals[k].lo \in Boundaries /\ region_intervals[k].hi \in Boundaries
<1>1. Fits(region_intervals, l) /\ l.pool_size \in Nat  BY LayoutNat DEF Partition
<1>2. ASSUME NEW k \in DOMAIN region_intervals
      PROVE  /\ region_intervals[k].lo \in Boundaries /\ region_intervals[k].hi \in Boundaries
             /\ \A b : OnPage(b, region_intervals[k]) => b \in 0 .. l.pool_size
  <2>. DEFINE i == region_intervals[k]
  <2>1. /\ i.lo \in Nat /\ i.hi \in Nat /\ i.page \in Nat \ {0} /\ i.lo < i.hi
        /\ i.hi <= l.pool_size /\ IS_ALIGNED(i.hi - i.lo, i.page)
    BY <1>1, PageSizes DEF Fits, IntervalOf, MemoryInterval
  <2>. HIDE DEF i
  <2>2. i.lo - i.lo = 0 /\ IS_ALIGNED(0, i.page)  BY <2>1 DEF IS_ALIGNED
  <2>3. OnPage(i.lo, i) /\ OnPage(i.hi, i)  BY <2>1, <2>2 DEF OnPage
  <2>4. \A b : OnPage(b, i) => b \in 0 .. l.pool_size  BY <1>1, <2>1 DEF OnPage
  <2>. QED  BY <1>1, <2>3, <2>4, BoundaryIs DEF i
<1>. QED  BY <1>1, <1>2, BoundaryIs

-----------------------------------------------------------------------------
(* What Resize maps and unmaps.                                            *)

\* The parts divide the bytes between two sizes among the intervals.
PartsAre(parts, from, to) ==
    /\ DOMAIN parts \subseteq DOMAIN region_intervals
    /\ \A k \in DOMAIN parts :
         /\ parts[k].lo \in Nat /\ parts[k].hi \in Nat /\ parts[k].lo <= parts[k].hi
         /\ from <= parts[k].lo /\ parts[k].hi <= to
         /\ parts[k].page = region_intervals[k].page
         /\ OnPage(parts[k].lo, region_intervals[k])
         /\ OnPage(parts[k].hi, region_intervals[k])
    /\ \A offset \in from .. to - 1 :
         \E k \in DOMAIN parts : In(offset, parts[k]) /\ In(offset, region_intervals[k])

LEMMA NeededUnique ==
    ASSUME NEW l \in Layouts, Partition(region_intervals, l), NEW s,
           NEW t, NEW u, Needed(t, s), Needed(u, s)
    PROVE  t = u
BY NeededNat DEF Needed

\* A size between whole pages, seen from an interval.
LEMMA OnPageOfInterval ==
    ASSUME NEW l \in Layouts, Partition(region_intervals, l), NEW b \in Boundaries,
           NEW k \in DOMAIN region_intervals,
           region_intervals[k].lo <= b, b <= region_intervals[k].hi
    PROVE  OnPage(b, region_intervals[k])
<1>. DEFINE i == region_intervals[k]
<1>1. Fits(region_intervals, l) /\ InOrder(region_intervals) /\ b \in Nat
  BY NeededNat DEF Partition
<1>2. /\ i.lo \in Nat /\ i.hi \in Nat /\ i.page \in Nat \ {0} /\ i.lo < i.hi
      /\ IS_ALIGNED(i.hi - i.lo, i.page)
  BY <1>1, IntervalFields DEF Fits
<1>3. OnPage(i.lo, i) /\ OnPage(i.hi, i)
  <2>1. i.lo - i.lo = 0 /\ IS_ALIGNED(0, i.page)  BY <1>2 DEF IS_ALIGNED
  <2>. QED  BY <1>2, <2>1 DEF OnPage
<1>4. CASE b = 0  BY <1>2, <1>3, <1>4
<1>5. ASSUME NEW j \in DOMAIN region_intervals, OnPage(b, region_intervals[j])
      PROVE  OnPage(b, i)
  <2>1. j \in Int /\ k \in Int  BY <1>1 DEF Fits
  <2>2. b \in region_intervals[j].lo .. region_intervals[j].hi  BY <1>5 DEF OnPage
  <2>3. region_intervals[j].lo \in Nat /\ region_intervals[j].hi \in Nat
    BY <1>1, IntervalFields DEF Fits
  <2>4. CASE j = k  BY <1>5, <2>4
  <2>5. CASE j < k
    <3>1. region_intervals[j].hi <= i.lo  BY <1>1, <2>5 DEF InOrder
    <3>2. b = i.lo  BY <1>1, <1>2, <2>2, <2>3, <3>1
    <3>. QED  BY <1>3, <3>2
  <2>6. CASE k < j
    <3>1. i.hi <= region_intervals[j].lo  BY <1>1, <2>6 DEF InOrder
    <3>2. b = i.hi  BY <1>1, <1>2, <2>2, <2>3, <3>1
    <3>. QED  BY <1>3, <3>2
  <2>. QED  BY <2>1, <2>4, <2>5, <2>6
<1>. QED  BY <1>1, <1>4, <1>5, BoundaryIs

\* Growing maps what lies between the size there is and the size needed.
LEMMA ExtendIs ==
    ASSUME NEW l \in Layouts, Partition(region_intervals, l),
           region_current_size \in Boundaries,
           NEW s \in 0 .. l.pool_size, region_current_size < s,
           NEW t, Needed(t, s)
    PROVE  /\ PartsAre(ExtendedParts(s), region_current_size, t)
           /\ DOMAIN ExtendedParts(s) # {}
           /\ ExtendedParts(s)[Max(DOMAIN ExtendedParts(s))].hi = t
<1>. DEFINE parts == ExtendedParts(s)
            cur == region_current_size
            list == region_intervals
<1>1. Fits(list, l) /\ InOrder(list) /\ l.pool_size \in Nat /\ Covers(list, l.pool_size)
  BY LayoutNat DEF Partition
<1>2. cur \in Nat /\ t \in 0 .. l.pool_size /\ s <= t /\ t \in Boundaries
      /\ \A b \in Boundaries : s <= b => t <= b
  BY NeededNat DEF Needed
<1>3. \A k \in DOMAIN list :
         /\ list[k].lo \in Nat /\ list[k].hi \in Nat /\ list[k].lo < list[k].hi
         /\ list[k].lo \in Boundaries /\ list[k].hi \in Boundaries
         /\ k \in Nat
  BY <1>1, IntervalFields, NeededNat DEF Fits
<1>4. DOMAIN parts = {k \in DOMAIN list : list[k].lo <= s /\ cur < list[k].hi}
  <2>1. \A k \in DOMAIN list : Extends(list[k], s) <=> list[k].lo <= s /\ cur < list[k].hi
    BY <1>2, <1>3 DEF Extends
  <2>. QED  BY <2>1 DEF ExtendedParts
<1>5. ASSUME NEW k \in DOMAIN parts
      PROVE  /\ parts[k].lo = IF cur >= list[k].lo THEN cur ELSE list[k].lo
             /\ parts[k].hi = IF s <= list[k].hi THEN t ELSE list[k].hi
             /\ parts[k].page = list[k].page
  <2>1. k \in DOMAIN list /\ parts[k] = ExtendedPart(list[k], s)
    BY <1>4 DEF ExtendedParts
  <2>2. s <= list[k].hi => list[k].lo + ROUND_UP(s - list[k].lo, list[k].page) = t
    <3>1. s <= list[k].hi => s \in list[k].lo .. list[k].hi  BY <1>3, <1>4, <2>1
    <3>. QED  BY <2>1, <3>1, RoundedIsNeeded, NeededUnique
  <2>. QED  BY <2>1, <2>2 DEF ExtendedPart, Interval
<1>. HIDE DEF parts
<1>6. ASSUME NEW k \in DOMAIN parts
      PROVE  /\ parts[k].lo \in Nat /\ parts[k].hi \in Nat /\ parts[k].lo <= parts[k].hi
             /\ cur <= parts[k].lo /\ parts[k].hi <= t
             /\ parts[k].page = list[k].page
             /\ OnPage(parts[k].lo, list[k]) /\ OnPage(parts[k].hi, list[k])
  <2>1. k \in DOMAIN list /\ list[k].lo <= s /\ cur < list[k].hi  BY <1>4
  <2>2. s <= list[k].hi => t <= list[k].hi  BY <1>2, <1>3, <2>1
  <2>3. /\ parts[k].lo \in Boundaries /\ parts[k].hi \in Boundaries
        /\ parts[k].lo \in Nat /\ parts[k].hi \in Nat
        /\ list[k].lo <= parts[k].lo /\ parts[k].lo <= parts[k].hi
        /\ parts[k].hi <= list[k].hi
        /\ cur <= parts[k].lo /\ parts[k].hi <= t
    BY <1>2, <1>3, <1>5, <2>1, <2>2
  <2>4. parts[k].lo <= list[k].hi /\ list[k].lo <= parts[k].hi  BY <1>3, <2>1, <2>3
  <2>5. OnPage(parts[k].lo, list[k])  BY <2>1, <2>3, <2>4, OnPageOfInterval
  <2>6. OnPage(parts[k].hi, list[k])  BY <2>1, <2>3, <2>4, OnPageOfInterval
  <2>. QED  BY <1>5, <2>3, <2>5, <2>6
<1>7. ASSUME NEW offset \in cur .. t - 1
      PROVE  \E k \in DOMAIN parts : In(offset, parts[k]) /\ In(offset, list[k])
  <2>1. offset \in 0 .. l.pool_size - 1  BY <1>1, <1>2
  <2>2. PICK k \in DOMAIN list : In(offset, list[k])  BY <1>1, <2>1 DEF Covers
  <2>3. list[k].lo <= offset /\ offset < list[k].hi  BY <1>3, <2>2 DEF In
  <2>4. list[k].lo <= s  BY <1>2, <1>3, <2>3
  <2>5. k \in DOMAIN parts  BY <1>2, <1>3, <1>4, <2>3, <2>4
  <2>6. parts[k].lo <= offset /\ offset < parts[k].hi  BY <1>2, <1>3, <1>5, <2>3, <2>5
  <2>7. In(offset, parts[k])  BY <1>2, <1>6, <2>5, <2>6 DEF In
  <2>. QED  BY <2>2, <2>5, <2>7
<1>8. PartsAre(parts, cur, t)  BY <1>4, <1>6, <1>7 DEF PartsAre
<1>9. PICK k \in DOMAIN list : /\ s \in list[k].lo .. list[k].hi
                               /\ s < l.pool_size => s < list[k].hi
  BY SomeInterval
<1>10. k \in DOMAIN parts  BY <1>2, <1>3, <1>4, <1>9
<1>11. ASSUME NEW j \in DOMAIN parts  PROVE j <= k
  <2>1. SUFFICES ASSUME k < j  PROVE FALSE  BY <1>3, <1>4, <1>10
  <2>2. j \in DOMAIN list /\ list[j].lo <= s  BY <1>4
  <2>3. list[k].hi <= list[j].lo  BY <1>1, <2>1, <2>2 DEF InOrder
  <2>4. list[j].hi <= l.pool_size  BY <1>1, <2>2, IntervalFields DEF Fits
  <2>. QED  BY <1>1, <1>3, <1>9, <2>2, <2>3, <2>4
<1>12. Max(DOMAIN parts) = k
  <2>1. \A j \in DOMAIN parts : j \in Nat  BY <1>3, <1>4
  <2>2. \A j \in DOMAIN parts : k >= j  BY <1>10, <1>11, <2>1
  <2>3. \E x \in DOMAIN parts : \A y \in DOMAIN parts : x >= y  BY <1>10, <2>2
  <2>4. /\ Max(DOMAIN parts) \in DOMAIN parts
        /\ \A y \in DOMAIN parts : Max(DOMAIN parts) >= y
    BY <2>3 DEF Max
  <2>. QED  BY <1>10, <2>1, <2>2, <2>4
<1>. QED  BY <1>3, <1>5, <1>8, <1>9, <1>10, <1>12 DEF parts

\* Shrinking unmaps what lies between the size needed and the size there is.
LEMMA ShrinkIs ==
    ASSUME NEW l \in Layouts, Partition(region_intervals, l),
           region_current_size \in Boundaries,
           NEW s \in Nat, s < region_current_size,
           NEW t, Needed(t, s)
    PROVE  /\ PartsAre(ShrunkParts(s), t, region_current_size)
           /\ Min({region_current_size} \union {part.lo : part \in Range(ShrunkParts(s))}) = t
<1>. DEFINE parts == ShrunkParts(s)
            cur == region_current_size
            list == region_intervals
            ends == {cur} \union {part.lo : part \in Range(parts)}
<1>1. Fits(list, l) /\ InOrder(list) /\ l.pool_size \in Nat /\ Covers(list, l.pool_size)
  BY LayoutNat DEF Partition
<1>2. cur \in 0 .. l.pool_size /\ t \in 0 .. l.pool_size /\ s <= t /\ t <= cur
      /\ t \in Boundaries /\ \A b \in Boundaries : s <= b => t <= b
  BY <1>1, NeededNat DEF Needed
<1>3. \A k \in DOMAIN list :
         /\ list[k].lo \in Nat /\ list[k].hi \in Nat /\ list[k].lo < list[k].hi
         /\ list[k].lo \in Boundaries /\ list[k].hi \in Boundaries
  BY <1>1, IntervalFields, NeededNat DEF Fits
<1>4. DOMAIN parts = {k \in DOMAIN list : s <= list[k].hi /\ cur > list[k].lo}
  <2>1. \A k \in DOMAIN list : Shrinks(list[k], s) <=> s <= list[k].hi /\ cur > list[k].lo
    BY <1>2, <1>3 DEF Shrinks
  <2>. QED  BY <2>1 DEF ShrunkParts
<1>5. ASSUME NEW k \in DOMAIN parts
      PROVE  /\ parts[k].lo = IF s >= list[k].lo THEN t ELSE list[k].lo
             /\ parts[k].hi = IF cur <= list[k].hi THEN cur ELSE list[k].hi
             /\ parts[k].page = list[k].page
  <2>1. k \in DOMAIN list /\ parts[k] = ShrunkPart(list[k], s)
    BY <1>4 DEF ShrunkParts
  <2>2. s >= list[k].lo => list[k].lo + ROUND_UP(s - list[k].lo, list[k].page) = t
    <3>1. s >= list[k].lo => s \in list[k].lo .. list[k].hi  BY <1>3, <1>4, <2>1
    <3>. QED  BY <2>1, <3>1, RoundedIsNeeded, NeededUnique
  <2>. QED  BY <2>1, <2>2 DEF ShrunkPart, Interval
<1>. HIDE DEF parts
<1>6. ASSUME NEW k \in DOMAIN parts
      PROVE  /\ parts[k].lo \in Nat /\ parts[k].hi \in Nat /\ parts[k].lo <= parts[k].hi
             /\ t <= parts[k].lo /\ parts[k].hi <= cur
             /\ parts[k].page = list[k].page
             /\ OnPage(parts[k].lo, list[k]) /\ OnPage(parts[k].hi, list[k])
  <2>1. k \in DOMAIN list /\ s <= list[k].hi /\ cur > list[k].lo  BY <1>4
  <2>2. t <= list[k].hi  BY <1>2, <1>3, <2>1
  <2>3. ~(s >= list[k].lo) => t <= list[k].lo  BY <1>2, <1>3, <2>1
  <2>4. /\ parts[k].lo \in Boundaries /\ parts[k].hi \in Boundaries
        /\ parts[k].lo \in Nat /\ parts[k].hi \in Nat
        /\ list[k].lo <= parts[k].lo /\ parts[k].lo <= parts[k].hi
        /\ parts[k].hi <= list[k].hi
        /\ t <= parts[k].lo /\ parts[k].hi <= cur
    BY <1>2, <1>3, <1>5, <2>1, <2>2, <2>3
  <2>5. parts[k].lo <= list[k].hi /\ list[k].lo <= parts[k].hi  BY <1>3, <2>1, <2>4
  <2>6. OnPage(parts[k].lo, list[k])  BY <2>1, <2>4, <2>5, OnPageOfInterval
  <2>7. OnPage(parts[k].hi, list[k])  BY <2>1, <2>4, <2>5, OnPageOfInterval
  <2>. QED  BY <1>5, <2>4, <2>6, <2>7
<1>7. ASSUME NEW offset \in t .. cur - 1
      PROVE  \E k \in DOMAIN parts : In(offset, parts[k]) /\ In(offset, list[k])
  <2>1. offset \in 0 .. l.pool_size - 1  BY <1>1, <1>2
  <2>2. PICK k \in DOMAIN list : In(offset, list[k])  BY <1>1, <2>1 DEF Covers
  <2>3. list[k].lo <= offset /\ offset < list[k].hi  BY <1>3, <2>2 DEF In
  <2>4. k \in DOMAIN parts  BY <1>2, <1>3, <1>4, <2>3
  <2>5. parts[k].lo <= offset /\ offset < parts[k].hi  BY <1>2, <1>3, <1>5, <2>3, <2>4
  <2>6. In(offset, parts[k])  BY <1>2, <1>6, <2>4, <2>5 DEF In
  <2>. QED  BY <2>2, <2>4, <2>6
<1>8. PartsAre(parts, t, cur)  BY <1>4, <1>6, <1>7 DEF PartsAre
<1>9. PICK k \in DOMAIN list : /\ s \in list[k].lo .. list[k].hi
                               /\ s < l.pool_size => s < list[k].hi
  <2>1. s \in 0 .. l.pool_size  BY <1>1, <1>2
  <2>. QED  BY <2>1, SomeInterval
<1>10. k \in DOMAIN parts /\ parts[k].lo = t
  <2>1. k \in DOMAIN parts  BY <1>2, <1>3, <1>4, <1>9
  <2>. QED  BY <1>3, <1>5, <1>9, <2>1
<1>11. t \in ends /\ \A e \in ends : e \in Nat /\ t <= e
  <2>1. t \in ends  BY <1>10 DEF Range
  <2>2. \A k_1 \in DOMAIN parts : parts[k_1].lo \in Nat /\ t <= parts[k_1].lo  BY <1>6
  <2>3. cur \in Nat /\ t <= cur  BY <1>2
  <2>. QED  BY <2>1, <2>2, <2>3 DEF Range
<1>12. Min(ends) = t
  <2>. HIDE DEF ends
  <2>1. \E x \in ends : \A y \in ends : x =< y  BY <1>11
  <2>2. Min(ends) \in ends /\ \A y \in ends : Min(ends) =< y  BY <2>1 DEF Min
  <2>3. Min(ends) <= t /\ t <= Min(ends) /\ Min(ends) \in Nat /\ t \in Nat  BY <1>11, <2>2
  <2>. QED  BY <2>3
<1>. QED  BY <1>8, <1>12 DEF parts

-----------------------------------------------------------------------------
(* The pages of the address space.                                         *)

LEMMA PagesOfIs ==
    ASSUME NEW addr \in Int, NEW len \in Int,
           IS_ALIGNED(addr, BASE_4KB), IS_ALIGNED(addr + len, BASE_4KB)
    PROVE  \A p : p \in PagesOf(addr, len) <=>
                    p \in Int /\ addr <= p * BASE_4KB /\ p * BASE_4KB < addr + len
<1>1. BASE_4KB \in Nat \ {0} /\ addr + len \in Int  BY PageSizes
<1>2. PICK a \in Int : addr = a * BASE_4KB  BY <1>1, AlignedIs
<1>3. PICK c \in Int : addr + len = c * BASE_4KB  BY <1>1, AlignedIs
<1>4. Page(addr) = a
  <2>1. (a * BASE_4KB) \div BASE_4KB = a  BY <1>1
  <2>. QED  BY <1>2, <2>1 DEF Page
<1>5. Page(addr + len - 1) = c - 1
  <2>1. c * BASE_4KB - 1 = (c - 1) * BASE_4KB + (BASE_4KB - 1)  BY <1>1
  <2>2. ((c - 1) * BASE_4KB + (BASE_4KB - 1)) \div BASE_4KB = c - 1  BY <1>1
  <2>. QED  BY <1>3, <2>1, <2>2 DEF Page
<1>6. \A p \in Int : a <= p <=> a * BASE_4KB <= p * BASE_4KB  BY <1>1, TimesMonotonic
<1>7. \A p \in Int : c <= p <=> c * BASE_4KB <= p * BASE_4KB  BY <1>1, TimesMonotonic
<1>8. \A p \in Int : p * BASE_4KB \in Int  BY <1>1
<1>9. \A p : p \in PagesOf(addr, len) <=> p \in Int /\ a <= p /\ ~(c <= p)
  BY <1>4, <1>5 DEF PagesOf
<1>. QED  BY <1>1, <1>2, <1>3, <1>6, <1>7, <1>8, <1>9

LEMMA InOne ==
    ASSUME NEW l \in Layouts, Partition(region_intervals, l), NEW offset,
           NEW j \in DOMAIN region_intervals, In(offset, region_intervals[j]),
           NEW k \in DOMAIN region_intervals, In(offset, region_intervals[k])
    PROVE  j = k
<1>1. Fits(region_intervals, l)  BY DEF Partition
<1>2. SUFFICES ASSUME j # k  PROVE FALSE  OBVIOUS
<1>3. Apart(region_intervals[j], region_intervals[k])  BY <1>1, <1>2 DEF Fits
<1>4. /\ region_intervals[j].lo \in Nat /\ region_intervals[j].hi \in Nat
      /\ region_intervals[k].lo \in Nat /\ region_intervals[k].hi \in Nat
  BY <1>1, IntervalFields DEF Fits
<1>. QED  BY <1>3, <1>4 DEF In, Apart

\* The size of page an offset is configured with.
PageSizeAt(offset) ==
    (CHOOSE i \in Range(region_intervals) : offset \in i.lo .. i.hi - 1).page

LEMMA PageSizeAtIs ==
    ASSUME NEW l \in Layouts, Partition(region_intervals, l), NEW offset,
           NEW k \in DOMAIN region_intervals, In(offset, region_intervals[k])
    PROVE  PageSizeAt(offset) = region_intervals[k].page
<1>. DEFINE i == CHOOSE i \in Range(region_intervals) : offset \in i.lo .. i.hi - 1
<1>1. \E i_1 \in Range(region_intervals) : offset \in i_1.lo .. i_1.hi - 1
  BY DEF In, Range
<1>2. i \in Range(region_intervals) /\ offset \in i.lo .. i.hi - 1  BY <1>1
<1>3. PICK j \in DOMAIN region_intervals : i = region_intervals[j]  BY <1>2 DEF Range
<1>4. j = k  BY <1>2, <1>3, InOne DEF In
<1>. QED  BY <1>3, <1>4 DEF PageSizeAt

Offset(p) == p * BASE_4KB - region_start

\* The pages of the parts are those between the two sizes, each in one part
\* and with the size of page it is configured with.
LEMMA PartsPages ==
    ASSUME NEW l \in Layouts, Partition(region_intervals, l),
           region_start \in Nat, IS_ALIGNED(region_start, BASE_4KB),
           NEW parts, NEW from \in Nat, NEW to \in Nat, PartsAre(parts, from, to)
    PROVE  /\ \A p \in Int : Offset(p) \in from .. to - 1 =>
                 \E k \in DOMAIN parts : p \in PagesOfPart(parts[k])
           /\ \A k \in DOMAIN parts : \A p \in PagesOfPart(parts[k]) :
                 /\ p \in Int /\ Offset(p) \in from .. to - 1
                 /\ In(Offset(p), region_intervals[k])
                 /\ parts[k].page = PageSizeAt(Offset(p))
           /\ \A j, k \in DOMAIN parts : \A p \in PagesOfPart(parts[k]) :
                 p \in PagesOfPart(parts[j]) => j = k
<1>1. BASE_4KB \in Nat \ {0} /\ Fits(region_intervals, l)  BY PageSizes DEF Partition
<1>2. \A p \in Int : Offset(p) \in Int /\ p * BASE_4KB \in Int  BY <1>1 DEF Offset
<1>3. ASSUME NEW k \in DOMAIN parts
      PROVE  /\ k \in DOMAIN region_intervals
             /\ parts[k].lo \in Nat /\ parts[k].hi \in Nat
             /\ \A p : p \in PagesOfPart(parts[k]) <=>
                          p \in Int /\ Offset(p) \in parts[k].lo .. parts[k].hi - 1
  <2>1. /\ k \in DOMAIN region_intervals
        /\ parts[k].lo \in Nat /\ parts[k].hi \in Nat
        /\ OnPage(parts[k].lo, region_intervals[k])
        /\ OnPage(parts[k].hi, region_intervals[k])
    BY DEF PartsAre
  <2>2. IntervalOf(region_intervals[k], l)  BY <1>1, <2>1 DEF Fits
  <2>3. IS_ALIGNED(parts[k].lo, BASE_4KB) /\ IS_ALIGNED(parts[k].hi, BASE_4KB)
    BY <2>1, <2>2, OnPageAligned
  <2>. DEFINE lo == parts[k].lo
              hi == parts[k].hi
  <2>4. lo \in Int /\ hi \in Int /\ IS_ALIGNED(lo, BASE_4KB) /\ IS_ALIGNED(hi, BASE_4KB)
    BY <2>1, <2>3
  <2>5. PagesOfPart(parts[k]) = PagesOf(region_start + lo, hi - lo)  BY DEF PagesOfPart
  <2>. HIDE DEF lo, hi
  <2>6. IS_ALIGNED(region_start + lo, BASE_4KB) /\ IS_ALIGNED(region_start + hi, BASE_4KB)
    BY <1>1, <2>4, AlignedSum
  <2>7. /\ region_start + lo \in Int /\ hi - lo \in Int
        /\ region_start + lo + (hi - lo) = region_start + hi
    BY <2>4
  <2>8. \A p : p \in PagesOfPart(parts[k]) <=>
                 /\ p \in Int /\ region_start + lo <= p * BASE_4KB
                 /\ p * BASE_4KB < region_start + hi
    BY <2>5, <2>6, <2>7, PagesOfIs
  <2>9. \A p \in Int : Offset(p) \in lo .. hi - 1 <=>
                         /\ region_start + lo <= p * BASE_4KB
                         /\ p * BASE_4KB < region_start + hi
    BY <1>2, <2>4 DEF Offset
  <2>. QED  BY <2>1, <2>8, <2>9 DEF lo, hi
<1>4. ASSUME NEW p \in Int, Offset(p) \in from .. to - 1
      PROVE  \E k \in DOMAIN parts : p \in PagesOfPart(parts[k])
  <2>1. PICK k \in DOMAIN parts : In(Offset(p), parts[k])  BY <1>4 DEF PartsAre
  <2>. QED  BY <1>3, <2>1 DEF In
<1>5. ASSUME NEW k \in DOMAIN parts, NEW p \in PagesOfPart(parts[k])
      PROVE  /\ p \in Int /\ Offset(p) \in from .. to - 1
             /\ In(Offset(p), region_intervals[k])
             /\ parts[k].page = PageSizeAt(Offset(p))
  <2>1. /\ k \in DOMAIN region_intervals /\ p \in Int
        /\ parts[k].lo \in Nat /\ parts[k].hi \in Nat
        /\ Offset(p) \in parts[k].lo .. parts[k].hi - 1
    BY <1>3
  <2>2. /\ from <= parts[k].lo /\ parts[k].hi <= to
        /\ parts[k].page = region_intervals[k].page
        /\ OnPage(parts[k].lo, region_intervals[k])
        /\ OnPage(parts[k].hi, region_intervals[k])
    BY DEF PartsAre
  <2>3. region_intervals[k].lo \in Nat /\ region_intervals[k].hi \in Nat
    BY <1>1, <2>1, IntervalFields DEF Fits
  <2>4. In(Offset(p), region_intervals[k])
    BY <2>1, <2>2, <2>3 DEF In, OnPage
  <2>5. PageSizeAt(Offset(p)) = region_intervals[k].page  BY <2>1, <2>4, PageSizeAtIs
  <2>6. Offset(p) \in from .. to - 1  BY <2>1, <2>2
  <2>. QED  BY <2>1, <2>2, <2>4, <2>5, <2>6
<1>6. ASSUME NEW j \in DOMAIN parts, NEW k \in DOMAIN parts,
             NEW p \in PagesOfPart(parts[k]), p \in PagesOfPart(parts[j])
      PROVE  j = k
  <2>1. In(Offset(p), region_intervals[k]) /\ In(Offset(p), region_intervals[j])
    BY <1>5, <1>6
  <2>. QED  BY <1>3, <2>1, InOne
<1>. QED  BY <1>4, <1>5, <1>6

-----------------------------------------------------------------------------
(* The inductive invariant.                                                *)

MemoryType == [Pages -> {Free, Foreign, BASE_4KB, HUGE_2MB, HUGE_1GB}]

\* The region is where its largest pages are aligned, within the reservation.
Placed ==
    /\ base_addr \in Nat /\ IS_ALIGNED(base_addr, BASE_4KB)
    /\ region_start = RegionStart(layout, base_addr)
    /\ region_start \in Nat /\ IS_ALIGNED(region_start, BASE_4KB)
    /\ region_start + layout.pool_size <= Top
    /\ region_max_size = layout.pool_size
    /\ Partition(region_intervals, layout)

\* What MappedIsPrefix says of the region between calls.
Prefix ==
    \A p \in Pages : IF Offset(p) \in 0 .. region_current_size - 1
                     THEN memory[p] = PageSizeAt(Offset(p))
                     ELSE ~Mapped(p)

NothingMapped == \A p \in Pages : ~Mapped(p)

IInv ==
    /\ layout \in Layouts /\ PoolMatchesOffsets(layout)
    /\ region_start \in Nat \union {NULL} /\ base_addr \in Nat \union {NULL}
    /\ region_max_size \in Nat /\ region_current_size \in Nat /\ asked \in Nat
    /\ region_intervals = <<>> \/ Partition(region_intervals, layout)
    /\ memory \in MemoryType
    /\ pc \in {"new", "reserved", "released", "ready", "ENOMEM", "EINVAL"}
    /\ pc = "new" => NothingMapped
    /\ pc \in {"reserved", "released", "ready"} => Placed
    /\ pc = "reserved" =>
         /\ region_current_size = ReservedSize(layout)
         /\ \A p \in Pages : IF p \in PagesOf(base_addr, region_current_size)
                             THEN memory[p] = BASE_4KB
                             ELSE ~Mapped(p)
    /\ pc = "released" => region_current_size = 0 /\ NothingMapped
    /\ pc = "ready" => Needed(region_current_size, asked) /\ Prefix

LEMMA StartAligned ==
    ASSUME NEW l \in Layouts, Plausible(l), NEW base \in Nat, IS_ALIGNED(base, BASE_4KB)
    PROVE  /\ RegionStart(l, base) \in Nat
           /\ IS_ALIGNED(RegionStart(l, base), BASE_4KB)
           /\ IS_ALIGNED(RegionStart(l, base) + AlignedOffset(l), Alignment(l))
           /\ RegionStart(l, base) + AlignedOffset(l) \in Nat
<1>. DEFINE off == AlignedOffset(l)
            unit == Alignment(l)
            up == ROUND_UP(base + off, unit)
<1>1. /\ off \in Nat /\ IS_ALIGNED(off, BASE_4KB)
      /\ unit \in PageSize
  <2>1. IS_ALIGNED(0, BASE_4KB)  BY PageSizes DEF IS_ALIGNED
  <2>. QED  BY <2>1, LayoutNat DEF Plausible, AlignedOffset, Alignment, PageSize
<1>2. /\ unit \in Nat \ {0} /\ IS_ALIGNED(unit, BASE_4KB) /\ BASE_4KB \in Nat \ {0}
  BY <1>1, PageSizes
<1>3. RegionStart(l, base) = up - off  BY DEF RegionStart
<1>. HIDE DEF off, unit
<1>4. base + off \in Nat  BY <1>1
<1>5. up \in Nat /\ base + off <= up  BY <1>2, <1>4, RoundUp
<1>6. IS_ALIGNED(up, unit)  BY <1>2, <1>4, RoundUpLeast
<1>. HIDE DEF up
<1>7. IS_ALIGNED(up, BASE_4KB)  BY <1>2, <1>5, <1>6, AlignedTrans
<1>8. IS_ALIGNED(up - off, BASE_4KB)  BY <1>1, <1>2, <1>5, <1>7, AlignedSum
<1>9. up - off \in Nat /\ up - off + off = up  BY <1>1, <1>5
<1>. QED  BY <1>3, <1>5, <1>6, <1>8, <1>9 DEF off, unit

LEMMA NeededExists ==
    ASSUME NEW l \in Layouts, Partition(region_intervals, l), NEW s \in 0 .. l.pool_size
    PROVE  \E t : Needed(t, s)
<1>1. PICK k \in DOMAIN region_intervals :
        s \in region_intervals[k].lo .. region_intervals[k].hi
  BY SomeInterval
<1>. QED  BY <1>1, RoundedIsNeeded

\* A Resize of a region that is the prefix it says makes it the prefix needed.
LEMMA ResizedKeeps ==
    ASSUME layout \in Layouts, Placed, region_current_size \in Boundaries, Prefix,
           memory \in MemoryType, NEW s \in Nat, Resized(s),
           region_start' = region_start, region_intervals' = region_intervals
    PROVE  /\ asked' = s /\ s <= layout.pool_size
           /\ Needed(region_current_size', s)
           /\ memory' \in MemoryType
           /\ Prefix'
           /\ \A p \in Pages : memory[p] = Foreign /\ memory'[p] # Foreign =>
                Offset(p) \in region_current_size .. region_current_size' - 1
           /\ \A p \in Pages : Offset(p) \notin 0 .. region_current_size' - 1 =>
                memory'[p] = IF Offset(p) \in region_current_size' .. region_current_size - 1
                             THEN Free ELSE memory[p]
<1>. DEFINE cur == region_current_size
            l == layout
<1>1. /\ l \in Layouts /\ Partition(region_intervals, l)
      /\ region_start \in Nat /\ IS_ALIGNED(region_start, BASE_4KB)
      /\ l.pool_size \in Nat /\ s \in 0 .. l.pool_size /\ asked' = s
  BY LayoutNat DEF Placed, Resized
<1>2. cur \in Nat /\ cur \in Boundaries  BY <1>1, NeededNat
<1>3. PICK t : Needed(t, s)  BY <1>1, NeededExists
<1>4. t \in Nat /\ s <= t /\ t <= l.pool_size  BY <1>1, <1>3, NeededNat DEF Needed
<1>5. \A offset : PageSizeAt(offset)' = PageSizeAt(offset)  BY DEF PageSizeAt
<1>6. \A p \in Pages : p \in Int /\ Offset(p) \in Int /\ Offset(p)' = Offset(p)
  BY <1>1, PageSizes, MosaicRegionAssumption DEF Pages, Page, Offset
<1>7. CASE s > cur /\ ExtendRegion(s)
  <2>. DEFINE parts == ExtendedParts(s)
  <2>1. PartsAre(parts, cur, t) /\ DOMAIN parts # {} /\ parts[Max(DOMAIN parts)].hi = t
    BY <1>1, <1>2, <1>3, <1>7, ExtendIs
  <2>2. region_current_size' = t  BY <1>7, <2>1 DEF ExtendRegion
  <2>3. memory' = [p \in Pages |->
                    IF \E k \in DOMAIN parts : p \in PagesOfPart(parts[k])
                    THEN (CHOOSE part \in Range(parts) : p \in PagesOfPart(part)).page
                    ELSE memory[p]]
    BY <1>7 DEF ExtendRegion
  <2>. HIDE DEF parts
  <2>4. /\ \A p \in Int : Offset(p) \in cur .. t - 1 =>
             \E k \in DOMAIN parts : p \in PagesOfPart(parts[k])
        /\ \A k \in DOMAIN parts : \A p \in PagesOfPart(parts[k]) :
             /\ p \in Int /\ Offset(p) \in cur .. t - 1
             /\ In(Offset(p), region_intervals[k])
             /\ parts[k].page = PageSizeAt(Offset(p))
        /\ \A j, k \in DOMAIN parts : \A p \in PagesOfPart(parts[k]) :
             p \in PagesOfPart(parts[j]) => j = k
    <3>1. /\ cur \in Nat /\ t \in Nat /\ PartsAre(parts, cur, t)
          /\ l \in Layouts /\ Partition(region_intervals, l)
          /\ region_start \in Nat /\ IS_ALIGNED(region_start, BASE_4KB)
      BY <1>1, <1>2, <1>4, <2>1
    <3>. HIDE DEF cur, l
    <3>. QED  BY <3>1, PartsPages
  <2>5. ASSUME NEW p \in Pages
        PROVE  memory'[p] = IF Offset(p) \in cur .. t - 1 THEN PageSizeAt(Offset(p))
                            ELSE memory[p]
    <3>1. CASE Offset(p) \in cur .. t - 1
      <4>1. PICK k \in DOMAIN parts : p \in PagesOfPart(parts[k])  BY <1>6, <2>4, <3>1
      <4>. DEFINE part == CHOOSE part \in Range(parts) : p \in PagesOfPart(part)
      <4>2. part \in Range(parts) /\ p \in PagesOfPart(part)  BY <4>1 DEF Range
      <4>3. PICK j \in DOMAIN parts : part = parts[j]  BY <4>2 DEF Range
      <4>4. part.page = PageSizeAt(Offset(p))  BY <2>4, <4>2, <4>3
      <4>5. memory'[p] = part.page  BY <2>3, <4>1
      <4>. QED  BY <3>1, <4>4, <4>5
    <3>2. CASE Offset(p) \notin cur .. t - 1
      <4>1. ~ \E k \in DOMAIN parts : p \in PagesOfPart(parts[k])  BY <2>4, <3>2
      <4>. QED  BY <2>3, <3>2, <4>1
    <3>. QED  BY <3>1, <3>2
  <2>6. cur <= t  BY <1>2, <1>4, <1>7
  <2>7. Prefix'
    <3>1. ASSUME NEW p \in Pages
          PROVE  IF Offset(p) \in 0 .. t - 1 THEN memory'[p] = PageSizeAt(Offset(p))
                 ELSE memory'[p] \in {Free, Foreign}
      <4>1. /\ Offset(p) \in 0 .. cur - 1 => memory[p] = PageSizeAt(Offset(p))
            /\ Offset(p) \notin 0 .. cur - 1 => memory[p] \in {Free, Foreign}
        BY DEF Prefix, Mapped
      <4>2. CASE Offset(p) \in cur .. t - 1  BY <1>2, <1>4, <2>5, <4>2
      <4>3. CASE Offset(p) \notin cur .. t - 1
        <5>1. memory'[p] = memory[p]  BY <2>5, <4>3
        <5>2. Offset(p) \in 0 .. t - 1 <=> Offset(p) \in 0 .. cur - 1
          BY <1>2, <1>4, <1>6, <2>6, <4>3
        <5>. QED  BY <4>1, <5>1, <5>2
      <4>. QED  BY <4>2, <4>3
    <3>. QED  BY <1>5, <1>6, <2>2, <3>1 DEF Prefix, Mapped
  <2>8. memory' \in MemoryType
    <3>1. ASSUME NEW p \in Pages, Offset(p) \in cur .. t - 1
          PROVE  memory'[p] \in PageSize
      <4>1. PICK k \in DOMAIN parts : p \in PagesOfPart(parts[k])  BY <1>6, <2>4, <3>1
      <4>2. PageSizeAt(Offset(p)) = parts[k].page  BY <2>4, <4>1
      <4>3. k \in DOMAIN region_intervals /\ parts[k].page = region_intervals[k].page
        BY <2>1 DEF PartsAre
      <4>4. region_intervals[k].page \in PageSize
        BY <1>1, <4>3, IntervalFields DEF Partition, Fits
      <4>. QED  BY <2>5, <3>1, <4>2, <4>3, <4>4
    <3>2. \A p \in Pages : memory'[p] \in {Free, Foreign, BASE_4KB, HUGE_2MB, HUGE_1GB}
      BY <2>5, <3>1 DEF MemoryType, PageSize
    <3>. QED  BY <2>3, <3>2 DEF MemoryType
  <2>9. \A p \in Pages : memory[p] = Foreign /\ memory'[p] # Foreign =>
          Offset(p) \in cur .. t - 1
    BY <2>5
  <2>10. \A p \in Pages : Offset(p) \notin 0 .. t - 1 =>
           memory'[p] = IF Offset(p) \in t .. cur - 1 THEN Free ELSE memory[p]
    BY <1>2, <1>4, <1>6, <2>5, <2>6
  <2>. QED  BY <1>1, <1>3, <2>2, <2>7, <2>8, <2>9, <2>10
<1>8. CASE s < cur /\ ShrinkRegion(s)
  <2>. DEFINE parts == ShrunkParts(s)
  <2>1. /\ PartsAre(parts, t, cur)
        /\ Min({region_current_size} \union {part.lo : part \in Range(parts)}) = t
    BY <1>1, <1>2, <1>3, <1>8, ShrinkIs
  <2>2. region_current_size' = t  BY <1>8, <2>1 DEF ShrinkRegion
  <2>3. memory' = [p \in Pages |->
                    IF \E k \in DOMAIN parts : p \in PagesOfPart(parts[k]) THEN Free
                    ELSE memory[p]]
    BY <1>8 DEF ShrinkRegion
  <2>. HIDE DEF parts
  <2>4. /\ \A p \in Int : Offset(p) \in t .. cur - 1 =>
             \E k \in DOMAIN parts : p \in PagesOfPart(parts[k])
        /\ \A k \in DOMAIN parts : \A p \in PagesOfPart(parts[k]) :
             /\ p \in Int /\ Offset(p) \in t .. cur - 1
             /\ In(Offset(p), region_intervals[k])
             /\ parts[k].page = PageSizeAt(Offset(p))
        /\ \A j, k \in DOMAIN parts : \A p \in PagesOfPart(parts[k]) :
             p \in PagesOfPart(parts[j]) => j = k
    <3>1. /\ t \in Nat /\ cur \in Nat /\ PartsAre(parts, t, cur)
          /\ l \in Layouts /\ Partition(region_intervals, l)
          /\ region_start \in Nat /\ IS_ALIGNED(region_start, BASE_4KB)
      BY <1>1, <1>2, <1>4, <2>1
    <3>. HIDE DEF cur, l
    <3>. QED  BY <3>1, PartsPages
  <2>5. ASSUME NEW p \in Pages
        PROVE  memory'[p] = IF Offset(p) \in t .. cur - 1 THEN Free ELSE memory[p]
    BY <1>6, <2>3, <2>4
  <2>6. t <= cur  BY <1>2, <1>3, <1>8 DEF Needed
  <2>7. ASSUME NEW p \in Pages
        PROVE  /\ Offset(p) \in 0 .. cur - 1 => memory[p] = PageSizeAt(Offset(p))
               /\ Offset(p) \notin 0 .. cur - 1 => memory[p] \in {Free, Foreign}
    BY DEF Prefix, Mapped
  <2>8. Prefix'
    <3>1. ASSUME NEW p \in Pages
          PROVE  IF Offset(p) \in 0 .. t - 1 THEN memory'[p] = PageSizeAt(Offset(p))
                 ELSE memory'[p] \in {Free, Foreign}
      <4>1. CASE Offset(p) \in t .. cur - 1  BY <1>4, <1>2, <2>5, <4>1
      <4>2. CASE Offset(p) \notin t .. cur - 1
        <5>1. memory'[p] = memory[p]  BY <2>5, <4>2
        <5>2. Offset(p) \in 0 .. t - 1 <=> Offset(p) \in 0 .. cur - 1
          BY <1>2, <1>4, <1>6, <2>6, <4>2
        <5>. QED  BY <2>7, <5>1, <5>2
      <4>. QED  BY <4>1, <4>2
    <3>. QED  BY <1>5, <1>6, <2>2, <3>1 DEF Prefix, Mapped
  <2>9. memory' \in MemoryType
    <3>1. \A p \in Pages : memory'[p] \in {Free, Foreign, BASE_4KB, HUGE_2MB, HUGE_1GB}
      BY <2>5 DEF MemoryType
    <3>. QED  BY <2>3, <3>1 DEF MemoryType
  <2>10. ASSUME NEW p \in Pages, memory[p] = Foreign  PROVE memory'[p] = Foreign
    <3>1. CASE Offset(p) \in t .. cur - 1
      <4>1. PICK k \in DOMAIN parts : p \in PagesOfPart(parts[k])  BY <1>6, <2>4, <3>1
      <4>2. memory[p] = PageSizeAt(Offset(p))
        <5>1. Offset(p) \in 0 .. cur - 1  BY <1>2, <1>4, <3>1
        <5>. QED  BY <2>7, <5>1
      <4>3. PageSizeAt(Offset(p)) = region_intervals[k].page /\ k \in DOMAIN region_intervals
        <5>1. In(Offset(p), region_intervals[k]) /\ k \in DOMAIN region_intervals
          BY <2>1, <2>4, <4>1 DEF PartsAre
        <5>. QED  BY <1>1, <5>1, PageSizeAtIs
      <4>4. region_intervals[k].page \in Nat
        BY <1>1, <4>3, IntervalFields DEF Partition, Fits
      <4>. QED  BY <2>10, <4>2, <4>3, <4>4 DEF Foreign
    <3>2. CASE Offset(p) \notin t .. cur - 1  BY <2>5, <2>10, <3>2
    <3>. QED  BY <3>1, <3>2
  <2>. QED  BY <1>1, <1>3, <2>2, <2>5, <2>8, <2>9, <2>10
<1>9. CASE s = cur /\ UNCHANGED <<region_current_size, memory>>
  <2>1. Needed(cur, s)  BY <1>2, <1>9, NeededNat DEF Needed
  <2>2. Prefix'  BY <1>5, <1>6, <1>9 DEF Prefix, Mapped
  <2>3. \A p \in Pages : Offset(p) \notin cur .. cur - 1  BY <1>2, <1>6
  <2>. QED  BY <1>1, <1>9, <2>1, <2>2, <2>3
<1>. QED  BY <1>7, <1>8, <1>9 DEF Resized

-----------------------------------------------------------------------------
(* Every step keeps the invariant.                                         *)

AllPlausible == \A l \in Layouts : Plausible(l)

LEMMA PagesAre ==
    /\ Page(Top) \in Nat
    /\ \A p \in Pages : p \in Nat /\ 0 <= p * BASE_4KB /\ p * BASE_4KB < Top
    /\ \A p \in Int : 0 <= p * BASE_4KB /\ p * BASE_4KB < Top => p \in Pages
<1>1. BASE_4KB \in Nat \ {0} /\ Top \in Nat /\ IS_ALIGNED(Top, BASE_4KB)
  BY MosaicRegionAssumption DEF IS_ALIGNED
<1>2. PICK n \in Int : Top = n * BASE_4KB  BY <1>1, AlignedIs
<1>3. Page(Top) = n
  <2>1. (n * BASE_4KB) \div BASE_4KB = n  BY <1>1
  <2>. QED  BY <1>2, <2>1 DEF Page
<1>4. \A p \in Int : /\ p * BASE_4KB \in Int
                     /\ 0 <= p <=> 0 <= p * BASE_4KB
                     /\ n <= p <=> Top <= p * BASE_4KB
  <2>1. 0 * BASE_4KB = 0  BY <1>1
  <2>2. \A p \in Int : /\ 0 <= p <=> 0 * BASE_4KB <= p * BASE_4KB
                       /\ n <= p <=> n * BASE_4KB <= p * BASE_4KB
    BY <1>1, TimesMonotonic
  <2>. QED  BY <1>1, <1>2, <2>1, <2>2
<1>5. n \in Nat  BY <1>1, <1>2, <1>4
<1>. QED  BY <1>1, <1>3, <1>4, <1>5 DEF Pages

LEMMA ReservedNat ==
    ASSUME NEW l \in Layouts
    PROVE  ReservedSize(l) \in Nat
<1>1. l.pool_size \in Nat /\ Alignment(l) \in Nat \ {0} /\ l.pool_size + Alignment(l) \in Nat
  BY LayoutNat, PageSizes DEF Alignment
<1>2. ROUND_UP(l.pool_size + Alignment(l), Alignment(l)) \in Nat  BY <1>1, RoundUp
<1>. QED  BY <1>1, <1>2 DEF ReservedSize

LEMMA InitIInv == Init => IInv
<1>. SUFFICES ASSUME Init  PROVE IInv
  OBVIOUS
<1>1. memory \in MemoryType /\ NothingMapped
  BY DEF Init, MemoryType, NothingMapped, Mapped
<1>. QED  BY <1>1 DEF Init, IInv

LEMMA ReserveKeeps ==
    ASSUME AllPlausible, IInv, NEW base \in 0 .. Top, Reserve(base)
    PROVE  IInv'
<1>. DEFINE size == ReservedSize(layout)
<1>1. /\ layout \in Layouts /\ Plausible(layout) /\ PoolMatchesOffsets(layout)
      /\ base \in Nat /\ IS_ALIGNED(base, BASE_4KB) /\ base + size <= Top
      /\ Top \in Nat /\ NothingMapped /\ memory \in MemoryType /\ asked \in Nat
  BY MosaicRegionAssumption DEF AllPlausible, IInv, Reserve, Room
<1>2. Partition(Intervals(layout), layout)  BY <1>1, IntervalsPartition
<1>3. /\ RegionStart(layout, base) \in Nat
      /\ IS_ALIGNED(RegionStart(layout, base), BASE_4KB)
  BY <1>1, StartAligned
<1>4. layout.pool_size \in Nat  BY <1>1, LayoutNat
<1>5. size \in Nat /\ RegionStart(layout, base) + layout.pool_size <= base + size
  BY <1>1, AlignmentFits, ReservedNat
<1>6. RegionStart(layout, base) + layout.pool_size <= Top  BY <1>1, <1>3, <1>4, <1>5
<1>7. memory' = [p \in Pages |-> IF p \in PagesOf(base, size) THEN BASE_4KB ELSE memory[p]]
  BY DEF Reserve
<1>8. memory' \in MemoryType  BY <1>1, <1>7 DEF MemoryType
<1>9. \A p \in Pages : IF p \in PagesOf(base, size) THEN memory'[p] = BASE_4KB
                       ELSE memory'[p] \in {Free, Foreign}
  BY <1>1, <1>7 DEF NothingMapped, Mapped
<1>. HIDE DEF size
<1>10. /\ region_start' = RegionStart(layout, base) /\ base_addr' = base
       /\ region_max_size' = layout.pool_size /\ region_current_size' = size
       /\ region_intervals' = Intervals(layout) /\ layout' = layout
       /\ asked' = asked /\ pc' = "reserved"
  BY DEF Reserve, size
<1>11. /\ Partition(region_intervals', layout)
       /\ region_start' = RegionStart(layout, base_addr')
  BY <1>2, <1>10
<1>12. Placed'
  BY <1>1, <1>3, <1>6, <1>10, <1>11 DEF Placed
<1>13. \A p \in Pages : IF p \in PagesOf(base_addr', region_current_size')
                        THEN memory'[p] = BASE_4KB ELSE memory'[p] \in {Free, Foreign}
  BY <1>9, <1>10
<1>14. PoolMatchesOffsets(layout)' /\ region_current_size' = ReservedSize(layout)'
  BY <1>1, <1>10 DEF size
<1>. QED
  BY <1>1, <1>3, <1>4, <1>5, <1>8, <1>10, <1>11, <1>12, <1>13, <1>14 DEF IInv, Mapped

LEMMA ReleaseKeeps ==
    ASSUME IInv, Release
    PROVE  /\ IInv'
           /\ \A p \in Pages : memory[p] = Foreign => memory'[p] = Foreign
<1>. DEFINE gone == PagesOf(base_addr, region_current_size)
<1>1. /\ Placed /\ memory \in MemoryType
      /\ \A p \in Pages : IF p \in gone THEN memory[p] = BASE_4KB
                          ELSE memory[p] \in {Free, Foreign}
  BY DEF Release, IInv, Mapped
<1>2. memory' = [p \in Pages |-> IF p \in gone THEN Free ELSE memory[p]]
  BY DEF Release
<1>. HIDE DEF gone
<1>3. memory' \in MemoryType  BY <1>1, <1>2 DEF MemoryType
<1>4. NothingMapped'  BY <1>1, <1>2 DEF NothingMapped, Mapped
<1>5. \A p \in Pages : memory[p] = Foreign => memory'[p] = Foreign
  BY <1>1, <1>2, PageSizes DEF Foreign
<1>6. /\ UNCHANGED <<region_start, region_max_size, region_intervals, layout, base_addr, asked>>
      /\ pc' = "released" /\ region_current_size' = 0
  BY DEF Release
<1>7. Placed'
  BY <1>1, <1>6 DEF Placed
<1>8. (region_intervals = <<>> \/ Partition(region_intervals, layout))'
  BY <1>7 DEF Placed
<1>. QED  BY <1>3, <1>4, <1>5, <1>6, <1>7, <1>8 DEF IInv

\* The calls that exit leave the region as it is; no later step takes it up.
LEMMA ExitsKeep ==
    ASSUME IInv, UNCHANGED <<fields, layout, base_addr, memory, asked>>,
           pc' \in {"ENOMEM", "EINVAL"}
    PROVE  IInv'
<1>1. (region_intervals = <<>> \/ Partition(region_intervals, layout))'
  BY DEF IInv, fields
<1>. QED  BY <1>1 DEF IInv, fields

LEMMA ReallocateKeeps ==
    ASSUME IInv, pc = "released", Resized(region_max_size),
           region_max_size' = region_current_size', pc' = "ready",
           UNCHANGED <<layout, base_addr, region_start, region_intervals>>
    PROVE  /\ IInv'
           /\ \A p \in Pages : memory[p] = Foreign /\ memory'[p] # Foreign =>
                Offset(p) \in region_current_size .. region_current_size' - 1
<1>. DEFINE s == region_max_size
<1>1. /\ layout \in Layouts /\ Placed /\ memory \in MemoryType
      /\ region_current_size = 0 /\ NothingMapped
      /\ s = layout.pool_size /\ s \in Nat
      /\ Partition(region_intervals, layout)
  BY DEF IInv, Placed
<1>2. region_current_size \in Boundaries  BY <1>1 DEF Boundaries
<1>3. Prefix
  <2>1. \A p \in Pages : Offset(p) \notin 0 .. region_current_size - 1  BY <1>1
  <2>. QED  BY <1>1, <2>1 DEF Prefix, NothingMapped
<1>4. /\ asked' = s /\ Needed(region_current_size', s)
      /\ memory' \in MemoryType /\ Prefix'
      /\ \A p \in Pages : memory[p] = Foreign /\ memory'[p] # Foreign =>
                Offset(p) \in region_current_size .. region_current_size' - 1
  BY <1>1, <1>2, <1>3, ResizedKeeps
<1>5. region_current_size' = s
  BY <1>1, <1>4, NeededNat DEF Needed
<1>6. Placed'  BY <1>1, <1>5 DEF Placed
<1>7. Boundaries' = Boundaries  BY DEF Boundaries
<1>8. Needed(region_current_size, asked)'  BY <1>4, <1>7 DEF Needed
<1>9. (region_intervals = <<>> \/ Partition(region_intervals, layout))'
  BY <1>6 DEF Placed
<1>. QED  BY <1>1, <1>4, <1>5, <1>6, <1>8, <1>9 DEF IInv

LEMMA ResizeKeeps ==
    ASSUME IInv, pc = "ready", NEW s \in Nat, Resized(s),
           UNCHANGED <<layout, base_addr, region_start, region_max_size, region_intervals, pc>>
    PROVE  /\ IInv'
           /\ \A p \in Pages : memory[p] = Foreign /\ memory'[p] # Foreign =>
                Offset(p) \in region_current_size .. region_current_size' - 1
<1>1. /\ layout \in Layouts /\ Placed /\ memory \in MemoryType /\ Prefix
      /\ Needed(region_current_size, asked)
      /\ Partition(region_intervals, layout)
  BY DEF IInv, Placed
<1>2. region_current_size \in Boundaries  BY <1>1 DEF Needed
<1>3. /\ asked' = s /\ Needed(region_current_size', s)
      /\ memory' \in MemoryType /\ Prefix'
      /\ \A p \in Pages : memory[p] = Foreign /\ memory'[p] # Foreign =>
                Offset(p) \in region_current_size .. region_current_size' - 1
  BY <1>1, <1>2, ResizedKeeps
<1>4. Placed'  BY <1>1 DEF Placed
<1>5. Boundaries' = Boundaries  BY DEF Boundaries
<1>6. Needed(region_current_size, asked)' /\ region_current_size' \in Nat
  <2>1. Needed(region_current_size, asked)'  BY <1>3, <1>5 DEF Needed
  <2>2. layout.pool_size \in Nat  BY <1>1, LayoutNat
  <2>. QED  BY <1>1, <1>3, <2>1, <2>2, NeededNat DEF Needed
<1>7. (region_intervals = <<>> \/ Partition(region_intervals, layout))'
  BY <1>4 DEF Placed
<1>. QED  BY <1>1, <1>3, <1>4, <1>6, <1>7 DEF IInv

LEMMA ForeignMmapKeeps ==
    ASSUME IInv, NEW q \in Pages, ForeignMmap(q)
    PROVE  IInv'
<1>1. /\ memory' = [memory EXCEPT ![q] = Foreign] /\ memory[q] = Free
      /\ UNCHANGED <<fields, layout, base_addr, asked, pc>>
  BY DEF ForeignMmap
<1>2. memory \in MemoryType  BY DEF IInv
<1>3. /\ memory' \in MemoryType
      /\ \A p \in Pages : IF p = q THEN memory'[p] = Foreign /\ memory[p] = Free
                          ELSE memory'[p] = memory[p]
  BY <1>1, <1>2 DEF MemoryType
<1>4. NothingMapped => NothingMapped'  BY <1>3 DEF NothingMapped, Mapped
<1>5. Placed => Placed'  BY <1>1 DEF Placed, fields
<1>6. (region_intervals = <<>> \/ Partition(region_intervals, layout))'
  BY <1>1 DEF IInv, fields
<1>7. Needed(region_current_size, asked) => Needed(region_current_size, asked)'
  BY <1>1 DEF Needed, Boundaries, fields
<1>8. pc = "reserved" => \A p \in Pages :
         IF p \in PagesOf(base_addr', region_current_size') THEN memory'[p] = BASE_4KB
         ELSE memory'[p] \in {Free, Foreign}
  <2>1. BASE_4KB # Free  BY PageSizes DEF Free
  <2>. QED  BY <1>1, <1>3, <2>1 DEF IInv, Mapped, fields
<1>9. ASSUME pc = "ready"  PROVE Prefix'
  <2>1. /\ layout \in Layouts /\ Partition(region_intervals, layout) /\ region_start \in Nat
        /\ Needed(region_current_size, asked) /\ Prefix /\ layout.pool_size \in Nat
    BY <1>9, LayoutNat DEF IInv, Placed
  <2>2. region_current_size \in 0 .. layout.pool_size  BY <2>1, NeededNat DEF Needed
  <2>3. Offset(q) \notin 0 .. region_current_size - 1
    <3>1. SUFFICES ASSUME Offset(q) \in 0 .. region_current_size - 1  PROVE FALSE
      OBVIOUS
    <3>2. Offset(q) \in 0 .. layout.pool_size - 1  BY <2>1, <2>2, <3>1
    <3>3. PICK k \in DOMAIN region_intervals : In(Offset(q), region_intervals[k])
      BY <2>1, <3>2 DEF Partition, Covers
    <3>4. PageSizeAt(Offset(q)) = region_intervals[k].page  BY <2>1, <3>3, PageSizeAtIs
    <3>5. region_intervals[k].page \in Nat \ {0}
      BY <2>1, IntervalFields DEF Partition, Fits
    <3>6. memory[q] = PageSizeAt(Offset(q))  BY <2>1, <3>1 DEF Prefix
    <3>. QED  BY <1>1, <3>4, <3>5, <3>6 DEF Free
  <2>4. \A p \in Pages : /\ Offset(p)' = Offset(p)
                         /\ PageSizeAt(Offset(p))' = PageSizeAt(Offset(p))
    BY <1>1 DEF Offset, PageSizeAt, fields
  <2>5. region_current_size' = region_current_size  BY <1>1 DEF fields
  <2>6. \A p \in Pages : IF Offset(p) \in 0 .. region_current_size - 1
                         THEN memory'[p] = PageSizeAt(Offset(p))
                         ELSE memory'[p] \in {Free, Foreign}
    BY <1>3, <2>1, <2>3 DEF Prefix, Mapped
  <2>. QED  BY <2>4, <2>5, <2>6 DEF Prefix, Mapped
<1>. QED  BY <1>1, <1>3, <1>4, <1>5, <1>6, <1>7, <1>8, <1>9 DEF IInv, fields, Mapped

\* Steps that change none of this.
LEMMA StutterKeeps ==
    ASSUME IInv, UNCHANGED vars
    PROVE  IInv'
<1>1. UNCHANGED <<region_start, region_max_size, region_current_size, region_intervals,
                  layout, base_addr, memory, asked, pc>>
  BY DEF vars, fields
<1>2. Prefix => Prefix'  BY <1>1 DEF Prefix, Offset, PageSizeAt, Mapped
<1>3. Placed => Placed'  BY <1>1 DEF Placed
<1>4. Needed(region_current_size, asked) => Needed(region_current_size, asked)'
  BY <1>1 DEF Needed, Boundaries
<1>5. NothingMapped => NothingMapped'  BY <1>1 DEF NothingMapped, Mapped
<1>6. (region_intervals = <<>> \/ Partition(region_intervals, layout))'
  BY <1>1 DEF IInv
<1>. QED  BY <1>1, <1>2, <1>3, <1>4, <1>5, <1>6 DEF IInv, Mapped

LEMMA NextIInv ==
    ASSUME AllPlausible, IInv, [Next]_vars
    PROVE  IInv'
<1>1. CASE \E base \in 0 .. Top : Reserve(base)  BY <1>1, ReserveKeeps
<1>2. CASE ReserveExits  BY <1>2, ExitsKeep DEF ReserveExits
<1>3. CASE Release  BY <1>3, ReleaseKeeps
<1>4. CASE Reallocate
  <2>1. CASE /\ Resized(region_max_size) /\ region_max_size' = region_current_size'
             /\ pc' = "ready" /\ UNCHANGED <<region_start, region_intervals>>
    BY <1>4, <2>1, ReallocateKeeps DEF Reallocate
  <2>2. CASE ResizeExits(region_max_size)
    <3>1. pc' \in {"ENOMEM", "EINVAL"}  BY <2>2 DEF ResizeExits
    <3>. QED  BY <1>4, <2>2, <3>1, ExitsKeep DEF Reallocate, ResizeExits
  <2>. QED  BY <1>4, <2>1, <2>2 DEF Reallocate
<1>5. ASSUME NEW s \in 0 .. region_max_size + 1, Resize(s)  PROVE IInv'
  <2>1. pc = "ready" /\ UNCHANGED <<layout, base_addr>> /\ s \in Nat
    BY <1>5 DEF Resize, IInv
  <2>2. CASE Resized(s) /\ UNCHANGED <<region_start, region_max_size, region_intervals, pc>>
    BY <2>1, <2>2, ResizeKeeps
  <2>3. CASE ResizeExits(s)
    <3>1. pc' \in {"ENOMEM", "EINVAL"}  BY <2>3 DEF ResizeExits
    <3>. QED  BY <2>1, <2>3, <3>1, ExitsKeep DEF ResizeExits
  <2>. QED  BY <1>5, <2>2, <2>3 DEF Resize
<1>6. CASE \E q \in Pages : ForeignMmap(q)  BY <1>6, ForeignMmapKeeps
<1>7. CASE UNCHANGED vars  BY <1>7, StutterKeeps
<1>. QED  BY <1>1, <1>2, <1>3, <1>4, <1>5, <1>6, <1>7 DEF Next

-----------------------------------------------------------------------------
(* What the invariant says of the region.  The hypothesis is what Initialize *)
(* counts on and never checks: with overlapping intervals there is no page   *)
(* size to speak of, and Resize walks intervals it takes to be in order.     *)

LEMMA SpecIInv == AllPlausible => (Spec => []IInv)
<1>. SUFFICES ASSUME AllPlausible  PROVE Spec => []IInv
  OBVIOUS
<1>1. IInv /\ [Next]_vars => IInv'  BY NextIInv
<1>. QED  BY InitIInv, <1>1, PTL DEF Spec

LEMMA NoGaps ==
    ASSUME NEW l \in Layouts, NEW list, Partition(list, l), NEW k \in DOMAIN list
    PROVE  list[k].lo = IF k = 1 THEN 0 ELSE list[k - 1].hi
<1>. DEFINE n == Len(list)
<1>1. /\ DOMAIN list = 1 .. n /\ n \in Nat
      /\ l.pool_size \in Nat /\ l.pool_size > 0
      /\ \A offset \in 0 .. l.pool_size - 1 : \E j \in 1 .. n : In(offset, list[j])
      /\ \A i, j \in 1 .. n : i < j => list[i].hi <= list[j].lo
  <2>1. list \in Seq(MemoryInterval) /\ InOrder(list) /\ Covers(list, l.pool_size)
    BY DEF Partition, Fits
  <2>2. DOMAIN list = 1 .. n /\ n \in Nat  BY <2>1
  <2>3. l.pool_size \in Nat /\ l.pool_size > 0  BY LayoutNat
  <2>. QED  BY <2>1, <2>2, <2>3 DEF InOrder, Covers
<1>2. \A j \in 1 .. n : /\ list[j].lo \in Nat /\ list[j].hi \in Nat
                        /\ list[j].lo < list[j].hi /\ list[j].hi <= l.pool_size
  BY <1>1, IntervalFields DEF Partition, Fits
<1>3. CASE k = 1
  <2>1. PICK j \in 1 .. n : In(0, list[j])  BY <1>1
  <2>2. list[j].lo = 0  BY <1>2, <2>1 DEF In
  <2>3. CASE j = 1  BY <1>3, <2>2, <2>3
  <2>4. CASE 1 < j
    <3>1. list[1].hi <= 0 /\ 1 \in 1 .. n  BY <1>1, <2>2, <2>4
    <3>. QED  BY <1>2, <3>1
  <2>. QED  BY <1>1, <2>3, <2>4
<1>4. CASE k # 1
  <2>1. k \in 1 .. n /\ k - 1 \in 1 .. n  BY <1>1, <1>4
  <2>2. list[k - 1].hi <= list[k].lo  BY <1>1, <2>1
  <2>3. SUFFICES ASSUME list[k - 1].hi < list[k].lo  PROVE FALSE
    BY <1>2, <1>4, <2>1, <2>2
  <2>. DEFINE gap == list[k - 1].hi
  <2>4. gap \in 0 .. l.pool_size - 1  BY <1>1, <1>2, <2>1, <2>3
  <2>5. PICK j \in 1 .. n : In(gap, list[j])  BY <1>1, <2>4
  <2>6. list[j].lo <= gap /\ gap < list[j].hi  BY <1>2, <2>1, <2>5 DEF In
  <2>7. CASE j < k - 1
    <3>1. list[j].hi <= list[k - 1].lo  BY <1>1, <2>1, <2>7
    <3>. QED  BY <1>2, <2>1, <2>6, <3>1
  <2>8. CASE j = k - 1  BY <1>2, <2>1, <2>6, <2>8
  <2>9. CASE j = k  BY <1>2, <2>1, <2>3, <2>6, <2>9
  <2>10. CASE k < j
    <3>1. list[k].hi <= list[j].lo  BY <1>1, <2>1, <2>10
    <3>. QED  BY <1>2, <2>1, <2>3, <2>6, <3>1
  <2>. QED  BY <2>1, <2>7, <2>8, <2>9, <2>10
<1>. QED  BY <1>3, <1>4

\* The fields keep their types, and the intervals follow one another without a
\* gap, which both loops of Resize rely on.
THEOREM TypeCorrect == AllPlausible => (Spec => []TypeOK)
<1>1. IInv => TypeOK
  <2>. SUFFICES ASSUME IInv  PROVE TypeOK
    OBVIOUS
  <2>1. layout \in Layouts /\ (region_intervals = <<>> \/ Partition(region_intervals, layout))
    BY DEF IInv
  <2>2. ASSUME NEW k \in DOMAIN region_intervals
        PROVE  LET i == region_intervals[k] IN
               /\ i.lo = IF k = 1 THEN 0 ELSE region_intervals[k - 1].hi
               /\ i.lo < i.hi
               /\ i.page \in {BASE_4KB, HUGE_2MB, HUGE_1GB}
    <3>1. Partition(region_intervals, layout)  BY <2>1
    <3>2. IntervalOf(region_intervals[k], layout)  BY <3>1 DEF Partition, Fits
    <3>. QED  BY <2>1, <3>1, <3>2, NoGaps, IntervalFields DEF PageSize
  <2>. QED  BY <2>2 DEF IInv, TypeOK, MemoryType
<1>. QED  BY <1>1, SpecIInv, PTL

\* Between calls the mapped pages are the first bytes of the region, each with
\* the page size its offset was configured with, and no other page is left.
THEOREM RegionIsPrefix == AllPlausible => (Spec => []MappedIsPrefix)
<1>1. IInv => MappedIsPrefix
  BY DEF IInv, Prefix, Offset, PageSizeAt, MappedIsPrefix
<1>. QED  BY <1>1, SpecIInv, PTL

\* Resize leaves the region as small as it can be for what was asked.
THEOREM SizeIsLeast == AllPlausible => (Spec => []SizeIsWhatIsNeeded)
<1>1. IInv => SizeIsWhatIsNeeded
  <2>. SUFFICES ASSUME IInv, pc = "ready"
       PROVE  /\ region_current_size \in Boundaries
              /\ region_current_size >= asked
              /\ \A b \in Boundaries : b >= asked => region_current_size <= b
    BY DEF SizeIsWhatIsNeeded
  <2>1. /\ layout \in Layouts /\ Partition(region_intervals, layout) /\ asked \in Nat
        /\ Needed(region_current_size, asked) /\ layout.pool_size \in Nat
    BY LayoutNat DEF IInv, Placed
  <2>2. \A b \in Boundaries : b \in Nat  BY <2>1, NeededNat
  <2>. QED  BY <2>1, <2>2 DEF Needed
<1>. QED  BY <1>1, SpecIInv, PTL

\* Whatever is asked for next, MAP_FIXED takes no page the region has, and no
\* page twice.
THEOREM ContentsAreKept == AllPlausible => (Spec => []GrowingKeepsContents)
<1>1. IInv => GrowingKeepsContents
  <2>. SUFFICES ASSUME IInv, pc = "ready",
                       NEW s \in region_current_size + 1 .. region_max_size,
                       NEW k \in DOMAIN ExtendedParts(s),
                       NEW p \in PagesOfPart(ExtendedParts(s)[k])
       PROVE  /\ ~Mapped(p)
              /\ \A j \in DOMAIN ExtendedParts(s) \ {k} :
                    p \notin PagesOfPart(ExtendedParts(s)[j])
    BY DEF GrowingKeepsContents
  <2>. DEFINE parts == ExtendedParts(s)
              cur == region_current_size
  <2>1. /\ layout \in Layouts /\ Placed /\ Prefix /\ Needed(cur, asked)
        /\ Partition(region_intervals, layout) /\ layout.pool_size \in Nat
        /\ region_start \in Nat /\ region_start + layout.pool_size <= Top
        /\ IS_ALIGNED(region_start, BASE_4KB) /\ Top \in Nat
    BY LayoutNat, MosaicRegionAssumption DEF IInv, Placed
  <2>2. cur \in Boundaries /\ cur \in Nat /\ s \in 0 .. layout.pool_size /\ cur < s
    BY <2>1 DEF IInv, Placed, Needed
  <2>3. PICK t : Needed(t, s)  BY <2>1, <2>2, NeededExists
  <2>4. t \in Nat /\ t <= layout.pool_size  BY <2>1, <2>3, NeededNat DEF Needed
  <2>5. PartsAre(parts, cur, t)  BY <2>1, <2>2, <2>3, ExtendIs
  <2>. HIDE DEF parts
  <2>6. p \in Int /\ Offset(p) \in cur .. t - 1
        /\ \A j \in DOMAIN parts : p \in PagesOfPart(parts[j]) => j = k
    <3>1. /\ \A k_1 \in DOMAIN parts : \A p_1 \in PagesOfPart(parts[k_1]) :
                 /\ p_1 \in Int /\ Offset(p_1) \in cur .. t - 1
                 /\ In(Offset(p_1), region_intervals[k_1])
                 /\ parts[k_1].page = PageSizeAt(Offset(p_1))
          /\ \A j_1, k_1 \in DOMAIN parts : \A p_1 \in PagesOfPart(parts[k_1]) :
                 p_1 \in PagesOfPart(parts[j_1]) => j_1 = k_1
      BY <2>1, <2>2, <2>4, <2>5, PartsPages
    <3>2. k \in DOMAIN parts /\ p \in PagesOfPart(parts[k])  BY DEF parts
    <3>. QED  BY <3>1, <3>2
  <2>7. p \in Pages
    <3>1. BASE_4KB \in Nat \ {0} /\ p * BASE_4KB \in Int  BY <2>6, PageSizes
    <3>2. 0 <= p * BASE_4KB /\ p * BASE_4KB < Top
      BY <2>1, <2>2, <2>4, <2>6, <3>1 DEF Offset
    <3>. QED  BY <2>6, <3>2, PagesAre
  <2>8. ~Mapped(p)
    <3>1. Offset(p) \notin 0 .. cur - 1  BY <2>2, <2>4, <2>6
    <3>. QED  BY <2>1, <2>7, <3>1 DEF Prefix
  <2>. QED  BY <2>6, <2>8 DEF parts
<1>. QED  BY <1>1, SpecIInv, PTL

\* Release and ShrinkRegion unmap nothing another thread has mapped; only what
\* the region grows over is lost.
THEOREM ForeignPagesAreKept == AllPlausible => (Spec => OnlyGrowingTakesForeignPages)
<1>. SUFFICES ASSUME AllPlausible  PROVE Spec => OnlyGrowingTakesForeignPages
  OBVIOUS
<1>. DEFINE Lost == \A p \in Pages :
                      memory[p] = Foreign /\ memory'[p] # Foreign =>
                          region_current_size <= p * BASE_4KB - region_start
                          /\ p * BASE_4KB - region_start < region_current_size'
<1>1. ASSUME IInv, IInv', [Next]_vars  PROVE Lost
  <2>. DEFINE Kept == \A p \in Pages : memory[p] = Foreign => memory'[p] = Foreign
              Over == \A p \in Pages : memory[p] = Foreign /\ memory'[p] # Foreign =>
                        Offset(p) \in region_current_size .. region_current_size' - 1
  <2>1. CASE \E base \in 0 .. Top : Reserve(base)
    <3>1. PICK base \in 0 .. Top : Reserve(base)  BY <2>1
    <3>2. \A p \in PagesOf(base, ReservedSize(layout)) : memory[p] = Free
      BY <3>1 DEF Reserve, Room
    <3>. QED  BY <3>1, <3>2 DEF Reserve, Free, Foreign
  <2>2. CASE Release
    <3>1. Kept  BY <1>1, <2>2, ReleaseKeeps
    <3>. QED  BY <3>1
  <2>3. Over => Lost
    <3>1. ASSUME Over, NEW p \in Pages, memory[p] = Foreign, memory'[p] # Foreign
          PROVE  region_current_size <= p * BASE_4KB - region_start
                 /\ p * BASE_4KB - region_start < region_current_size'
      <4>1. /\ Offset(p) \in region_current_size .. region_current_size' - 1
            /\ region_current_size \in Nat /\ region_current_size' \in Nat
        BY <1>1, <3>1 DEF IInv
      <4>. QED  BY <4>1 DEF Offset
    <3>. QED  BY <3>1
  <2>4. CASE Reallocate
    <3>1. CASE UNCHANGED memory  BY <3>1
    <3>2. CASE /\ Resized(region_max_size) /\ region_max_size' = region_current_size'
               /\ pc' = "ready" /\ UNCHANGED <<region_start, region_intervals>>
      <4>1. Over  BY <1>1, <2>4, <3>2, ReallocateKeeps DEF Reallocate
      <4>. QED  BY <2>3, <4>1
    <3>. QED  BY <2>4, <3>1, <3>2 DEF Reallocate, ResizeExits
  <2>5. ASSUME NEW s \in 0 .. region_max_size + 1, Resize(s)  PROVE Lost
    <3>1. CASE UNCHANGED memory  BY <3>1
    <3>2. CASE Resized(s) /\ UNCHANGED <<region_start, region_max_size, region_intervals, pc>>
      <4>1. Over  BY <1>1, <2>5, <3>2, ResizeKeeps DEF Resize, IInv
      <4>. QED  BY <2>3, <4>1
    <3>. QED  BY <2>5, <3>1, <3>2 DEF Resize, ResizeExits
  <2>6. CASE \E q \in Pages : ForeignMmap(q)
    <3>1. PICK q \in Pages : ForeignMmap(q)  BY <2>6
    <3>2. memory \in MemoryType  BY <1>1 DEF IInv
    <3>3. Kept  BY <3>1, <3>2 DEF ForeignMmap, MemoryType
    <3>. QED  BY <3>3
  <2>7. CASE ReserveExits \/ UNCHANGED vars
    <3>1. UNCHANGED memory  BY <2>7 DEF ReserveExits, vars
    <3>. QED  BY <3>1
  <2>. QED  BY <1>1, <2>1, <2>2, <2>4, <2>5, <2>6, <2>7 DEF Next
<1>2. Spec => []IInv  BY SpecIInv
<1>. QED  BY <1>1, <1>2, PTL DEF OnlyGrowingTakesForeignPages, Spec

\* What ValidateRegionOffsets asks for aligns every page of the region.
LEMMA ValidAligned ==
    ASSUME NEW l \in Layouts, Plausible(l), ValidateRegionOffsets(l),
           NEW base \in Nat, IS_ALIGNED(base, BASE_4KB),
           NEW i, IntervalOf(i, l), NEW b, OnPage(b, i)
    PROVE  IS_ALIGNED(RegionStart(l, base) + b, i.page)
<1>. DEFINE start == RegionStart(l, base)
            off == b - i.lo
<1>1. /\ start \in Nat /\ IS_ALIGNED(start, BASE_4KB)
      /\ IS_ALIGNED(start + AlignedOffset(l), Alignment(l))
  BY StartAligned
<1>2. /\ i.lo \in Nat /\ i.hi \in Nat /\ i.page \in PageSize /\ i.page \in Nat \ {0}
      /\ IS_ALIGNED(i.lo, BASE_4KB)
  BY IntervalFields
<1>3. /\ BASE_4KB \in Nat \ {0} /\ HUGE_2MB \in Nat \ {0} /\ HUGE_1GB \in Nat \ {0}
      /\ IS_ALIGNED(HUGE_1GB, HUGE_2MB)
  BY PageSizes, MosaicRegionAssumption DEF IS_ALIGNED
<1>. HIDE DEF start
<1>4. IS_ALIGNED(start + i.lo, i.page)
  <2>1. CASE i.page = BASE_4KB
    <3>1. start \in Int /\ i.lo \in Int  BY <1>1, <1>2
    <3>2. IS_ALIGNED(start + i.lo, BASE_4KB)  BY <1>1, <1>2, <1>3, <3>1, AlignedSum
    <3>. QED  BY <2>1, <3>2
  <2>2. CASE i.page = HUGE_1GB
    <3>1. Size1GB(l) > 0 /\ i.lo = l.start_1gb  BY <2>2 DEF IntervalOf
    <3>. QED  BY <1>1, <2>2, <3>1 DEF AlignedOffset, Alignment
  <2>3. CASE i.page = HUGE_2MB
    <3>1. Size2MB(l) > 0 /\ i.lo = l.start_2mb  BY <2>3 DEF IntervalOf
    <3>2. CASE ~(Size1GB(l) > 0)
      BY <1>1, <2>3, <3>1, <3>2 DEF AlignedOffset, Alignment
    <3>3. CASE Size1GB(l) > 0
      <4>. DEFINE first == start + l.start_1gb
                  apart == l.start_1gb - l.start_2mb
      <4>1. IS_ALIGNED(first, HUGE_1GB)  BY <1>1, <3>3 DEF AlignedOffset, Alignment
      <4>2. IS_ALIGNED(apart, HUGE_2MB)  BY <3>1, <3>3 DEF ValidateRegionOffsets
      <4>3. first \in Int /\ apart \in Int /\ first - apart = start + l.start_2mb
        BY <1>1, LayoutNat
      <4>. HIDE DEF first, apart
      <4>4. IS_ALIGNED(first, HUGE_2MB)  BY <1>3, <4>1, <4>3, AlignedTrans
      <4>5. IS_ALIGNED(first - apart, HUGE_2MB)  BY <1>3, <4>2, <4>3, <4>4, AlignedSum
      <4>. QED  BY <2>3, <3>1, <4>3, <4>5
    <3>. QED  BY <3>2, <3>3
  <2>. QED  BY <1>2, <2>1, <2>2, <2>3 DEF PageSize
<1>5. off \in Int /\ IS_ALIGNED(off, i.page) /\ start + i.lo + off = start + b
  BY <1>1, <1>2 DEF OnPage
<1>. HIDE DEF off
<1>6. start + i.lo \in Int  BY <1>1, <1>2
<1>7. IS_ALIGNED(start + i.lo + off, i.page)  BY <1>2, <1>4, <1>5, <1>6, AlignedSum
<1>. QED  BY <1>5, <1>7 DEF start

\* Shrinking to the size there is unmaps nothing.
LEMMA ShrinkToSame ==
    ASSUME NEW l \in Layouts, Partition(region_intervals, l),
           region_current_size \in Boundaries,
           NEW k \in DOMAIN ShrunkParts(region_current_size)
    PROVE  LET part == ShrunkParts(region_current_size)[k] IN part.lo = part.hi
<1>. DEFINE cur == region_current_size
            i == region_intervals[k]
<1>1. k \in DOMAIN region_intervals /\ Shrinks(i, cur)
      /\ ShrunkParts(cur)[k] = ShrunkPart(i, cur)
  BY DEF ShrunkParts
<1>2. cur \in Nat /\ Needed(cur, cur)  BY NeededNat DEF Needed
<1>3. i.lo \in Nat /\ i.hi \in Nat  BY <1>1, IntervalFields DEF Partition, Fits
<1>4. cur \in i.lo .. i.hi  BY <1>1, <1>2, <1>3 DEF Shrinks
<1>5. i.lo + ROUND_UP(cur - i.lo, i.page) = cur
  BY <1>1, <1>2, <1>4, RoundedIsNeeded, NeededUnique
<1>. QED  BY <1>1, <1>3, <1>4, <1>5 DEF ShrunkPart, Interval

\* No part of a valid layout is refused.
LEMMA ValidAccepted ==
    ASSUME layout \in Layouts, Plausible(layout), ValidateRegionOffsets(layout), Placed,
           region_current_size \in Boundaries, NEW s \in Nat, s <= region_max_size,
           NEW part \in Range(IF s > region_current_size THEN ExtendedParts(s)
                              ELSE ShrunkParts(s))
    PROVE  Accepted(part)
<1>. DEFINE cur == region_current_size
<1>1. /\ Partition(region_intervals, layout) /\ layout.pool_size \in Nat
      /\ s \in 0 .. layout.pool_size /\ cur \in Nat
      /\ base_addr \in Nat /\ IS_ALIGNED(base_addr, BASE_4KB)
      /\ region_start = RegionStart(layout, base_addr)
  BY LayoutNat, NeededNat DEF Placed
<1>2. ASSUME NEW parts, NEW from, NEW to, PartsAre(parts, from, to), part \in Range(parts)
      PROVE  Accepted(part)
  <2>1. PICK k \in DOMAIN parts : part = parts[k]  BY <1>2 DEF Range
  <2>2. /\ k \in DOMAIN region_intervals
        /\ part.lo \in Nat /\ part.hi \in Nat /\ part.lo <= part.hi
        /\ part.page = region_intervals[k].page
        /\ OnPage(part.lo, region_intervals[k]) /\ OnPage(part.hi, region_intervals[k])
    BY <1>2, <2>1 DEF PartsAre
  <2>3. IntervalOf(region_intervals[k], layout)  BY <1>1, <2>2 DEF Partition, Fits
  <2>4. /\ IS_ALIGNED(region_start + part.lo, part.page)
        /\ IS_ALIGNED(region_start + part.hi, part.page)
    BY <1>1, <2>2, <2>3, ValidAligned
  <2>. QED  BY <2>2, <2>4 DEF Accepted
<1>3. PICK t : Needed(t, s)  BY <1>1, NeededExists
<1>4. CASE s > cur
  <2>1. PartsAre(ExtendedParts(s), cur, t)  BY <1>1, <1>3, <1>4, ExtendIs
  <2>. QED  BY <1>2, <1>4, <2>1
<1>5. CASE s < cur
  <2>1. PartsAre(ShrunkParts(s), t, cur)  BY <1>1, <1>3, <1>5, ShrinkIs
  <2>2. part \in Range(ShrunkParts(s))  BY <1>1, <1>5
  <2>. QED  BY <1>2, <2>1, <2>2
<1>6. CASE s = cur
  <2>1. part \in Range(ShrunkParts(cur))  BY <1>1, <1>6
  <2>2. PICK k \in DOMAIN ShrunkParts(cur) : part = ShrunkParts(cur)[k]
    BY <2>1 DEF Range
  <2>3. part.lo = part.hi  BY <1>1, <2>2, ShrinkToSame
  <2>. QED  BY <2>3 DEF Accepted
<1>. QED  BY <1>1, <1>4, <1>5, <1>6

\* With offsets that ValidateRegionOffsets accepts neither mmap nor munmap is
\* ever called with an address that does not suit the size of page.
THEOREM ValidIsMapped == AllPlausible => (Spec => []ValidOffsetsAreMapped)
<1>. SUFFICES ASSUME AllPlausible  PROVE Spec => []ValidOffsetsAreMapped
  OBVIOUS
<1>1. Init => ValidOffsetsAreMapped  BY DEF Init, ValidOffsetsAreMapped
<1>2. ASSUME IInv, ValidOffsetsAreMapped, [Next]_vars  PROVE ValidOffsetsAreMapped'
  <2>1. layout' = layout \/ UNCHANGED vars
    BY <1>2 DEF Next, Reserve, ReserveExits, Release, Reallocate, Resize, ForeignMmap
  <2>2. layout' = layout  BY <2>1 DEF vars
  <2>3. SUFFICES ASSUME ValidateRegionOffsets(layout)  PROVE pc' # "EINVAL"
    BY <2>2 DEF ValidOffsetsAreMapped
  <2>4. pc # "EINVAL" /\ layout \in Layouts /\ Plausible(layout)
    BY <1>2, <2>3 DEF ValidOffsetsAreMapped, IInv, AllPlausible
  <2>5. ASSUME NEW s \in Nat, ResizeExits(s), Placed, region_current_size \in Boundaries
        PROVE  pc' # "EINVAL"
    <3>1. \A part \in Range(IF s > region_current_size THEN ExtendedParts(s)
                            ELSE ShrunkParts(s)) : Accepted(part)
      BY <2>3, <2>4, <2>5, ValidAccepted DEF ResizeExits
    <3>. QED  BY <2>5, <3>1 DEF ResizeExits
  <2>6. CASE Reallocate
    <3>1. /\ Placed /\ region_current_size = 0 /\ region_max_size \in Nat
      BY <1>2, <2>6 DEF Reallocate, IInv
    <3>2. region_current_size \in Boundaries  BY <3>1 DEF Boundaries
    <3>. QED  BY <2>5, <2>6, <3>1, <3>2 DEF Reallocate
  <2>7. ASSUME NEW s \in 0 .. region_max_size + 1, Resize(s)  PROVE pc' # "EINVAL"
    <3>1. Placed /\ region_current_size \in Boundaries /\ s \in Nat
      BY <1>2, <2>7 DEF Resize, IInv, Needed
    <3>. QED  BY <2>4, <2>5, <2>7, <3>1 DEF Resize
  <2>8. CASE \/ \E base \in 0 .. Top : Reserve(base)
             \/ ReserveExits \/ Release \/ \E q \in Pages : ForeignMmap(q)
             \/ UNCHANGED vars
    BY <2>4, <2>8 DEF Reserve, ReserveExits, Release, ForeignMmap, vars
  <2>. QED  BY <1>2, <2>6, <2>7, <2>8 DEF Next
<1>3. Spec => []IInv  BY SpecIInv
<1>. QED  BY <1>1, <1>2, <1>3, PTL DEF Spec

-----------------------------------------------------------------------------
(* The reservation.                                                        *)

Reserved ==
    /\ layout \in Layouts
    /\ pc = "reserved" =>
         /\ base_addr \in Nat /\ IS_ALIGNED(base_addr, BASE_4KB)
         /\ region_start = RegionStart(layout, base_addr)
         /\ region_max_size = layout.pool_size
         /\ region_current_size = ReservedSize(layout)

\* Wherever the kernel puts the reservation, the region, moved up to where its
\* first large page is aligned, does not reach beyond it.
THEOREM RegionIsReserved == Spec => []RegionWithinReservation
<1>1. Init => Reserved  BY DEF Init, Reserved
<1>2. Reserved /\ [Next]_vars => Reserved'
  <2>1. SUFFICES ASSUME Reserved, [Next]_vars  PROVE Reserved'
    OBVIOUS
  <2>2. CASE \E base \in 0 .. Top : Reserve(base)
    <3>1. PICK base \in 0 .. Top : Reserve(base)  BY <2>2
    <3>2. base \in Nat  BY MosaicRegionAssumption
    <3>. QED  BY <2>1, <3>1, <3>2 DEF Reserve, Room, Reserved
  <2>3. CASE \/ ReserveExits \/ Release \/ Reallocate
             \/ \E new_size \in 0 .. region_max_size + 1 : Resize(new_size)
    BY <2>1, <2>3 DEF ReserveExits, Release, Reallocate, Resize, ResizeExits, Reserved
  <2>4. CASE (\E p \in Pages : ForeignMmap(p)) \/ UNCHANGED vars
    BY <2>1, <2>4 DEF ForeignMmap, vars, fields, Reserved
  <2>. QED  BY <2>1, <2>2, <2>3, <2>4 DEF Next
<1>3. Reserved => RegionWithinReservation
  BY AlignmentFits DEF Reserved, RegionWithinReservation
<1>. QED  BY <1>1, <1>2, <1>3, PTL DEF Spec
=============================================================================
