----------------------------- MODULE MosaicRegion -----------------------------
(***************************************************************************)
(* The region of src/MosaicRegion.{h,cpp}, with its list of intervals from *)
(* src/MemoryIntervalList.{h,cpp}: a piece of the address space that is    *)
(* mapped with pages of three sizes, each interval of offsets with its     *)
(* own, and that grows and shrinks at its end.                             *)
(*                                                                         *)
(* Other threads of the process map memory too, wherever the kernel finds  *)
(* room.  A call that the kernel refuses, or for which it has no huge pages *)
(* left, ends the process, as THROW_EXCEPTION does.                        *)
(***************************************************************************)
EXTENDS Integers, FiniteSetsExt, SequencesExt

CONSTANTS
    BASE_4KB, HUGE_2MB, HUGE_1GB,   \* the sizes of pages, in bytes
    Top,            \* the address space is 0 .. Top - 1
    Layouts,        \* the arguments Initialize is called with
    MaxForeign      \* bound on the pages other threads map

\* Initialize exits at once with a pool that is not whole pages.
ASSUME MosaicRegionAssumption ==
    /\ {BASE_4KB, HUGE_2MB, HUGE_1GB} \subseteq Nat \ {0}
    /\ BASE_4KB < HUGE_2MB /\ HUGE_2MB < HUGE_1GB
    /\ HUGE_2MB % BASE_4KB = 0 /\ HUGE_1GB % HUGE_2MB = 0
    /\ Top \in Nat /\ Top % BASE_4KB = 0
    /\ MaxForeign \in Nat
    /\ \A l \in Layouts :
          /\ {l.pool_size, l.start_1gb, l.end_1gb, l.start_2mb, l.end_2mb} \subseteq Nat
          /\ l.pool_size > 0 /\ l.pool_size % BASE_4KB = 0

VARIABLES
    region_start, region_max_size, region_current_size, region_intervals,
    layout,         \* the arguments of Initialize
    base_addr,      \* what it has reserved
    memory,         \* of each 4KB page, the size of the page it is mapped
                    \* with, Free, or Foreign
    asked,          \* the argument of the last Resize that succeeded
    pc              \* how far Initialize is, or the error the process has
                    \* exited with

fields == <<region_start, region_max_size, region_current_size, region_intervals>>
vars == <<fields, layout, base_addr, memory, asked, pc>>

Free == 0
Foreign == -1
NULL == -1

ROUND_UP(num, mul) == ((num + mul - 1) \div mul) * mul
IS_ALIGNED(num, alignment) == num % alignment = 0

Page(addr) == addr \div BASE_4KB
Pages == 0 .. Page(Top) - 1
Exited == pc \in {"ENOMEM", "EINVAL"}
Mapped(p) == memory[p] \notin {Free, Foreign}

\* The pages of len bytes from addr on.
PagesOf(addr, len) == Page(addr) .. Page(addr + len - 1)

-----------------------------------------------------------------------------
(* MemoryIntervalList.  Its capacity of ten is never reached: Initialize   *)
(* adds five intervals at most.                                            *)

Interval(lo, hi, page) == [lo |-> lo, hi |-> hi, page |-> page]

\* AddInterval, for an interval that may be empty.
AddInterval(list, lo, hi, page) ==
    IF lo < hi THEN Append(list, Interval(lo, hi, page)) ELSE list

\* Fault: the list is left as it was built.
SortNothing(list) == list

\* By their starts, no two of which are the same.
Sort(list) ==
    LET Rank(i) == Cardinality({j \in DOMAIN list : list[j].lo <= list[i].lo})
    IN  [k \in DOMAIN list |-> list[CHOOSE i \in DOMAIN list : Rank(i) = k]]

-----------------------------------------------------------------------------
(* Initialize.                                                             *)

Size1GB(l) == l.end_1gb - l.start_1gb
Size2MB(l) == l.end_2mb - l.start_2mb

\* ValidateRegionOffsets, the call of which is commented out.
ValidateRegionOffsets(l) ==
    /\ l.end_1gb >= l.start_1gb
    /\ l.end_2mb >= l.start_2mb
    /\ IS_ALIGNED(l.start_1gb, BASE_4KB)
    /\ IS_ALIGNED(l.start_2mb, BASE_4KB)
    /\ IS_ALIGNED(Size1GB(l), HUGE_1GB)
    /\ IS_ALIGNED(Size2MB(l), HUGE_2MB)
    /\ Size1GB(l) > 0 /\ Size2MB(l) > 0 => IS_ALIGNED(l.start_1gb - l.start_2mb, HUGE_2MB)

\* The check of MosaicConfiguration.
PoolMatchesOffsets(l) == Max({l.end_1gb, l.end_2mb}) <= l.pool_size

\* The largest page of a layout, and where the first such page begins.
Alignment(l) ==
    IF Size1GB(l) > 0 THEN HUGE_1GB ELSE IF Size2MB(l) > 0 THEN HUGE_2MB ELSE BASE_4KB
AlignedOffset(l) ==
    IF Size1GB(l) > 0 THEN l.start_1gb ELSE IF Size2MB(l) > 0 THEN l.start_2mb ELSE 0

\* Fault: nothing is added for the alignment.
ReservedSizeTight(l) == ROUND_UP(l.pool_size, Alignment(l))

ReservedSize(l) ==
    IF Alignment(l) = BASE_4KB THEN l.pool_size
    ELSE ROUND_UP(l.pool_size + Alignment(l), Alignment(l))

\* Fault: the region, not its first large page, is aligned.
RegionStartOfBase(l, base) == ROUND_UP(base, Alignment(l))

RegionStart(l, base) ==
    ROUND_UP(base + AlignedOffset(l), Alignment(l)) - AlignedOffset(l)

\* Fault: each interval has the other's pages.
HugeIntervalsSwapped(l) ==
    Sort(AddInterval(AddInterval(<<>>, l.start_1gb, l.end_1gb, HUGE_2MB),
                     l.start_2mb, l.end_2mb, HUGE_1GB))

HugeIntervals(l) ==
    Sort(AddInterval(AddInterval(<<>>, l.start_1gb, l.end_1gb, HUGE_1GB),
                     l.start_2mb, l.end_2mb, HUGE_2MB))

\* Pages of 4KB fill the gaps and what is left at the end.
Intervals(l) ==
    LET huge == HugeIntervals(l)
        GapStart(i) == IF i = 1 THEN 0 ELSE huge[i - 1].hi
        GapEnd(i) == IF i = Len(huge) + 1 THEN l.pool_size ELSE huge[i].lo
        gaps == {i \in 1 .. Len(huge) + 1 : GapStart(i) < GapEnd(i)}
    IN  Sort(huge \o SetToSeq({Interval(GapStart(i), GapEnd(i), BASE_4KB) : i \in gaps}))

Init ==
    /\ region_start = NULL
    /\ region_max_size = 0
    /\ region_current_size = 0
    /\ region_intervals = <<>>
    /\ layout \in {l \in Layouts : PoolMatchesOffsets(l)}
    /\ base_addr = NULL
    /\ memory = [p \in Pages |-> Free]
    /\ asked = 0
    /\ pc = "new"

\* Where the kernel may put the reservation.
Room(base) ==
    /\ IS_ALIGNED(base, BASE_4KB)
    /\ base + ReservedSize(layout) <= Top
    /\ \A p \in PagesOf(base, ReservedSize(layout)) : memory[p] = Free

\* There is no room.
ReserveExits ==
    /\ pc = "new"
    /\ ~ \E base \in 0 .. Top : Room(base)
    /\ pc' = "ENOMEM"
    /\ UNCHANGED <<fields, layout, base_addr, memory, asked>>

\* Initialize up to the munmap: the reservation, with pages of 4KB, and what
\* is computed from its address.
Reserve(base) ==
    /\ pc = "new"
    /\ Room(base)
    /\ base_addr' = base
    /\ region_start' = RegionStart(layout, base)
    /\ region_max_size' = layout.pool_size
    /\ region_current_size' = ReservedSize(layout)
    /\ region_intervals' = Intervals(layout)
    /\ memory' = [p \in Pages |->
                    IF p \in PagesOf(base, ReservedSize(layout)) THEN BASE_4KB ELSE memory[p]]
    /\ pc' = "reserved"
    /\ UNCHANGED <<layout, asked>>

\* The munmap; Initialize then calls Resize with all of the region.
Release ==
    /\ pc = "reserved"
    /\ memory' = [p \in Pages |->
                    IF p \in PagesOf(base_addr, region_current_size) THEN Free ELSE memory[p]]
    /\ region_current_size' = 0
    /\ pc' = "released"
    /\ UNCHANGED <<region_start, region_max_size, region_intervals, layout, base_addr, asked>>

-----------------------------------------------------------------------------
(* Resize.                                                                 *)

\* The intervals ExtendRegion maps more of, and the part it maps.
Extends(i, new_size) ==
    /\ region_current_size >= i.lo \/ new_size >= i.lo
    /\ region_current_size < i.hi

\* Fault: an interval that is mapped in part is mapped from its start.
ExtendedPartFromStart(i, new_size) ==
    Interval(i.lo,
             IF new_size <= i.hi THEN i.lo + ROUND_UP(new_size - i.lo, i.page) ELSE i.hi,
             i.page)

ExtendedPart(i, new_size) ==
    Interval(IF region_current_size >= i.lo THEN region_current_size ELSE i.lo,
             IF new_size <= i.hi THEN i.lo + ROUND_UP(new_size - i.lo, i.page) ELSE i.hi,
             i.page)

\* The intervals ShrinkRegion unmaps some of, and the part it unmaps.
Shrinks(i, new_size) ==
    /\ region_current_size <= i.hi \/ new_size <= i.hi
    /\ region_current_size > i.lo

\* Faults: unmapping does not stop at the current size; a page that is still
\* needed in part is unmapped.
ShrunkPartToEnd(i, new_size) ==
    Interval(IF new_size >= i.lo THEN i.lo + ROUND_UP(new_size - i.lo, i.page) ELSE i.lo,
             i.hi,
             i.page)
ShrunkPartDown(i, new_size) ==
    Interval(IF new_size >= i.lo THEN i.lo + ((new_size - i.lo) \div i.page) * i.page ELSE i.lo,
             IF region_current_size <= i.hi THEN region_current_size ELSE i.hi,
             i.page)

ShrunkPart(i, new_size) ==
    Interval(IF new_size >= i.lo THEN i.lo + ROUND_UP(new_size - i.lo, i.page) ELSE i.lo,
             IF region_current_size <= i.hi THEN region_current_size ELSE i.hi,
             i.page)

\* The parts, by the number of their interval.
ExtendedParts(new_size) ==
    [k \in {k \in DOMAIN region_intervals : Extends(region_intervals[k], new_size)} |->
        ExtendedPart(region_intervals[k], new_size)]
ShrunkParts(new_size) ==
    [k \in {k \in DOMAIN region_intervals : Shrinks(region_intervals[k], new_size)} |->
        ShrunkPart(region_intervals[k], new_size)]

\* mmap with MAP_FIXED and munmap want whole pages at their alignment, and
\* are not called for nothing.
Accepted(part) ==
    part.lo # part.hi =>
        /\ IS_ALIGNED(region_start + part.lo, part.page)
        /\ IS_ALIGNED(region_start + part.hi, part.page)
        /\ part.lo < part.hi

PagesOfPart(part) == PagesOf(region_start + part.lo, part.hi - part.lo)

\* AllocateMemory of every part, over whatever is there.
ExtendRegion(new_size) ==
    LET parts == ExtendedParts(new_size) IN
    /\ \A k \in DOMAIN parts : Accepted(parts[k])
    /\ region_current_size' =
          IF DOMAIN parts = {} THEN region_current_size ELSE parts[Max(DOMAIN parts)].hi
    /\ memory' = [p \in Pages |->
                    IF \E k \in DOMAIN parts : p \in PagesOfPart(parts[k])
                    THEN (CHOOSE part \in Range(parts) : p \in PagesOfPart(part)).page
                    ELSE memory[p]]

\* DeallocateMemory of every part.
ShrinkRegion(new_size) ==
    LET parts == ShrunkParts(new_size) IN
    /\ \A k \in DOMAIN parts : Accepted(parts[k])
    /\ region_current_size' =
          Min({region_current_size} \union {part.lo : part \in Range(parts)})
    /\ memory' = [p \in Pages |->
                    IF \E k \in DOMAIN parts : p \in PagesOfPart(parts[k]) THEN Free
                    ELSE memory[p]]

\* Resize within the region; a larger size is refused with -ENOMEM.
Resized(new_size) ==
    /\ new_size <= region_max_size
    /\ \/ new_size > region_current_size /\ ExtendRegion(new_size)
       \/ new_size < region_current_size /\ ShrinkRegion(new_size)
       \/ new_size = region_current_size /\ UNCHANGED <<region_current_size, memory>>
    /\ asked' = new_size

\* A part is not accepted, or there is no memory to map it, of whichever pages:
\* THROW_EXCEPTION.  Whatever was mapped before it goes with the process.
ResizeExits(new_size) ==
    LET grows == new_size > region_current_size IN
    /\ new_size <= region_max_size
    /\ \E part \in Range(IF grows THEN ExtendedParts(new_size) ELSE ShrunkParts(new_size)) :
          \/ ~Accepted(part) /\ pc' = "EINVAL"
          \/ grows /\ part.lo # part.hi /\ pc' = "ENOMEM"
    /\ UNCHANGED <<fields, memory, asked>>

\* The end of Initialize.
Reallocate ==
    /\ pc = "released"
    /\ UNCHANGED <<layout, base_addr>>
    /\ \/ /\ Resized(region_max_size)
          /\ region_max_size' = region_current_size'
          /\ pc' = "ready"
          /\ UNCHANGED <<region_start, region_intervals>>
       \/ ResizeExits(region_max_size)

Resize(new_size) ==
    /\ pc = "ready"
    /\ UNCHANGED <<layout, base_addr>>
    /\ \/ Resized(new_size)
          /\ UNCHANGED <<region_start, region_max_size, region_intervals, pc>>
       \/ ResizeExits(new_size)

\* Another thread maps a page where there is room.
ForeignMmap(p) ==
    /\ ~Exited
    /\ memory[p] = Free
    /\ Cardinality({q \in Pages : memory[q] = Foreign}) < MaxForeign
    /\ memory' = [memory EXCEPT ![p] = Foreign]
    /\ UNCHANGED <<fields, layout, base_addr, asked, pc>>

Next ==
    \/ \E base \in 0 .. Top : Reserve(base)
    \/ ReserveExits
    \/ Release
    \/ Reallocate
    \/ \E new_size \in 0 .. region_max_size + 1 : Resize(new_size)
    \/ \E p \in Pages : ForeignMmap(p)

Spec == Init /\ [][Next]_vars

-----------------------------------------------------------------------------
(* Properties.                                                             *)

\* The bytes between the boundaries of pages: where the current size may be.
Boundaries ==
    {0} \union UNION {{i.lo + k * i.page : k \in 0 .. (i.hi - i.lo) \div i.page} :
                         i \in Range(region_intervals)}

\* What the fields hold; the intervals follow one another without a gap from 0
\* on, which both loops of Resize rely on.
TypeOK ==
    /\ region_start \in Nat \union {NULL} /\ base_addr \in Nat \union {NULL}
    /\ region_max_size \in Nat /\ asked \in Nat
    /\ region_current_size \in Nat
    /\ \A k \in DOMAIN region_intervals :
          LET i == region_intervals[k] IN
          /\ i.lo = IF k = 1 THEN 0 ELSE region_intervals[k - 1].hi
          /\ i.lo < i.hi
          /\ i.page \in {BASE_4KB, HUGE_2MB, HUGE_1GB}
    /\ memory \in [Pages -> {Free, Foreign, BASE_4KB, HUGE_2MB, HUGE_1GB}]
    /\ pc \in {"new", "reserved", "released", "ready", "ENOMEM", "EINVAL"}

\* The region lies within what Initialize has reserved for it, wherever the
\* kernel put the reservation: what is added for the alignment is enough.
RegionWithinReservation ==
    pc = "reserved" =>
        /\ region_start >= base_addr
        /\ region_start + region_max_size <= base_addr + region_current_size

\* With offsets that ValidateRegionOffsets accepts, every huge page is aligned
\* for both sizes of huge pages at once, so that neither mmap nor munmap
\* refuses a part.
ValidOffsetsAreMapped == ValidateRegionOffsets(layout) => pc # "EINVAL"

\* Between calls the mapped pages are the first GetRegionSize bytes of the
\* region, each with the page size its offset was configured with, and the
\* process has no other page of the region's, within it or elsewhere.
MappedIsPrefix ==
    pc = "ready" =>
        LET PageSizeAt(offset) ==
                (CHOOSE i \in Range(region_intervals) : offset \in i.lo .. i.hi - 1).page
        IN  \A p \in Pages :
                LET offset == p * BASE_4KB - region_start IN
                IF offset \in 0 .. region_current_size - 1
                THEN memory[p] = PageSizeAt(offset)
                ELSE ~Mapped(p)

\* After a Resize to a size the region has all the bytes asked for and no page
\* more than they need, whether it grew or shrank; after Initialize it is the
\* whole pool.
SizeIsWhatIsNeeded ==
    pc = "ready" =>
        /\ region_current_size \in Boundaries
        /\ region_current_size >= asked
        /\ \A b \in Boundaries : b >= asked => region_current_size <= b

\* Growing maps over no page the region has, which with MAP_FIXED would take what
\* is written there, and over no page twice, whatever size is asked for next.
GrowingKeepsContents ==
    pc = "ready" =>
        \A new_size \in region_current_size + 1 .. region_max_size :
            LET parts == ExtendedParts(new_size) IN
            \A k \in DOMAIN parts : \A p \in PagesOfPart(parts[k]) :
                /\ ~Mapped(p)
                /\ \A j \in DOMAIN parts \ {k} : p \notin PagesOfPart(parts[j])

\* A page of another thread is lost only when the region grows over it:
\* Release and ShrinkRegion unmap nothing that is not the region's.
OnlyGrowingTakesForeignPages ==
    [][\A p \in Pages :
          memory[p] = Foreign /\ memory'[p] # Foreign =>
              region_current_size <= p * BASE_4KB - region_start
              /\ p * BASE_4KB - region_start < region_current_size']_vars

\* What the user sees: not the reservation, and nothing of a process that has
\* exited.
start_seen == IF pc = "ready" THEN region_start ELSE IF Exited THEN -2 ELSE NULL
size_seen == IF pc = "ready" THEN region_current_size ELSE 0
memory_seen ==
    [p \in Pages |->
        IF pc = "ready" \/ (memory[p] = Foreign /\ ~Exited) THEN memory[p] ELSE Free]

region ==
    INSTANCE Region WITH start <- start_seen, size <- size_seen, memory <- memory_seen

\* Each offset has the pages its layout says, a Resize maps and unmaps just the
\* pages the new size asks for, and touches no others.
RegionSpec == region!Spec
=============================================================================
