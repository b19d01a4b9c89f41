-------------------------------- MODULE Region --------------------------------
(***************************************************************************)
(* What a MosaicRegion promises to its user, with no intervals and no      *)
(* parts: each offset of the pool has the size of page its layout gives    *)
(* it, a Resize leaves just the pages that hold the bytes asked for, and   *)
(* nothing else of the address space is touched.  Where the region is      *)
(* placed, and when the process exits, are left open.  The signatures are  *)
(* those of src/MosaicRegion.h.                                            *)
(***************************************************************************)
EXTENDS Integers

CONSTANTS BASE_4KB, HUGE_2MB, HUGE_1GB, Pages, Layouts

VARIABLES
    layout,     \* the arguments of Initialize
    start,      \* the address of the region, None before, Gone when the
                \* process has exited
    size,
    memory      \* of each page of 4KB, the size of the page it is mapped
                \* with, Free, or Foreign

Free == 0
Foreign == -1
None == -1
Gone == -2

\* The page an offset lies on: how large it is and where it ends.
In1GB(offset) == layout.start_1gb <= offset /\ offset < layout.end_1gb
In2MB(offset) == layout.start_2mb <= offset /\ offset < layout.end_2mb

PageSizeOf(offset) ==
    IF In1GB(offset) THEN HUGE_1GB ELSE IF In2MB(offset) THEN HUGE_2MB ELSE BASE_4KB
FirstPage(offset) ==
    IF In1GB(offset) THEN layout.start_1gb
    ELSE IF In2MB(offset) THEN layout.start_2mb ELSE 0
PageEnd(offset) ==
    LET n == (offset - FirstPage(offset)) \div PageSizeOf(offset)
    IN  FirstPage(offset) + (n + 1) * PageSizeOf(offset)

\* The region becomes that of the pages that hold its first n bytes.
Holds(n) ==
    /\ size' = IF n = 0 THEN 0 ELSE PageEnd(n - 1)
    /\ memory' = [p \in Pages |->
            LET offset == p * BASE_4KB - start'
            IN  IF offset \in 0 .. size' - 1 THEN PageSizeOf(offset)
                ELSE IF offset \in size' .. size - 1 THEN Free
                ELSE memory[p]]
    /\ UNCHANGED layout

Init ==
    /\ layout \in Layouts
    /\ start = None
    /\ size = 0
    /\ memory = [p \in Pages |-> Free]

Initialize ==
    /\ start = None
    /\ start' \in Nat
    /\ Holds(layout.pool_size)

Resize(new_size) ==
    /\ start \in Nat
    /\ start' = start
    /\ Holds(new_size)

\* Another thread maps a page.
Mmap(p) ==
    /\ memory[p] = Free
    /\ memory' = [memory EXCEPT ![p] = Foreign]
    /\ UNCHANGED <<layout, start, size>>

\* A call has failed, and nothing is mapped any more.
Exit ==
    /\ start' = Gone
    /\ size' = 0
    /\ memory' = [p \in Pages |-> Free]
    /\ UNCHANGED layout

Next ==
    \/ Initialize
    \/ \E new_size \in 0 .. layout.pool_size : Resize(new_size)
    \/ \E p \in Pages : Mmap(p)
    \/ Exit

Spec == Init /\ [][Next]_<<layout, start, size, memory>>
=============================================================================
