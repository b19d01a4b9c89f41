-------------------------------- MODULE Heap --------------------------------
(***************************************************************************)
(* What the first-fit allocator promises to its caller, with no node and   *)
(* no list: regions handed out are pieces of the pool and never overlap, a *)
(* region stays where it is until it is freed, and freeing a whole region  *)
(* always succeeds.  Where a region is placed, and when a request is       *)
(* refused, are left open.  The signatures are those of                    *)
(* src/FirstFitAllocator.h.                                                *)
(***************************************************************************)
EXTENDS Integers

CONSTANTS PoolStart, PoolEnd, Sizes, PartialFrees

VARIABLES held, ret

NULL == 0
Pool == PoolStart .. PoolEnd - 1

Disjoint(r, q) == r.hi <= q.lo \/ q.hi <= r.lo

Init ==
    /\ held = {}
    /\ ret = 0

Allocate(size) ==
    \/ /\ ret' = NULL
       /\ UNCHANGED held
    \/ \E addr \in Pool :
         LET r == [lo |-> addr, hi |-> addr + size]
         IN  /\ size # 0
             /\ r.hi <= PoolEnd
             /\ \A q \in held : Disjoint(r, q)
             /\ held' = held \union {r}
             /\ ret' = addr

Free(addr, size) ==
    \/ \E r \in held :
         /\ r.lo = addr
         /\ \/ addr + size = r.hi
            \/ PartialFrees /\ addr + size < r.hi
         /\ held' = (held \ {r}) \union
                    (IF addr + size = r.hi THEN {} ELSE {[r EXCEPT !.lo = addr + size]})
         /\ ret' = 0
    \/ /\ \A r \in held : r.lo = addr => addr + size > r.hi
       /\ ret' \in {-1, -2}
       /\ UNCHANGED held

Next ==
    \/ \E size \in Sizes : Allocate(size)
    \/ \E addr \in Pool, size \in Sizes \ {0} : Free(addr, size)

Spec == Init /\ [][Next]_<<held, ret>>
=============================================================================
