-------------------------- MODULE FirstFitAllocator --------------------------
(***************************************************************************)
(* The first-fit allocator of src/FirstFitAllocator.{h,cpp}.  One array of *)
(* nodes holds two singly linked lists threaded through the field `next':  *)
(* the free chunks and the occupied chunks of one pool of addresses, both  *)
(* kept in increasing order of `start'.  A node whose start is NULL is on  *)
(* neither list.  An address is a number of bytes; the pool is             *)
(* PoolStart .. PoolEnd - 1 and chunks are half open, start .. end - 1.    *)
(*                                                                         *)
(* The module also keeps what the caller knows: the regions it holds and   *)
(* the result of its last call.                                            *)
(***************************************************************************)
EXTENDS Integers, FiniteSets, FiniteSetsExt

CONSTANTS
    Len,            \* number of nodes given to Initialize
    PoolStart,      \* first address of the pool
    PoolEnd,        \* first address after the pool
    Sizes,          \* the sizes the caller passes
    PartialFrees    \* TRUE: the caller also frees prefixes of its regions

ASSUME FFAAssumption ==
    /\ Len \in Nat \ {0}
    /\ PoolStart \in Nat \ {0}
    /\ PoolEnd \in Nat
    /\ PoolStart < PoolEnd
    /\ Sizes \subseteq Nat
    /\ PartialFrees \in BOOLEAN

VARIABLES
    start, end, next,           \* the fields of _array
    free_head, occupied_head,   \* the heads of the two lists
    held,                       \* the regions the caller has been given
    ret                         \* what the last call returned

lists == <<start, end, next, free_head, occupied_head>>
vars == <<start, end, next, free_head, occupied_head, held, ret>>

Node == 0 .. Len - 1
Nil  == -1
NULL == 0

Pool == PoolStart .. PoolEnd - 1
Bytes(lo, hi) == lo .. hi - 1
Region == [lo : Pool, hi : PoolStart + 1 .. PoolEnd]

-----------------------------------------------------------------------------
(* Walking a list.                                                         *)

\* The nodes a loop `for (i = h; i >= 0; i = nx[i])' visits.
ListFrom(nx, h) ==
    LET closed == {S \in SUBSET Node : \A j \in S : nx[j] # Nil => nx[j] \in S}
    IN  {i \in Node : h # Nil /\ \A S \in closed : h \in S => i \in S}

\* Where such a loop breaks: the first visited node of `hits', or Nil.
FirstOn(nx, h, hits) ==
    LET cut   == [i \in Node |-> IF i \in hits THEN Nil ELSE nx[i]]
        found == hits \cap ListFrom(cut, h)
    IN  IF found = {} THEN Nil ELSE CHOOSE i \in found : TRUE

\* The loop's prev_i when it stands at node i (i = Nil: it ran to the end).
PrevOn(nx, h, i) ==
    IF h = i THEN Nil ELSE CHOOSE p \in ListFrom(nx, h) : nx[p] = i

FreeNodes     == ListFrom(next, free_head)
OccupiedNodes == ListFrom(next, occupied_head)

SizeOf(i) == end[i] - start[i]

\* The first index of the array whose node is unused.
FindFreeNode(st) ==
    IF \E i \in Node : st[i] = NULL
    THEN CHOOSE i \in Node : st[i] = NULL /\ \A j \in 0 .. i - 1 : st[j] # NULL
    ELSE Nil

FindOccupiedMemoryRegionNode(addr) ==
    FirstOn(next, occupied_head,
            {i \in Node : start[i] = addr \/ addr \in Bytes(start[i], end[i])})

\* Faults: a list that is used as a stack, or as a queue.
InsertPointFront(nx, h, st, s) == h
InsertPointBack(nx, h, st, s) == Nil

\* Linking a node in front of the first one that starts after address s.
InsertPoint(nx, h, st, s) == FirstOn(nx, h, {i \in Node : st[i] > s})

InsertNext(nx, h, st, node, s) ==
    LET i == InsertPoint(nx, h, st, s)
        prev == PrevOn(nx, h, i)
    IN  IF prev = Nil THEN [nx EXCEPT ![node] = i]
        ELSE [nx EXCEPT ![node] = i, ![prev] = node]

InsertHead(nx, h, st, node, s) ==
    IF InsertPoint(nx, h, st, s) = h THEN node ELSE h

\* Faults: the predecessor, or the head, is not redirected.
UnlinkNextKeepsPrev(nx, h, i) == [nx EXCEPT ![i] = Nil]
UnlinkHeadKeepsHead(nx, h, i) == h

\* Taking node i out of a list.
UnlinkNext(nx, h, i) ==
    LET prev == PrevOn(nx, h, i)
    IN  IF prev = Nil THEN [nx EXCEPT ![i] = Nil]
        ELSE [nx EXCEPT ![prev] = nx[i], ![i] = Nil]

UnlinkHead(nx, h, i) == IF h = i THEN nx[i] ELSE h

-----------------------------------------------------------------------------
(* CombineAdjacentFreeNodes: every maximal run of touching list neighbours *)
(* becomes its first node.                                                 *)

\* Faults: neighbours are combined across a gap; a combined chunk keeps its end.
TouchesNextAlways(st, en, nx, i) == nx[i] # Nil
CombinedEndKept(st, en, nx, h) ==
    [i \in Node |-> IF i \in { nx[j] : j \in {k \in ListFrom(nx, h) :
                                                nx[k] # Nil /\ en[k] = st[nx[k]]} }
                    THEN NULL ELSE en[i]]

TouchesNext(st, en, nx, i) == nx[i] # Nil /\ en[i] = st[nx[i]]

RunEnd(st, en, nx, i) ==
    FirstOn(nx, i, {j \in Node : ~TouchesNext(st, en, nx, j)})

Absorbed(st, en, nx, h) ==
    { nx[i] : i \in {j \in ListFrom(nx, h) : TouchesNext(st, en, nx, j)} }

CombinedStart(st, en, nx, h) ==
    LET gone == Absorbed(st, en, nx, h)
    IN  [i \in Node |-> IF i \in gone THEN NULL ELSE st[i]]

CombinedEnd(st, en, nx, h) ==
    LET gone == Absorbed(st, en, nx, h)
        list == ListFrom(nx, h)
    IN  [i \in Node |-> IF i \in gone THEN NULL
                        ELSE IF i \in list THEN en[RunEnd(st, en, nx, i)] ELSE en[i]]

CombinedNext(st, en, nx, h) ==
    LET gone == Absorbed(st, en, nx, h)
        list == ListFrom(nx, h)
    IN  [i \in Node |-> IF i \in gone THEN Nil
                        ELSE IF i \in list THEN nx[RunEnd(st, en, nx, i)] ELSE nx[i]]

-----------------------------------------------------------------------------
(* Initialize: one free chunk, the whole pool, in node 0.                  *)

Init ==
    /\ start = [i \in Node |-> IF i = 0 THEN PoolStart ELSE NULL]
    /\ end   = [i \in Node |-> IF i = 0 THEN PoolEnd ELSE NULL]
    /\ next  = [i \in Node |-> Nil]
    /\ free_head = 0
    /\ occupied_head = Nil
    /\ held = {}
    /\ ret = 0

-----------------------------------------------------------------------------
(* Allocate.                                                               *)

\* Faults: a chunk one byte short is taken; the size is not compared at all.
FirstFitOffByOne(size) ==
    FirstOn(next, free_head, {i \in Node : SizeOf(i) + 1 >= size})
FirstFitAny(size) == FirstOn(next, free_head, Node)

FirstFit(size) == FirstOn(next, free_head, {i \in Node : SizeOf(i) >= size})

\* The caller's view of a successful and of a refused Allocate.
Granted(size, addr) ==
    /\ held' = held \union {[lo |-> addr, hi |-> addr + size]}
    /\ ret' = addr

Refused ==
    /\ ret' = NULL
    /\ UNCHANGED <<lists, held>>

\* Nothing asked for, no chunk large enough, or a split without a node for it.
AllocateRefused(size) ==
    /\ \/ size = 0
       \/ FirstFit(size) = Nil
       \/ /\ FirstFit(size) # Nil
          /\ SizeOf(FirstFit(size)) # size
          /\ FindFreeNode(start) = Nil
    /\ Refused

\* An exact fit: the node itself changes list.
MoveNodeFromFreeListToOccupied(size) ==
    LET i == FirstFit(size)
        nx == UnlinkNext(next, free_head, i)
    IN  /\ size # 0
        /\ i # Nil
        /\ SizeOf(i) = size
        /\ next' = InsertNext(nx, occupied_head, start, i, start[i])
        /\ free_head' = UnlinkHead(next, free_head, i)
        /\ occupied_head' = InsertHead(nx, occupied_head, start, i, start[i])
        /\ UNCHANGED <<start, end>>
        /\ Granted(size, start[i])

\* A larger chunk: an unused node takes the front of it.  The code moves
\* _free_head on if that node heads the free list, which no unused node does
\* (NoDisconnectedNode).
AllocateMemoryRegionNode(size) ==
    LET i == FirstFit(size)
        node == FindFreeNode(start)
        addr == start[i]
    IN  /\ size # 0
        /\ i # Nil
        /\ SizeOf(i) # size
        /\ node # Nil
        /\ start' = [start EXCEPT ![node] = addr, ![i] = addr + size]
        /\ end' = [end EXCEPT ![node] = addr + size]
        /\ next' = InsertNext(next, occupied_head, start, node, addr)
        /\ occupied_head' = InsertHead(next, occupied_head, start, node, addr)
        /\ UNCHANGED free_head
        /\ Granted(size, addr)

Allocate(size) ==
    \/ AllocateRefused(size)
    \/ MoveNodeFromFreeListToOccupied(size)
    \/ AllocateMemoryRegionNode(size)

-----------------------------------------------------------------------------
(* Free.                                                                   *)

\* What the caller still holds after a Free that returned 0.
Freed(addr, size) ==
    held' = { r \in held : r.lo # addr } \union
            { [lo |-> addr + size, hi |-> r.hi] :
                r \in {q \in held : q.lo = addr /\ q.hi # addr + size} }

\* AddFreedRegionToFreeList on the lists st, en, nx as they are by then.  The
\* chunk joins one free chunk it touches, or takes a node of its own, or is
\* lost when there is none.
AddFreedRegionToFreeList(st, en, nx, addr, size) ==
    LET past  == addr + size
        touch == FirstOn(nx, free_head, {i \in Node : st[i] = past \/ en[i] = addr})
        node  == FindFreeNode(st)
        st2   == [st EXCEPT ![node] = addr]
        en2   == [en EXCEPT ![node] = past]
        nx2   == InsertNext(nx, free_head, st, node, addr)
        h2    == InsertHead(nx, free_head, st, node, addr)
    IN  \/ /\ touch # Nil
           /\ IF st[touch] = past
              THEN start' = [st EXCEPT ![touch] = addr] /\ end' = en
              ELSE start' = st /\ end' = [en EXCEPT ![touch] = past]
           /\ next' = nx
           /\ UNCHANGED free_head
           /\ Freed(addr, size)
           /\ ret' = 0
        \/ /\ touch = Nil
           /\ node = Nil
           /\ start' = st /\ end' = en /\ next' = nx
           /\ UNCHANGED <<free_head, held>>
           /\ ret' = -1
        \/ /\ touch = Nil
           /\ node # Nil
           /\ start' = CombinedStart(st2, en2, nx2, h2)
           /\ end' = CombinedEnd(st2, en2, nx2, h2)
           /\ next' = CombinedNext(st2, en2, nx2, h2)
           /\ free_head' = h2
           /\ Freed(addr, size)
           /\ ret' = 0

FreeUnknown(node) ==
    /\ node = Nil
    /\ ret' = -1
    /\ UNCHANGED <<lists, held>>

FreeTooMuch(node, size) ==
    /\ node # Nil
    /\ SizeOf(node) < size
    /\ ret' = -2
    /\ UNCHANGED <<lists, held>>

\* Fault: the released node is not reset, so it cannot be reused.
FreeOccupiedRegionNodeNotReset(node, addr, size) ==
    /\ node # Nil
    /\ SizeOf(node) = size
    /\ occupied_head' = UnlinkHead(next, occupied_head, node)
    /\ AddFreedRegionToFreeList(start, end, UnlinkNext(next, occupied_head, node),
                                addr, size)

FreeOccupiedRegionNode(node, addr, size) ==
    /\ node # Nil
    /\ SizeOf(node) = size
    /\ occupied_head' = UnlinkHead(next, occupied_head, node)
    /\ AddFreedRegionToFreeList([start EXCEPT ![node] = NULL],
                                [end EXCEPT ![node] = NULL],
                                UnlinkNext(next, occupied_head, node),
                                addr, size)

FreePart(node, addr, size) ==
    /\ node # Nil
    /\ SizeOf(node) > size
    /\ UNCHANGED occupied_head
    /\ AddFreedRegionToFreeList([start EXCEPT ![node] = @ + size],
                                end, next, addr, size)

Free(addr, size) ==
    \E node \in {FindOccupiedMemoryRegionNode(addr)} :
        \/ FreeUnknown(node)
        \/ FreeTooMuch(node, size)
        \/ FreeOccupiedRegionNode(node, addr, size)
        \/ FreePart(node, addr, size)

-----------------------------------------------------------------------------
(* The caller frees a region it holds, or a prefix of one, or too much of  *)
(* one, or an address it does not hold (a second free).  It never frees    *)
(* from the middle of a region: the code leaves that as a TODO.            *)

MayFree(addr, size) ==
    /\ size # 0
    /\ \/ \A r \in held : addr \notin Bytes(r.lo, r.hi)
       \/ \E r \in held : /\ r.lo = addr
                          /\ r.hi - addr > size => PartialFrees

Next ==
    \/ \E size \in Sizes : Allocate(size)
    \/ \E addr \in Pool, size \in Sizes : MayFree(addr, size) /\ Free(addr, size)

Spec == Init /\ [][Next]_vars

-----------------------------------------------------------------------------
(* What the allocator can be asked.                                        *)

\* GetFreeSpace: the bytes on the free list.
GetFreeSpace == MapThenSumSet(SizeOf, FreeNodes)

\* GetTopAddress: where the highest occupied chunk ends.
GetTopAddress == Max({PoolStart} \union {end[i] : i \in OccupiedNodes})

\* IsValidDataStructure: no two chunks of the lists overlap, and their sizes
\* add up to the pool.
Overlaps(i, j) ==
    \/ start[i] >= start[j] /\ start[i] < end[j]
    \/ start[j] >= start[i] /\ start[j] < end[i]

IsValidDataStructure ==
    /\ \A i \in OccupiedNodes, j \in OccupiedNodes : i # j => ~Overlaps(i, j)
    /\ \A i \in OccupiedNodes, j \in FreeNodes : ~Overlaps(i, j)
    /\ \A i \in FreeNodes, j \in FreeNodes : i # j => ~Overlaps(i, j)
    /\ MapThenSumSet(SizeOf, OccupiedNodes) + GetFreeSpace = PoolEnd - PoolStart

-----------------------------------------------------------------------------
(* Properties.                                                             *)

\* Every field keeps its type: an index is a node or Nil, and an address is
\* NULL or one of the pool (both ends of _array's chunks, the heads, and what
\* the caller is given).
TypeOK ==
    /\ start \in [Node -> {NULL} \union Pool]
    /\ end \in [Node -> {NULL} \union PoolStart + 1 .. PoolEnd]
    /\ next \in [Node -> Node \union {Nil}]
    /\ free_head \in Node \union {Nil}
    /\ occupied_head \in Node \union {Nil}
    /\ held \in SUBSET Region
    /\ ret \in {-2, -1, 0} \union Pool

\* Nothing of the array is lost or used twice: a node is on the free list, on
\* the occupied list, or has a NULL start, and never two of these (the check
\* IsValidDataStructure has commented out).
NoDisconnectedNode ==
    /\ FreeNodes \cap OccupiedNodes = {}
    /\ FreeNodes \union OccupiedNodes = {i \in Node : start[i] # NULL}

\* The chunks of the nodes in use are nonempty and no two share a byte: what
\* the overlap half of IsValidDataStructure looks for, over the whole array.
NoOverlap ==
    /\ \A i \in Node : start[i] # NULL => start[i] < end[i]
    /\ \A i, j \in Node :
         start[i] # NULL /\ start[j] # NULL /\ i # j
           => end[i] <= start[j] \/ end[j] <= start[i]

\* Both lists run in increasing order of start, which
\* CombineAdjacentFreeNodes and the first-fit order rely on.
ListsSorted ==
    \A i \in FreeNodes \union OccupiedNodes :
        next[i] # Nil => start[i] < start[next[i]]

\* RUN_VALIDATION: assert(IsValidDataStructure()) after every call.
RunValidation == IsValidDataStructure

\* The allocator and its caller agree: the occupied chunks are exactly the
\* regions the caller holds, the rest of the pool is free, and GetFreeSpace
\* and GetTopAddress report just that.
AgreesWithCaller ==
    /\ {[lo |-> start[i], hi |-> end[i]] : i \in OccupiedNodes} = held
    /\ GetFreeSpace = Cardinality({b \in Pool : \A r \in held : b \notin Bytes(r.lo, r.hi)})
    /\ GetTopAddress = Max({PoolStart} \union {r.hi : r \in held})

\* Allocate is first fit by address: it returns the lowest free chunk that is
\* large enough, whatever the order in which chunks were freed and nodes reused.
FirstFitByAddress ==
    [][ \A r \in held' \ held : ret' = r.lo =>
          /\ r.lo \in {start[i] : i \in FreeNodes}
          /\ \A i \in FreeNodes : start[i] < r.lo => SizeOf(i) < r.hi - r.lo ]_vars

\* A Free that returns an error has changed nothing, so that the caller may
\* repeat it; a Free that runs out of nodes half way would break this.
FailedFreeChangesNothing == [][ ret' \in {-1, -2} => UNCHANGED lists ]_vars

\* To its caller the allocator is a Heap.
heap == INSTANCE Heap
    WITH PoolStart <- PoolStart, PoolEnd <- PoolEnd, Sizes <- Sizes,
         PartialFrees <- PartialFrees, held <- held, ret <- ret
HeapSpec == heap!Spec
=============================================================================
