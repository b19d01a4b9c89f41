------------------------- MODULE MCFirstFitAllocator -------------------------
(* Small pools for FirstFitAllocator: the caller asks for 0 .. MaxSize bytes. *)
EXTENDS FirstFitAllocator

SmallSizes == {0, 1, 4}
AllSizes == 0 .. PoolEnd - PoolStart
=============================================================================
