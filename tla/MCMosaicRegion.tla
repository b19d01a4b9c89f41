---------------------------- MODULE MCMosaicRegion ----------------------------
(***************************************************************************)
(* Layouts for MosaicRegion: pools of a few pages with at most one         *)
(* interval of each size of huge pages, whole pages long and apart from    *)
(* each other, anywhere in the pool.                                       *)
(***************************************************************************)
EXTENDS MosaicRegion

CONSTANT PoolSizes

Offsets(pool_size) == {BASE_4KB * k : k \in 0 .. pool_size \div BASE_4KB}

\* Intervals of whole pages of one size, and no interval.
HugeParts(pool_size, page) ==
    {<<0, 0>>} \union
    {<<lo, hi>> \in Offsets(pool_size) \X Offsets(pool_size) : lo < hi /\ (hi - lo) % page = 0}

Apart(a, b) == a[2] <= b[1] \/ b[2] <= a[1]

Layout(pool_size, a, b) ==
    [pool_size |-> pool_size, start_1gb |-> a[1], end_1gb |-> a[2],
     start_2mb |-> b[1], end_2mb |-> b[2]]

\* Some of them have a gap between the huge pages that suits not both.
PlausibleLayouts ==
    UNION {{Layout(n, a, b) : <<a, b>> \in {<<x, y>> \in
                HugeParts(n, HUGE_1GB) \X HugeParts(n, HUGE_2MB) : Apart(x, y)}} :
           n \in PoolSizes}
=============================================================================
