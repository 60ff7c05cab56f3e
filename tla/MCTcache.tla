------------------------------ MODULE MCTcache ------------------------------
(***************************************************************************)
(* Instances of Tcache for model checking.  Arena 1 is automatic; arena 2  *)
(* is manual where an option says so.                                      *)
(***************************************************************************)
EXTENDS Tcache

\* One thread with arena 1, shard 0; small caching only.
One == [nregs |-> 2, extents |-> 2, small |-> 2, large |-> 0, empty |-> 1,
        uaf |-> FALSE, near |-> 1, oom |-> FALSE, batch |-> 3, requests |-> 0,
        threads |-> {1}, manual |-> {2}, home |-> << <<1, 0>>, <<1, 0>> >>,
        direct |-> FALSE, gc |-> TRUE, reset |-> 0, inds |-> {"small"}]

CacheOptions == {
    \* Two threads share a bin, each through a tcache of two slots.
    [One EXCEPT !.threads = {1, 2}, !.gc = FALSE],
    \* The adaptive targets, and the locality of the garbage collector.
    [One EXCEPT !.nregs = 3, !.small = 6, !.empty = 3, !.requests = 4],
    \* Slabs of one region.
    [One EXCEPT !.nregs = 1, !.extents = 3, !.small = 2, !.direct = TRUE],
    \* One tcache for pointers of two arenas, the second one of which is reset.
    [One EXCEPT !.direct = TRUE, !.batch = 1, !.reset = 1],
    \* Use-after-free detection stashes half of the pointers.
    [One EXCEPT !.uaf = TRUE, !.small = 3, !.oom = TRUE],
    \* Large allocations of two threads in an automatic and a manual arena.
    [One EXCEPT !.large = 2, !.inds = {"large"}, !.direct = TRUE,
                !.threads = {1, 2}],
    \* The same for one thread, with the requests counted, and with reset.
    [One EXCEPT !.large = 2, !.inds = {"large"}, !.direct = TRUE, !.requests = 3,
                !.reset = 1] }

\* A manual arena without tcache that is reset.
ResetOptions == { [One EXCEPT !.direct = TRUE, !.small = 0, !.reset = 2] }

(***************************************************************************)
(* Every slab is in the container its bitmap says, and the statistics of   *)
(* its bin count exactly the slabs and regions there are (bin_dalloc_slab, *)
(* arena_cache_bin_fill_small, tcache_bin_flush_impl).                     *)
(***************************************************************************)
SlabsSound == SlabsPlaced /\ BinStatsExact
=============================================================================
