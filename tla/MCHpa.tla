-------------------------------- MODULE MCHpa -------------------------------
(* Instances of Hpa for TLC: small hugepages, few slabs and few extents. *)
EXTENDS Hpa, TLC

Symmetry == Permutations(Edatas) \union Permutations(Threads)

\* Lazy hugification of slabs of one extent cache less shard.
Lazy == [trim |-> FALSE, startHuge |-> FALSE, manualHugify |-> TRUE,
         assumeHuge |-> FALSE, deferral |-> TRUE, dirtyMult |-> << 0, 1 >>,
         edenSlabs |-> 1, nallocs |-> 1, sizes |-> {1, 2}, secSizes |-> {},
         faults |-> {}, maxAge |-> 3, threads |-> Threads, pages |-> 2,
         slabs |-> 2, classes |-> {1, 2}, classless |-> FALSE,
         hugifyThreshold |-> 2, purgeThreshold |-> 2]

\* A small extent cache that is filled, trimmed and flushed; allocation
\* failures.
Cached == [Lazy EXCEPT !.trim = TRUE, !.nallocs = 2, !.sizes = {1},
                       !.secSizes = {1}, !.maxAge = 2,
                       !.faults = {"register_fails", "central_fails"}]

\* Slabs that start huge, two to an eden, and work done by the threads that
\* allocate.
Eager == [Lazy EXCEPT !.startHuge = TRUE, !.manualHugify = FALSE,
                      !.assumeHuge = TRUE, !.edenSlabs = 2, !.deferral = FALSE,
                      !.dirtyMult = << 1, 2 >>, !.maxAge = 2]

\* Batches of several sizes in one fragmented slab.
Fragmented(t) == [Lazy EXCEPT !.threads = {t}, !.pages = 5, !.slabs = 1,
                           !.classes = {1, 2, 4, 5}, !.classless = TRUE,
                           !.hugifyThreshold = 4, !.purgeThreshold = 3, !.nallocs = 3, !.sizes = {1, 2, 3}, !.secSizes = {1, 2},
                           !.faults = {"register_fails"}]

ThreadOptions == {Lazy, Cached, Eager} \union {Fragmented(t) : t \in Threads}
AgesOptions == {[Lazy EXCEPT !.manualHugify = FALSE, !.maxAge = 6,
                                 !.pages = 3, !.classes = {1, 2, 3}]}

(***************************************************************************)
(* What a purge or a hugification with the mutex dropped must not break:   *)
(* nothing in use is purged, the pages that are pending are never more     *)
(* than those that are dirty, and no page of a slab is resident without    *)
(* being counted as touched (hpa_purge, hpa_try_hugify in hpa.c).          *)
(***************************************************************************)
PurgeSound == PurgeSafe /\ AdjustedDirtyNatural /\ ResidentTouched

(***************************************************************************)
(* The containers of the psset, their statistics and the longest free      *)
(* range of every slab are what the slabs' own bitmaps say, so the slab    *)
(* that psset_pick_alloc offers has room (psset.c, hpdata.c).              *)
(***************************************************************************)
PssetSound == TypeOK /\ PssetExact /\ SlabsConsistent /\ PickFits
=============================================================================
