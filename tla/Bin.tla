--------------------------------- MODULE Bin ---------------------------------
(***************************************************************************)
(* The bins of an arena: the slabs of one small size class, the current    *)
(* slab, the heap of nonfull slabs and, in a manual arena, the list of     *)
(* full slabs (bin.c, bin_inlines.h).                                      *)
(*                                                                         *)
(* The operators are pure: each maps the state that a bin lock protects to *)
(* what the function of the same name leaves when the lock is released.    *)
(* A slab is a number: the smaller, the older or lower (edata_snad_comp).  *)
(* The region bitmap of a slab is the set of its free regions.             *)
(***************************************************************************)
EXTENDS Integers, FiniteSets, Sequences, FiniteSetsExt, SequencesExt

CONSTANTS
    NExtents    \* the page allocator can supply the extents 1 .. NExtents

ASSUME BinAssumption == NExtents \in Nat \ {0}

Extents == 1 .. NExtents
NULL == 0

\* A pointer: region reg of slab ext, or the large extent ext when reg is 0.
Ptr(e, r) == [ext |-> e, reg |-> r]

Bin == [cur : Extents \union {NULL}, nonfull : SUBSET Extents,
        full : SUBSET Extents, curregs : Int, curslabs : Int,
        nonfull_slabs : Int, nrequests : Nat]

bin_init == [cur |-> NULL, nonfull |-> {}, full |-> {}, curregs |-> 0,
             curslabs |-> 0, nonfull_slabs |-> 0, nrequests |-> 0]

-----------------------------------------------------------------------------

(* Operators named X_<bug> are X with a bug that the properties must detect. *)

bin_slabs_nonfull_insert(b, s) ==
    [b EXCEPT !.nonfull = @ \union {s}, !.nonfull_slabs = @ + 1]

bin_slabs_nonfull_remove(b, s) ==
    [b EXCEPT !.nonfull = @ \ {s}, !.nonfull_slabs = @ - 1]

bin_slabs_nonfull_tryget(b) ==
    IF b.nonfull = {}
    THEN [b EXCEPT !.cur = NULL]
    ELSE [b EXCEPT !.cur = Min(b.nonfull), !.nonfull = @ \ {Min(b.nonfull)},
                   !.nonfull_slabs = @ - 1]

\* Only manual arenas can be reset, so only they track their full slabs.
bin_slabs_full_insert(auto, b, s) ==
    IF auto THEN b ELSE [b EXCEPT !.full = @ \union {s}]

bin_slabs_full_remove(auto, b, s) ==
    IF auto THEN b ELSE [b EXCEPT !.full = @ \ {s}]

\* A slab of one region goes from full to empty and never is nonfull.
bin_dissociate_slab(auto, nregs, s, b) ==
    IF s = b.cur THEN [b EXCEPT !.cur = NULL]
    ELSE IF nregs = 1 THEN bin_slabs_full_remove(auto, b, s)
    ELSE bin_slabs_nonfull_remove(b, s)

bin_lower_slab_keep(auto, free, s, b) == bin_slabs_nonfull_insert(b, s)

\* free maps every slab to its free regions.
bin_lower_slab(auto, free, s, b) ==
    IF b.cur # NULL /\ b.cur > s
    THEN [ IF free[b.cur] # {} THEN bin_slabs_nonfull_insert(b, b.cur)
           ELSE bin_slabs_full_insert(auto, b, b.cur) EXCEPT !.cur = s ]
    ELSE bin_slabs_nonfull_insert(b, s)

bin_dalloc_slab_prepare(b) == [b EXCEPT !.curslabs = @ - 1]

bin_dalloc_locked_handle_newly_empty(auto, nregs, s, b) ==
    bin_dalloc_slab_prepare(bin_dissociate_slab(auto, nregs, s, b))

bin_dalloc_locked_handle_newly_nonempty(auto, free, s, b) ==
    bin_lower_slab(auto, free, s, bin_slabs_full_remove(auto, b, s))

\* The arithmetic of unsigned, eight bits wide.
Unsigned(n) == n % 256

\* k.bin and k.free are the bin and the bitmaps; k.empty collects the slabs
\* that have to be deallocated once the lock is released.
bin_dalloc_locked_step(auto, nregs, k, p) ==
    LET s == p.ext
        free == [k.free EXCEPT ![s] = @ \union {p.reg}]
        nfree == Cardinality(free[s])
        ends == Unsigned(nfree - 2) >= Unsigned(nregs - 2)
    IN  [ bin |-> IF ends /\ nfree = nregs
                  THEN bin_dalloc_locked_handle_newly_empty(auto, nregs, s, k.bin)
                  ELSE IF ends /\ s # k.bin.cur
                  THEN bin_dalloc_locked_handle_newly_nonempty(auto, free, s, k.bin)
                  ELSE k.bin,
          free |-> free,
          empty |-> IF ends /\ nfree = nregs THEN Append(k.empty, s) ELSE k.empty ]

\* bin_dalloc_locked_begin, one step for each pointer, and ..._finish.
BinDalloc(auto, nregs, b, free, ptrs) ==
    LET k == FoldLeft(LAMBDA k, p : bin_dalloc_locked_step(auto, nregs, k, p),
                      [bin |-> b, free |-> free, empty |-> << >>], ptrs)
    IN  [k EXCEPT !.bin.curregs = @ - Len(ptrs)]

-----------------------------------------------------------------------------

\* The lowest cnt free regions of slab s, in ascending order.
LowestFree(free, s, cnt) ==
    SubSeq(SetToSortSeq(free[s], <), 1, cnt)

bin_slab_reg_alloc_batch(k, cnt) ==
    LET regs == LowestFree(k.free, k.bin.cur, cnt)
    IN  [ ptrs |-> [i \in 1 .. cnt |-> Ptr(k.bin.cur, regs[i])],
          free |-> [k.free EXCEPT ![k.bin.cur] = @ \ Range(regs)] ]

bin_refill_slabcur_no_fresh_slab(auto, b) ==
    bin_slabs_nonfull_tryget(IF b.cur # NULL THEN bin_slabs_full_insert(auto, b, b.cur)
                             ELSE b)

bin_refill_slabcur_with_fresh_slab(b, s) ==
    [b EXCEPT !.cur = s, !.curslabs = @ + 1]

\* The bin with a usable current slab, or with none (cur = NULL).
bin_malloc_no_fresh_slab(auto, b, free) ==
    IF b.cur = NULL \/ free[b.cur] = {}
    THEN bin_refill_slabcur_no_fresh_slab(auto, b) ELSE b

\* Where the garbage collector of a tcache looks for pointers to keep.
bin_current_slab_addr(b) ==
    IF b.cur # NULL THEN b.cur
    ELSE IF b.nonfull # {} THEN Min(b.nonfull) ELSE NULL
=============================================================================
