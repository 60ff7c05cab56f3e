------------------------------- MODULE Tcache -------------------------------
(***************************************************************************)
(* Small and large allocation and deallocation through thread caches:      *)
(* tcache.c, tcache_inlines.h, the slab, flush and reset code of arena.c,  *)
(* and large.c.                                                            *)
(*                                                                         *)
(* One small and one large size class.  A thread runs a call as a list of  *)
(* operations, th[t].todo; every critical section of a bin lock, of        *)
(* large_mtx or of the page allocator is one step, so that other threads   *)
(* run between any two of them.  The page allocator is a pool of extents.  *)
(***************************************************************************)
EXTENDS CacheBin

CONSTANTS
    Threads,
    Arenas,
    Options     \* the configurations the program may be booted with

VARIABLES
    opt,        \* the configuration
    ext,        \* extents: in the pool, a slab of a bin or a large allocation
    bin,        \* <<arena, shard>> -> bin_t
    large,      \* arena -> the list of large extents (manual arenas), stats
    tc,         \* thread -> "small", "large" -> cache bin and its targets
    live,       \* the pointers the application holds
    requests,   \* the requests that nrequests has to count, up to opt.requests
    th          \* thread -> the call it is executing

vars == << opt, ext, bin, large, tc, live, requests, th >>

Shards == {0, 1}
Bins == Arenas \X Shards
Inds == {"small", "large"}

Option == [nregs : Nat \ {0}, extents : Nat, small : Nat, large : Nat,
           empty : Nat, uaf : BOOLEAN, near : Nat, oom : BOOLEAN,
           batch : Nat \ {0}, requests : Nat, threads : SUBSET Threads,
           manual : SUBSET Arenas, home : [Threads -> Bins],
           direct : BOOLEAN, gc : BOOLEAN, reset : Nat, inds : SUBSET Inds]

ASSUME TcacheAssumption ==
    \A o \in Options : /\ o \in Option
                       /\ o.small < LowBits /\ o.large < LowBits

Regs == 1 .. opt.nregs
Owner(e) == ext[e].owner
ArenaOf(b) == b[1]
HomeArena(t) == ArenaOf(opt.home[t])
Auto(a) == a \notin opt.manual
FreeOf(x) == [e \in Extents |-> x[e].free]
WithFree(free) == [e \in Extents |-> [ext[e] EXCEPT !.free = free[e]]]

\* bin_choose: every arena uses the shard that the thread was bound to.
bin_choose(t, a) == << a, opt.home[t][2] >>

NoStats == -1
NoBin == << NULL, NULL >>
InPool == [use |-> "pool", owner |-> NoBin, free |-> {}]
NoArr == [ptr |-> 0, n |-> 0]

Idle == [todo |-> << >>, arena |-> NULL, ptr |-> NoPtr, batch |-> << >>,
         ptrs |-> << >>, stats |-> NoStats, nflush |-> 0, rem |-> 0,
         dallocs |-> << >>, arr |-> NoArr, filled |-> 0, fresh |-> NULL,
         progress |-> TRUE]

Op(t) == IF th[t].todo = << >> THEN "idle" ELSE Head(th[t].todo)[1]
Ind(t) == Head(th[t].todo)[2]
Cb(t) == tc[t][Ind(t)].bin

\* The call goes on with r; Done drops the operation that was executed.
\* When no operation is left, the call returns.
Goto(t, r) ==
    /\ th' = [th EXCEPT ![t] = IF r.todo = << >> THEN Idle ELSE r]
    /\ UNCHANGED opt
Done(r) == [r EXCEPT !.todo = Tail(@)]
Instead(r, ops) == [r EXCEPT !.todo = ops \o Tail(@)]

\* tcache_init for one bin.
TcacheBinInit(ind, o) ==
    LET max == IF ind = "small" THEN o.small ELSE o.large
        target == tcache_ncached_target_max(max)
    IN  [ bin |-> cache_bin_init(max, max, o.empty),
          nfill |-> IF max > 0 THEN target ELSE 1,
          nretain |-> IF max > 0 THEN target ELSE 0 ]

Init ==
    /\ opt \in Options
    /\ ext = [e \in Extents |-> InPool]
    /\ bin = [b \in Bins |-> bin_init]
    /\ large = [a \in Arenas |-> [list |-> {}, cur |-> 0, nrequests |-> 0]]
    /\ tc = [t \in Threads |-> [i \in Inds |-> TcacheBinInit(i, opt)]]
    /\ live = {}
    /\ requests = [i \in Inds |-> 0]
    /\ th = [t \in Threads |-> Idle]

SetBin(t, ind, cb) == tc' = [tc EXCEPT ![t][ind].bin = cb]

\* Request counters are kept only where opt.requests bounds their number.
Count(n) == IF opt.requests > 0 THEN n ELSE 0
MayRequest(ind) == opt.requests = 0 \/ requests[ind] < opt.requests

-----------------------------------------------------------------------------

(* Operators named X_<bug> are X with a bug that the properties must detect. *)

\* The extents that pa_alloc may return; NULL when it runs out of memory.
pa_alloc ==
    LET pool == {e \in 1 .. opt.extents : ext[e].use = "pool"}
    IN  pool \union (IF pool = {} \/ opt.oom THEN {NULL} ELSE {})

\* The pointer p is returned to the application.
Return(ind, p) ==
    /\ live' = live \union {p}
    /\ requests' = [requests EXCEPT ![ind] = @ + Count(1)]

\* tcache_alloc_small and tcache_alloc_large: a hit.
AllocHit(t, ind) ==
    /\ Op(t) = "idle" /\ ind \in opt.inds /\ MayRequest(ind)
    /\ LET cb == tc[t][ind].bin
       IN  /\ CanAlloc(cb)
           /\ Return(ind, cache_bin_alloc_ret(cb))
           /\ SetBin(t, ind, [cache_bin_alloc(cb) EXCEPT !.nrequests = @ + Count(1)])
    /\ UNCHANGED << opt, ext, bin, large, th >>

\* A miss: a disabled bin goes to the arena; otherwise what is stashed is
\* flushed, and then small bins are filled and one large extent allocated.
AllocMiss(t, ind) ==
    /\ Op(t) = "idle" /\ ind \in opt.inds /\ MayRequest(ind)
    /\ LET cb == tc[t][ind].bin
           r == [Idle EXCEPT !.arena = HomeArena(t)]
       IN  /\ ~CanAlloc(cb)
           /\ Goto(t,
                IF cache_bin_disabled(cb)
                THEN [r EXCEPT !.todo = IF ind = "small"
                                        THEN << <<"arena_malloc", ind>> >>
                                        ELSE << <<"large_malloc", ind>> >>]
                ELSE IF ind = "small"
                THEN [r EXCEPT !.todo = << <<"stashed", ind>>, <<"refill", ind>>,
                                           <<"finish_fill", ind>> >>,
                               !.arr = cache_bin_init_ptr_array_for_fill(cb,
                                           tcache_ncached_target_max(cb.max))]
                ELSE [r EXCEPT !.todo = << <<"stashed", ind>>,
                                           <<"large_malloc", ind>>,
                                           <<"tcache_count", ind>> >>])
    /\ UNCHANGED << ext, bin, large, tc, live, requests >>

\* mallocx with MALLOCX_ARENA and MALLOCX_TCACHE_NONE.
AllocDirect(t, ind, a) ==
    /\ Op(t) = "idle" /\ ind \in opt.inds /\ MayRequest(ind) /\ opt.direct
    /\ Goto(t, [Idle EXCEPT !.arena = a,
                            !.todo = << << IF ind = "small" THEN "arena_malloc"
                                           ELSE "large_malloc", ind >> >>])
    /\ UNCHANGED << ext, bin, large, tc, live, requests >>

\* tcache_dalloc_small and tcache_dalloc_large.  Pointers to the first region
\* of a slab are the aligned ones that a build with use-after-free detection
\* stashes.
Free(t, p) ==
    LET ind == IF p.reg = 0 THEN "large" ELSE "small"
        cb == tc[t][ind].bin
        nretain == tcache_ncached_retain_after_overflow(
                       IF ind = "small" THEN tc[t][ind].nretain ELSE cb.max, cb.max)
        r == [Idle EXCEPT !.ptr = p]
    IN  /\ Op(t) = "idle" /\ p \in live
        /\ live' = live \ {p}
        /\ IF opt.uaf /\ p.reg = 1 /\ ~cache_bin_full(cb)
           THEN SetBin(t, ind, cache_bin_stash(cb, p)) /\ UNCHANGED << opt, th >>
           ELSE IF ~cache_bin_full(cb)
           THEN SetBin(t, ind, cache_bin_dalloc_easy(cb, p)) /\ UNCHANGED << opt, th >>
           ELSE IF cache_bin_disabled(cb)
           THEN /\ Goto(t, [r EXCEPT !.todo = << << IF ind = "small" THEN "arena_dalloc"
                                                    ELSE "large_dalloc", ind >> >>])
                /\ UNCHANGED tc
           ELSE /\ Goto(t, [r EXCEPT !.todo = << <<"stashed", ind>>, <<"bottom", ind>>,
                                                 <<"dalloc", ind>> >>,
                                     !.rem = tcache_ncached_flush_remain(nretain, cb.max)])
                /\ tc' = IF ind = "small" THEN [tc EXCEPT ![t][ind].nretain = nretain] ELSE tc
        /\ UNCHANGED << ext, bin, large, requests >>

\* dallocx with MALLOCX_TCACHE_NONE.
FreeDirect(t, p) ==
    /\ Op(t) = "idle" /\ p \in live /\ opt.direct
    /\ live' = live \ {p}
    /\ Goto(t, [Idle EXCEPT !.ptr = p,
                !.todo = << IF p.reg = 0 THEN <<"large_dalloc", "large">>
                            ELSE <<"arena_dalloc", "small">> >>])
    /\ UNCHANGED << ext, bin, large, tc, requests >>

\* tcache_flush_cache.
Flush(t) ==
    /\ Op(t) = "idle" /\ opt.gc
    /\ Goto(t, [Idle EXCEPT !.todo =
            FlattenSeq(SelectSeq(
                << << <<"stashed", "small">>, <<"bottom", "small">> >>,
                   << <<"stashed", "large">>, <<"bottom", "large">> >> >>,
                LAMBDA s : ~cache_bin_disabled(tc[t][s[1][2]].bin)))])
    /\ UNCHANGED << ext, bin, large, tc, live, requests >>

\* tcache_gc_event, when enough time has passed since the last one.
GcEvent(t) ==
    /\ Op(t) = "idle" /\ opt.gc
    /\ Goto(t, [Idle EXCEPT !.todo =
            FlattenSeq(SelectSeq(
                << << <<"stashed", "small">>, <<"gc_small", "small">>, <<"low_water", "small">> >>,
                   << <<"stashed", "large">>, <<"gc_large", "large">>, <<"low_water", "large">> >> >>,
                LAMBDA s : ~cache_bin_disabled(tc[t][s[1][2]].bin)))])
    /\ UNCHANGED << ext, bin, large, tc, live, requests >>

-----------------------------------------------------------------------------
\* Flushing: tcache_bin_flush_stashed, tcache_bin_flush_bottom and
\* arena_ptr_array_flush.

\* A flush of ptrs begins, in batches of at most opt.batch; the slots that
\* hold the pointers are dead from now on.
BeginFlush(t, ptrs, last) ==
    LET n == AtMost(Len(ptrs), opt.batch)
        cb == Cb(t)
    IN  /\ Goto(t, [Instead(th[t], << <<"flush", Ind(t)>>, <<last, Ind(t)>> >>)
                    EXCEPT !.batch = SubSeq(ptrs, 1, n),
                           !.ptrs = SubSeq(ptrs, n + 1, Len(ptrs)),
                           !.nflush = Len(ptrs), !.stats = cb.nrequests])
        /\ SetBin(t, Ind(t), [cb EXCEPT !.slots = [i \in DOMAIN @ |->
                                  IF @[i] \in Range(ptrs) THEN NoPtr ELSE @[i]]])
        /\ UNCHANGED << ext, bin, large, live, requests >>

FlushStashed(t) ==
    /\ Op(t) = "stashed"
    /\ IF Stashed(Cb(t)) = << >>
       THEN Goto(t, Done(th[t])) /\ UNCHANGED << ext, bin, large, tc, live, requests >>
       ELSE BeginFlush(t, Stashed(Cb(t)), "finish_stashed")

FlushBottom(t) ==
    /\ Op(t) = "bottom"
    /\ LET n == ncached(Cb(t))
       IN  BeginFlush(t, cache_bin_init_ptr_array_for_flush(Cb(t), n - AtMost(th[t].rem, n)),
                      "finish_flush")

Swap(s, i, j) == [s EXCEPT ![i] = s[j], ![j] = s[i]]

\* The pointers whose slab belongs to the same bin as the first one are
\* swapped to the front; n is their number.
Partition(s) ==
    FoldLeft(LAMBDA acc, i : IF Owner(acc.s[i].ext) = Owner(acc.s[1].ext)
                             THEN [s |-> Swap(acc.s, acc.n + 1, i), n |-> acc.n + 1]
                             ELSE acc,
             [s |-> s, n |-> 1], [i \in 1 .. Len(s) - 1 |-> i + 1])

\* arena_ptr_array_flush_impl_small: one bin is locked and flushed.
FlushSmall(t) ==
    /\ Op(t) = "flush" /\ Ind(t) = "small" /\ th[t].batch # << >>
    /\ LET part == Partition(th[t].batch)
           b == Owner(part.s[1].ext)
           k == BinDalloc(Auto(ArenaOf(b)), opt.nregs, bin[b], FreeOf(ext),
                          SubSeq(part.s, 1, part.n))
           merge == th[t].stats # NoStats /\ ArenaOf(b) = HomeArena(t)
       IN  /\ bin' = [bin EXCEPT ![b] =
                        [k.bin EXCEPT !.nrequests = @ + IF merge THEN th[t].stats ELSE 0]]
           /\ ext' = WithFree(k.free)
           /\ Goto(t, [th[t] EXCEPT !.batch = SubSeq(part.s, part.n + 1, Len(part.s)),
                                    !.dallocs = @ \o k.empty,
                                    !.stats = IF merge THEN NoStats ELSE @])
    /\ UNCHANGED << large, tc, live, requests >>

\* large_dalloc_prep: the extents leave the list and the counts of their arena.
LargePrep(a, es) ==
    [large EXCEPT ![a].list = @ \ es, ![a].cur = @ - Cardinality(es)]

\* arena_ptr_array_flush_impl_large: under the large_mtx of the first pointer's
\* arena, all pointers of that arena are prepared.
FlushLarge(t) ==
    /\ Op(t) = "flush" /\ Ind(t) = "large"
    /\ th[t].batch # << >> /\ th[t].dallocs = << >>
    /\ LET a == ArenaOf(Owner(th[t].batch[1].ext))
           here == SelectSeq(th[t].batch, LAMBDA p : ArenaOf(Owner(p.ext)) = a)
           merge == th[t].stats # NoStats /\ a = HomeArena(t)
           es == {p.ext : p \in Range(here)}
       IN  /\ large' = [LargePrep(a, es) EXCEPT ![a].nrequests =
                            @ + IF merge THEN th[t].stats ELSE 0]
           /\ Goto(t, [th[t] EXCEPT
                  !.batch = SelectSeq(@, LAMBDA p : ArenaOf(Owner(p.ext)) # a),
                  !.dallocs = [i \in 1 .. Len(here) |-> here[i].ext],
                  !.stats = IF merge THEN NoStats ELSE @])
    /\ UNCHANGED << ext, bin, tc, live, requests >>

\* arena_slab_dalloc or large_dalloc_finish: pa_dalloc of one extent.  Slabs
\* wait for the end of their batch, large extents only for their arena's turn.
ExtentDalloc(t) ==
    /\ Op(t) \in {"flush", "slab_dalloc", "large_finish"}
    /\ th[t].dallocs # << >>
    /\ Op(t) = "flush" /\ Ind(t) = "small" => th[t].batch = << >>
    /\ ext' = [ext EXCEPT ![Head(th[t].dallocs)] = InPool]
    /\ Goto(t, IF Op(t) # "flush" /\ Len(th[t].dallocs) = 1
               THEN Done([th[t] EXCEPT !.dallocs = << >>])
               ELSE [th[t] EXCEPT !.dallocs = Tail(@)])
    /\ UNCHANGED << bin, large, tc, live, requests >>

\* The end of a batch: the statistics are merged into the thread's own arena
\* unless that was done on the way, and the next batch begins.
FlushBatchDone(t) ==
    /\ Op(t) = "flush" /\ th[t].batch = << >> /\ th[t].dallocs = << >>
    /\ LET n == AtMost(Len(th[t].ptrs), opt.batch)
           stats == IF th[t].stats = NoStats THEN 0 ELSE th[t].stats
           b == bin_choose(t, HomeArena(t))
           r == [th[t] EXCEPT !.stats = NoStats, !.batch = SubSeq(th[t].ptrs, 1, n),
                              !.ptrs = SubSeq(@, n + 1, Len(@))]
       IN  /\ IF Ind(t) = "small"
              THEN bin' = [bin EXCEPT ![b].nrequests = @ + stats] /\ UNCHANGED large
              ELSE large' = [large EXCEPT ![HomeArena(t)].nrequests = @ + stats]
                   /\ UNCHANGED bin
           /\ Goto(t, IF n = 0 THEN Done(r) ELSE r)
    /\ UNCHANGED << ext, tc, live, requests >>

FinishStashed(t) ==
    /\ Op(t) = "finish_stashed"
    /\ SetBin(t, Ind(t), cache_bin_finish_flush_stashed(Cb(t)))
    /\ Goto(t, Done(th[t]))
    /\ UNCHANGED << ext, bin, large, live, requests >>

FinishFlush(t) ==
    /\ Op(t) = "finish_flush"
    /\ SetBin(t, Ind(t), cache_bin_finish_flush(Cb(t), th[t].nflush))
    /\ Goto(t, Done(th[t]))
    /\ UNCHANGED << ext, bin, large, live, requests >>

\* The deallocation that found the bin full; the assertion says there is room.
DallocAfterFlush(t) ==
    /\ Op(t) = "dalloc"
    /\ SetBin(t, Ind(t), IF cache_bin_full(Cb(t)) THEN Cb(t)
                         ELSE cache_bin_dalloc_easy(Cb(t), th[t].ptr))
    /\ Goto(t, Done(th[t]))
    /\ UNCHANGED << ext, bin, large, live, requests >>

-----------------------------------------------------------------------------
\* Filling: tcache_alloc_small_hard and arena_ptr_array_fill_small.

\* One iteration of the loop that runs under the bin lock; k is its state.
FillIteration(auto, nmin, nmax, k) ==
    LET cur == k.bin.cur
        nfree == Cardinality(k.free[cur])
        cnt == IF nfree + k.filled > nmax THEN nmin - k.filled ELSE nfree
        \* A complete first batch is placed at its final position.
        place == nfree + k.filled > nmax /\ nmin < nmax /\ k.filled = 0
        arr == IF place THEN [ptr |-> k.arr.ptr + nmax - cnt, n |-> cnt] ELSE k.arr
        got == bin_slab_reg_alloc_batch(k, cnt)
        first == arr.ptr + k.filled
        b == bin_refill_slabcur_no_fresh_slab(auto, k.bin)
    IN  IF k.done \/ k.filled >= nmin THEN [k EXCEPT !.done = TRUE]
        ELSE IF cur # NULL /\ k.free[cur] # {}
        THEN [k EXCEPT !.free = got.free, !.arr = arr, !.filled = @ + cnt,
                       !.progress = TRUE,
                       !.slots = [i \in DOMAIN @ |->
                           IF i \in first .. first + cnt - 1
                           THEN got.ptrs[i - first + 1] ELSE @[i]]]
        ELSE IF b.cur # NULL THEN [k EXCEPT !.bin = b]
        ELSE IF k.fresh # NULL
        THEN [k EXCEPT !.bin = bin_refill_slabcur_with_fresh_slab(b, k.fresh),
                       !.fresh = NULL]
        ELSE [k EXCEPT !.bin = b, !.done = TRUE, !.retry = k.progress]

\* Enough iterations: two for every slab that the loop can come to use.
FillLoop(auto, nmin, nmax, k) ==
    LET it[i \in 0 .. 2 * NExtents + 2] ==
            IF i = 0 THEN k ELSE FillIteration(auto, nmin, nmax, it[i - 1])
    IN  it[2 * NExtents + 2]

Refill(t) ==
    /\ Op(t) = "refill"
    /\ LET b == bin_choose(t, th[t].arena)
           cb == Cb(t)
           k == FillLoop(Auto(th[t].arena), tc[t].small.nfill,
                         tcache_ncached_target_max(cb.max),
                         [bin |-> bin[b], free |-> FreeOf(ext), slots |-> cb.slots,
                          arr |-> th[t].arr, filled |-> th[t].filled,
                          fresh |-> th[t].fresh, progress |-> th[t].progress,
                          done |-> FALSE, retry |-> FALSE])
           r == [th[t] EXCEPT !.arr = k.arr, !.filled = k.filled,
                              !.fresh = k.fresh, !.progress = k.progress]
       IN  /\ bin' = [bin EXCEPT ![b] = IF k.retry THEN k.bin ELSE
                        [k.bin EXCEPT !.curregs = @ + k.filled,
                                      !.nrequests = @ + cb.nrequests]]
           /\ ext' = WithFree(k.free)
           /\ SetBin(t, "small", [cb EXCEPT !.slots = k.slots])
           /\ Goto(t, IF k.retry
                      THEN [r EXCEPT !.todo = << <<"slab_alloc", "small">> >> \o @]
                      ELSE IF k.fresh # NULL
                      THEN Instead(r, << <<"release", "small">> >>)
                      ELSE Done(r))
    /\ UNCHANGED << large, live, requests >>

SlabAllocated_progress(r, e) == Done([r EXCEPT !.fresh = e])

\* A slab was looked for; the bin gets no second chance without progress.
SlabAllocated(r, e) == Done([r EXCEPT !.fresh = e, !.progress = FALSE])

\* arena_slab_alloc, without the bin lock.
SlabAlloc(t, e) ==
    /\ Op(t) = "slab_alloc" /\ e \in pa_alloc
    /\ ext' = IF e = NULL THEN ext
              ELSE [ext EXCEPT ![e] = [use |-> "slab", free |-> Regs,
                                       owner |-> bin_choose(t, th[t].arena)]]
    /\ Goto(t, SlabAllocated(th[t], e))
    /\ UNCHANGED << bin, large, tc, live, requests >>

\* The slab was allocated in vain: others freed regions in the meantime.
Release(t) ==
    /\ Op(t) = "release"
    /\ ext' = [ext EXCEPT ![th[t].fresh] = InPool]
    /\ Goto(t, Done([th[t] EXCEPT !.fresh = NULL]))
    /\ UNCHANGED << bin, large, tc, live, requests >>

FinishFill(t) ==
    /\ Op(t) = "finish_fill"
    /\ LET c == tc[t].small
           cb == cache_bin_finish_fill(c.bin, th[t].arr, th[t].filled)
           s == [c EXCEPT
                   !.nretain = tcache_ncached_retain_after_refill(@, th[t].filled, cb.max),
                   !.nfill = tcache_ncached_fill_after_refill(@, cb.max)]
       IN  IF CanAlloc(cb)
           THEN /\ Return("small", cache_bin_alloc_ret(cb))
                /\ tc' = [tc EXCEPT ![t].small = [s EXCEPT !.bin =
                            [cache_bin_alloc(cb) EXCEPT !.nrequests = @ + Count(1)]]]
           ELSE tc' = [tc EXCEPT ![t].small = [s EXCEPT !.bin = cb]]
                /\ UNCHANGED << live, requests >>
    /\ Goto(t, Done(th[t]))
    /\ UNCHANGED << ext, bin, large >>

-----------------------------------------------------------------------------
\* The arena's own paths.

\* arena_malloc_small: one attempt under the bin lock.
ArenaMalloc(t) ==
    /\ Op(t) = "arena_malloc"
    /\ LET a == th[t].arena
           b == bin_choose(t, a)
           old == bin_malloc_no_fresh_slab(Auto(a), bin[b], FreeOf(ext))
           usable == old.cur # NULL
           new == IF usable THEN old
                  ELSE bin_refill_slabcur_with_fresh_slab(old, th[t].fresh)
           got == bin_slab_reg_alloc_batch([bin |-> new, free |-> FreeOf(ext)], 1)
       IN  IF usable \/ th[t].fresh # NULL
           THEN /\ bin' = [bin EXCEPT ![b] = [new EXCEPT !.curregs = @ + 1,
                                                         !.nrequests = @ + Count(1)]]
                /\ ext' = WithFree(got.free)
                /\ Return("small", got.ptrs[1])
                /\ Goto(t, IF usable /\ th[t].fresh # NULL
                           THEN Instead(th[t], << <<"release", "small">> >>)
                           ELSE Done(th[t]))
           ELSE /\ bin' = [bin EXCEPT ![b] = old]
                /\ Goto(t, IF th[t].progress
                           THEN [th[t] EXCEPT !.todo = << <<"slab_alloc", "small">> >> \o @]
                           ELSE Done(th[t]))
                /\ UNCHANGED << ext, live, requests >>
    /\ UNCHANGED << large, tc >>

\* arena_dalloc_small.
ArenaDalloc(t) ==
    /\ Op(t) = "arena_dalloc"
    /\ LET b == Owner(th[t].ptr.ext)
           k == BinDalloc(Auto(ArenaOf(b)), opt.nregs, bin[b], FreeOf(ext), << th[t].ptr >>)
       IN  /\ bin' = [bin EXCEPT ![b] = k.bin]
           /\ ext' = WithFree(k.free)
           /\ Goto(t, IF k.empty = << >> THEN Done(th[t])
                      ELSE [Instead(th[t], << <<"slab_dalloc", "small">> >>)
                            EXCEPT !.dallocs = k.empty, !.ptr = NoPtr])
    /\ UNCHANGED << large, tc, live, requests >>

\* large_palloc: arena_extent_alloc_large, and then the list of the arena.
LargeMalloc(t, e) ==
    /\ Op(t) = "large_malloc" /\ e \in pa_alloc
    /\ IF e = NULL
       THEN Goto(t, [th[t] EXCEPT !.todo = << >>]) /\ UNCHANGED << ext, large >>
       ELSE /\ ext' = [ext EXCEPT ![e] = [use |-> "large", free |-> {},
                                          owner |-> << th[t].arena, 0 >>]]
            /\ large' = [large EXCEPT ![th[t].arena].cur = @ + 1]
            /\ Goto(t, [Instead(th[t], << <<"large_insert", "large">> >>)
                        EXCEPT !.fresh = e])
    /\ UNCHANGED << bin, tc, live, requests >>

LargeInsert(t) ==
    /\ Op(t) = "large_insert"
    /\ large' = IF Auto(th[t].arena) THEN large
                ELSE [large EXCEPT ![th[t].arena].list = @ \union {th[t].fresh}]
    /\ live' = live \union {Ptr(th[t].fresh, 0)}
    /\ Goto(t, Done([th[t] EXCEPT !.fresh = NULL]))
    /\ UNCHANGED << ext, bin, tc, requests >>

\* The last lines of tcache_alloc_large.
TcacheCount(t) ==
    /\ Op(t) = "tcache_count"
    /\ SetBin(t, "large", [Cb(t) EXCEPT !.nrequests = @ + Count(1)])
    /\ requests' = [requests EXCEPT !["large"] = @ + Count(1)]
    /\ Goto(t, Done(th[t]))
    /\ UNCHANGED << ext, bin, large, live >>

LargeDalloc(t) ==
    /\ Op(t) = "large_dalloc"
    /\ large' = LargePrep(ArenaOf(Owner(th[t].ptr.ext)), {th[t].ptr.ext})
    /\ Goto(t, [Instead(th[t], << <<"large_finish", "large">> >>)
                EXCEPT !.dallocs = << th[t].ptr.ext >>, !.ptr = NoPtr])
    /\ UNCHANGED << ext, bin, tc, live, requests >>

-----------------------------------------------------------------------------
\* Garbage collection of a tcache.

\* Is p outside of min .. max - 1?
tcache_gc_is_addr_remote(p, r) == p.ext < r.min \/ p.ext >= r.max

Remote(cb, r) == SelectSeq(Cached(cb), LAMBDA p : tcache_gc_is_addr_remote(p, r))
Local(cb, r) == SelectSeq(Cached(cb), LAMBDA p : ~tcache_gc_is_addr_remote(p, r))

\* The addresses that count as local: the neighbourhood of the slab at addr if
\* that leaves enough to flush, and otherwise the slab itself.
tcache_gc_small_nremote_get(cb, addr, nflush) ==
    LET neighbor == [min |-> AtLeast(addr - opt.near, 0), max |-> addr + opt.near]
    IN  IF Len(Remote(cb, neighbor)) >= nflush THEN neighbor
        ELSE [min |-> addr, max |-> addr + 1]

\* Local pointers move to the top of the stack, remote ones to the bottom.
tcache_gc_small_bin_shuffle(cb, r) ==
    LET s == Local(cb, r) \o Remote(cb, r)
    IN  [cb EXCEPT !.slots = [i \in DOMAIN @ |->
            IF i >= cb.head THEN s[i - cb.head + 1] ELSE @[i]]]

GcFlush(r, nflush, n) ==
    IF nflush = 0 THEN Done(r)
    ELSE [Instead(r, << <<"stashed", Head(r.todo)[2]>>, <<"bottom", Head(r.todo)[2]>> >>)
          EXCEPT !.rem = n - nflush]

GcSmall(t) ==
    /\ Op(t) = "gc_small"
    /\ LET c == tc[t].small
           n == ncached(c.bin)
           low == cache_bin_low_water_get(c.bin)
           nretain == tcache_ncached_retain_after_gc(n, low, c.bin.max)
           s == IF low = 0 THEN c
                ELSE [c EXCEPT !.nretain = nretain,
                               !.nfill = tcache_ncached_fill_after_underuse(@, c.bin.max)]
           nflush == IF low = 0 THEN 0 ELSE AtLeast(n - nretain, 0)
           addr == bin_current_slab_addr(bin[bin_choose(t, HomeArena(t))])
           near == tcache_gc_small_nremote_get(c.bin, addr, nflush)
           nremote == Len(Remote(c.bin, near))
       IN  IF nflush = n \/ addr = NULL
           THEN /\ tc' = [tc EXCEPT ![t].small = s]
                /\ Goto(t, GcFlush(th[t], nflush, n))
           ELSE /\ tc' = [tc EXCEPT ![t].small = [s EXCEPT !.bin =
                            IF nremote \in {0, n} THEN @
                            ELSE tcache_gc_small_bin_shuffle(@, near)]]
                /\ Goto(t, GcFlush(th[t], AtLeast(nflush, nremote), n))
    /\ UNCHANGED << ext, bin, large, live, requests >>

GcLarge(t) ==
    /\ Op(t) = "gc_large"
    /\ LET cb == tc[t].large.bin
           n == ncached(cb)
           low == cache_bin_low_water_get(cb)
           nretain == tcache_ncached_retain_after_gc(n, low, cb.max)
       IN  Goto(t, GcFlush(th[t], IF low = 0 THEN 0 ELSE AtLeast(n - nretain, 0), n))
    /\ UNCHANGED << ext, bin, large, tc, live, requests >>

GcLowWater(t) ==
    /\ Op(t) = "low_water"
    /\ SetBin(t, Ind(t), cache_bin_low_water_set(Cb(t)))
    /\ Goto(t, Done(th[t]))
    /\ UNCHANGED << ext, bin, large, live, requests >>

-----------------------------------------------------------------------------

\* The pointers that tcaches hold, and the extents they point into.
InTcaches ==
    UNION { Range(tc[t][i].bin.slots) : t \in Threads, i \in Inds } \ {NoPtr}

arena_bin_reset(b) ==
    [b EXCEPT !.cur = NULL, !.nonfull = {}, !.full = {}, !.curregs = 0, !.curslabs = 0]

\* arena_reset.  The caller guarantees that nobody operates on the arena and
\* that no tcache holds its pointers; the application's pointers become void.
\* opt.reset bounds a counter that a reset leaves as it is.
Reset(a) ==
    /\ ~Auto(a) /\ \A b \in Bins : bin[b].nonfull_slabs < opt.reset
    /\ \A t \in Threads : Op(t) = "idle"
    /\ \A p \in InTcaches : ArenaOf(Owner(p.ext)) # a
    /\ LET mine == {b \in Bins : ArenaOf(b) = a}
           gone == large[a].list \union
                   UNION { ({bin[b].cur} \ {NULL}) \union bin[b].nonfull \union bin[b].full
                           : b \in mine }
       IN  /\ ext' = [e \in Extents |-> IF e \in gone THEN InPool ELSE ext[e]]
           /\ bin' = [b \in Bins |-> IF b \in mine THEN arena_bin_reset(bin[b]) ELSE bin[b]]
           /\ large' = LargePrep(a, large[a].list)
           /\ live' = {p \in live : ArenaOf(Owner(p.ext)) # a}
    /\ UNCHANGED << opt, tc, requests, th >>

Step(t) ==
    \/ FlushStashed(t) \/ FlushBottom(t) \/ FlushSmall(t) \/ FlushLarge(t)
    \/ ExtentDalloc(t) \/ FlushBatchDone(t) \/ FinishStashed(t) \/ FinishFlush(t)
    \/ DallocAfterFlush(t) \/ Refill(t) \/ Release(t) \/ FinishFill(t)
    \/ \E e \in Extents \union {NULL} : SlabAlloc(t, e) \/ LargeMalloc(t, e)
    \/ ArenaMalloc(t) \/ ArenaDalloc(t) \/ LargeInsert(t) \/ TcacheCount(t)
    \/ LargeDalloc(t) \/ GcSmall(t) \/ GcLarge(t) \/ GcLowWater(t)

Call(t) ==
    \/ \E i \in Inds : AllocHit(t, i) \/ AllocMiss(t, i)
                       \/ \E a \in Arenas : AllocDirect(t, i, a)
    \/ \E p \in live : Free(t, p) \/ FreeDirect(t, p)
    \/ Flush(t) \/ GcEvent(t)

Next ==
    \/ \E t \in opt.threads : Call(t) \/ Step(t)
    \/ \E a \in Arenas : Reset(a)

Spec == Init /\ [][Next]_vars

\* A call that was begun goes on: nothing in it waits for another thread but
\* the short critical sections, which are steps here.
\* (Weak fairness of Step(t), which is enabled while the call is running.)
FairSpec ==
    Spec /\ \A t \in Threads : []<>(Op(t) = "idle") \/ []<><< Step(t) >>_vars

-----------------------------------------------------------------------------

\* What thread t owns: the slots of its tcache that are in use, and the
\* pointers and the large extents that its call is moving.
SlotPtrs(cb) ==
    SelectSeq([i \in 1 .. Cap(cb) |-> cb.slots[i - 1]], LAMBDA p : p # NoPtr)
InHand(t) == SelectSeq(th[t].dallocs \o << th[t].fresh >>, LAMBDA e : e # NULL)
HeldBy(t) ==
    LET extents == SelectSeq(InHand(t), LAMBDA e : ext[e].use = "large")
    IN  SlotPtrs(tc[t].small.bin) \o SlotPtrs(tc[t].large.bin)
        \o th[t].batch \o th[t].ptrs
        \o SelectSeq(<< th[t].ptr >>, LAMBDA p : p # NoPtr)
        \o [i \in 1 .. Len(extents) |-> Ptr(extents[i], 0)]

\* The sequences F(t) of all threads together hold nothing twice.
Distinct(F(_)) ==
    \A t \in Threads :
        /\ IsInjective(F(t))
        /\ \A u \in Threads \ {t} : Range(F(t)) \intersect Range(F(u)) = {}
Held == UNION {Range(HeldBy(t)) : t \in Threads}
InHands == UNION {Range(InHand(t)) : t \in Threads}

Slabs == {e \in Extents : ext[e].use = "slab"}
LargeExtents == {e \in Extents : ext[e].use = "large"}
Allocated ==
    UNION { {Ptr(e, r) : r \in Regs \ ext[e].free} : e \in Slabs }
    \union {Ptr(e, 0) : e \in LargeExtents}

\* Every region that a bitmap marks as allocated, and every large extent, is
\* either the application's or in exactly one place of exactly one tcache or
\* call; nothing that is free is held anywhere.  Fills, flushes, swaps and
\* garbage collection neither lose nor duplicate a pointer, whatever other
\* threads do to the same bins in between.
RegionOneOwner ==
    /\ Distinct(HeldBy)
    /\ Held \intersect live = {}
    /\ Held \union live = Allocated

\* A slab is where its bitmap says: a full one is the current slab of its bin
\* or, in a manual arena, on the full list; a nonfull one is current or in the
\* heap; an empty one is current or in the hands of one thread that returns
\* it or brings it.  The current slab is older than all those in the heap.
\* The list of large extents of a manual arena is exact, too.
SlabsPlaced ==
    /\ Distinct(InHand)
    /\ \A b \in Bins :
        LET mine == {e \in Slabs \ InHands : Owner(e) = b}
            others == mine \ {bin[b].cur}
            full == {e \in others : ext[e].free = {}}
        IN  /\ bin[b].cur \in mine \union {NULL}
            /\ bin[b].full = IF Auto(ArenaOf(b)) THEN {} ELSE full
            /\ bin[b].nonfull = others \ full
            /\ bin[b].cur # NULL => \A e \in bin[b].nonfull : bin[b].cur < e
            /\ \A e \in others : ext[e].free # Regs
    /\ \A e \in Slabs \intersect InHands : ext[e].free = Regs
    /\ \A a \in Arenas :
        LET mine == {e \in LargeExtents \ InHands : ArenaOf(Owner(e)) = a}
        IN  large[a].list = IF Auto(a) THEN {} ELSE mine

\* The regions that a fill has taken and not yet counted in its bin.
Uncounted(t, b) ==
    IF Op(t) \in {"refill", "slab_alloc"} /\ bin_choose(t, th[t].arena) = b
    THEN th[t].filled ELSE 0

\* The statistics of a bin are exact whenever its lock is free: regions in
\* use and slabs, up to the regions of fills that dropped the lock to allocate
\* a slab; so is the number of large extents.  The requests that arenas and
\* tcaches have counted add up to the requests served: merging on a flush or a
\* fill loses and repeats none.
BinStatsExact ==
    /\ \A b \in Bins :
        LET mine == {e \in Slabs : Owner(e) = b}
        IN  /\ bin[b].curslabs = Cardinality(mine \ InHands)
            /\ bin[b].curregs = MapThenSumSet(LAMBDA e : Cardinality(Regs \ ext[e].free), mine)
                                - MapThenSumSet(LAMBDA t : Uncounted(t, b), Threads)
    /\ \A a \in Arenas :
        LET leaving == UNION {Range(th[t].dallocs) : t \in Threads}
        IN  large[a].cur = Cardinality({e \in LargeExtents \ leaving : ArenaOf(Owner(e)) = a})
    /\ (\A t \in Threads : Op(t) = "idle") =>
        /\ requests["small"] =
              MapThenSumSet(LAMBDA b : bin[b].nrequests, Bins)
              + MapThenSumSet(LAMBDA t : tc[t].small.bin.nrequests, Threads)
        /\ requests["large"] =
              MapThenSumSet(LAMBDA a : large[a].nrequests, Arenas)
              + MapThenSumSet(LAMBDA t : tc[t].large.bin.nrequests, Threads)

\* A cache bin never holds more than its maximum, the low water mark is never
\* above the present fill, the positions that are kept as low bits only denote
\* slots of the stack in their order, and a full bin has room again after the
\* flush that its overflow caused.  The adaptive targets stay in the range
\* that the next fill or flush needs.
CacheBinSound ==
    \A t \in Threads : \A i \in Inds :
        LET c == tc[t][i]
            cb == c.bin
        IN  IF cache_bin_disabled(cb) THEN ~CanAlloc(cb) /\ cache_bin_full(cb)
            ELSE /\ ncached(cb) = cb.max - cb.head
                 /\ ncached(cb) + nstashed(cb) <= cb.max
                 /\ cache_bin_low_water_get(cb) <= ncached(cb)
                 /\ cache_bin_low_bound_get(cb) = 0
                 /\ c.nretain \in 1 .. cb.max
                 /\ c.nfill \in 1 .. tcache_ncached_target_max(cb.max)
                 /\ Op(t) = "dalloc" /\ Ind(t) = i => ~cache_bin_full(cb)

\* The number of slabs that the statistics call nonfull is the size of the
\* heap.
NonfullSlabsExact == \A b \in Bins : bin[b].nonfull_slabs = Cardinality(bin[b].nonfull)

\* Every call returns: no fill, flush or retry goes on forever, also when the
\* page allocator keeps failing.
CallsReturn == \A t \in Threads : Op(t) # "idle" ~> Op(t) = "idle"
=============================================================================
