-------------------------------- MODULE Pac ---------------------------------
(***************************************************************************)
(* The page allocator classic: pac.c over extent.c, ecache.c and emap.c.   *)
(*                                                                         *)
(* Extents move between the application and four ecaches (dirty, muzzy,    *)
(* retained, pinned), each under a mutex of its own.  The locks are state  *)
(* based: a mutex protects the extents of one state, while coalescing has  *)
(* to look at neighbours of any state, through the leaves of the emap.     *)
(*                                                                         *)
(* Every thread has a program counter and registers (th), and a queue of   *)
(* leaf writes (wq) that it performs one at a time, in program order,      *)
(* before its next step.                                                   *)
(***************************************************************************)
EXTENDS Emap, FiniteSets, FiniteSetsExt, SequencesExt

CONSTANTS
    Threads,
    MaxFit,         \* 2^opt_lg_extent_max_active_fit
    LargeMin,       \* SC_LARGE_MINCLASS, in pages
    Options         \* the configurations to consider: a set of Option records

HookChoices == {"merge_fails", "purge_lazy_fails", "purge_forced_fails",
                "commit_fails", "alloc_fails", "dalloc_fails", "decommits",
                "pins"}

\* A configuration: what is fixed at boot (opt_retain, whether muzzy_decay_ms
\* is not 0, sz_large_size_classes_disabled(), pac->oversize_threshold and the
\* exp_grow series, in pages), what the extent hooks may do, and the bounds on
\* the environment: the pages and descriptors there are, the sizes, alignments
\* and zero flags of requests, and the npages_limit values of a decay pass.
Option == [retain : BOOLEAN, muzzy : BOOLEAN, batched : BOOLEAN,
           oversize : Nat \ {0}, growInit : Nat \ {0}, growLimit : Nat \ {0},
           hooks : SUBSET HookChoices,
           pages : Pages, edatas : Nat,
           sizes : SUBSET Pages, aligns : SUBSET Pages, zeros : SUBSET BOOLEAN,
           limits : SUBSET (0 .. NPages)]

ASSUME PacAssumption ==
    /\ {MaxFit, LargeMin} \subseteq Nat \ {0}
    /\ \A o \in Options : o \in Option

VARIABLES
    opt,        \* the configuration
    edata,      \* descriptor of every edata_t in use
    emap,       \* the leaf of every page
    eset,       \* per ecache: its extents, least recently used first
    avail,      \* pac->edata_cache
    mtx,        \* per ecache: the holder of its mutex, or NULL
    growMtx,    \* the holder of pac->grow_mtx, or NULL
    expNext,    \* exp_grow.next
    purging,    \* per decaying ecache: decay->purging
    live,       \* extents handed out to the caller of the pac
    th, wq,     \* per thread: registers, pending leaf writes
    mapped,     \* pages mapped by the alloc hook (ghost)
    junk,       \* pages that may hold non-zero bytes (ghost)
    stats       \* [pac_mapped, curpages, abandoned_vm], in pages

vars == << opt, edata, emap, eset, avail, mtx, growMtx, expNext, purging, live,
           th, wq, mapped, junk, stats >>

Nobody == NULL

\* Registers: pc; k, where to return to; e, the extent at hand; n, its
\* neighbour; o, the caller's extent that is being resized; keep, the extent
\* that an allocation will return; ec, the ecache; the request (size, want,
\* align, zero); todo, extents still to record; the loop variables of
\* extent_try_coalesce_impl (max, again, fwd) and of pac_stash_decayed (lim,
\* nmax, nst); from, the ecache that is decayed; muzzy, try_muzzy; map and
\* unmap, pages to add to and subtract from pac_mapped on return.
Idle == [pc |-> "idle", k |-> "idle", e |-> NULL, n |-> NULL, o |-> NULL,
         keep |-> NULL, ec |-> "dirty", size |-> 0, want |-> 0, align |-> 1,
         zero |-> FALSE, from |-> "dirty", todo |-> << >>, max |-> 0,
         again |-> FALSE, fwd |-> TRUE, lim |-> 0, nmax |-> 0, nst |-> 0, muzzy |-> FALSE,
         map |-> 0, unmap |-> 0]

Init ==
    /\ opt \in Options
    /\ edata = [e \in Edatas |->
                  [base |-> 1, size |-> 1, state |-> "active", head |-> FALSE,
                   pinned |-> FALSE, zeroed |-> FALSE, committed |-> TRUE]]
    /\ emap = [p \in Pages |-> NoLeaf]
    /\ eset = [c \in Ecaches |-> << >>]
    /\ avail \in kSubset(opt.edatas, Edatas)
    /\ mtx = [c \in Ecaches |-> Nobody]
    /\ growMtx = Nobody
    /\ expNext = opt.growInit
    /\ purging = [c \in {"dirty", "muzzy"} |-> FALSE]
    /\ live = {}
    /\ th = [t \in Threads |-> Idle]
    /\ wq = [t \in Threads |-> << >>]
    /\ mapped = {}
    /\ junk = {}
    /\ stats = [pac_mapped |-> 0, curpages |-> 0, abandoned_vm |-> 0]

-----------------------------------------------------------------------------
(* Helpers *)

May(choice) == IF choice \in opt.hooks THEN BOOLEAN ELSE {FALSE}

At(t, p) == th[t].pc = p /\ wq[t] = << >>

Goto(t, r) == th' = [th EXCEPT ![t] = r] /\ UNCHANGED opt
Emit(t, w) == wq' = [wq EXCEPT ![t] = w]

delay_coalesce(c) == c \in {"dirty", "pinned"}

eset_npages(c) == MapThenSumSet(LAMBDA e : edata[e].size, ToSet(eset[c]))

eset_remove_forgotten(s, e) == s

eset_remove(s, e) == SelectSeq(s, LAMBDA x : x # e)
eset_insert(s, e) == Append(s, e)

NonNull(s) == SelectSeq(s, LAMBDA x : x # NULL)

\* prof's count of the pages that are not retained.
extent_gdump_add(n) == [stats EXCEPT !.curpages = @ + n]
extent_gdump_sub(n) == [stats EXCEPT !.curpages = @ - n]

\* extent_commit_zero's effect on the pages of an extent.
extent_zero(zero, d) == IF zero /\ ~d.zeroed THEN junk \ PagesOf(d) ELSE junk

DallocCache_dirty(d) == "dirty"

\* pac_ecache_dalloc's and pac_record_grown's choice of an ecache.
DallocCache(d) == IF d.pinned THEN "pinned" ELSE "dirty"
GrownCache(d) == IF d.pinned THEN "pinned" ELSE "retained"

LeadSize(base, align) == (align - (base % align)) % align

\* The extents of an ecache that eset_fit may return.
Fits(c, size, align) ==
    {e \in ToSet(eset[c]) :
        /\ LeadSize(edata[e].base, align) + size <= edata[e].size
        /\ c = "dirty" => edata[e].size \div MaxFit <= size}

\* pac_alloc_retained_batched_size: here, the next even number of pages.
BatchedSize(n) == IF opt.batched THEN n + (n % 2) ELSE n

\* extent_split_interior.  The set of its possible results: the descriptor to
\* take from the edata_cache is arbitrary, and when there is none the split
\* fails with the extent to leak and the one that could be salvaged.
Cut(x, e, f, n) ==
    LET d == x.edata[e] IN
    [x EXCEPT !.edata = [@ EXCEPT ![e] = SplitLead(d, n), ![f] = SplitTrail(d, n)],
              !.avail = @ \ {f},
              !.writes = @ \o emap_split_commit(e, SplitLead(d, n),
                                                f, SplitTrail(d, n))]

extent_split_interior(e, size, align) ==
    LET lead == LeadSize(edata[e].base, align)
        trail == edata[e].size - lead - size
        whole == [edata |-> edata, avail |-> avail, writes |-> << >>,
                  lead |-> NULL, mid |-> e, trail |-> NULL,
                  leak |-> NULL, salvage |-> NULL]
        first == IF lead = 0 THEN {whole}
                 ELSE {[Cut(whole, e, f, lead) EXCEPT !.lead = e, !.mid = f] :
                         f \in avail}
        second(x) ==
            IF trail = 0 THEN {x}
            ELSE IF x.avail = {}
            THEN {[x EXCEPT !.leak = x.mid, !.salvage = x.lead, !.mid = NULL]}
            ELSE {[Cut(x, x.mid, g, size) EXCEPT !.trail = g] : g \in x.avail}
    IN IF first = {} THEN {[whole EXCEPT !.leak = e, !.mid = NULL]}
       ELSE UNION {second(x) : x \in first}

SizeOf(e) == IF e = NULL THEN 0 ELSE edata'[e].size

-----------------------------------------------------------------------------
(* Allocation: pac_alloc, ecache_alloc, extent_recycle *)

\* One write of a thread's pending leaf writes.
LeafWrite(t) ==
    /\ wq[t] # << >>
    /\ emap' = [emap EXCEPT ![Head(wq[t]).page] = Head(wq[t]).leaf]
    /\ Emit(t, Tail(wq[t]))
    /\ UNCHANGED << opt, edata, eset, avail, mtx, growMtx, expNext, purging,
                    live, th, mapped, junk, stats >>

\* The pinned ecache is tried first when it is seen not to be empty.
pac_alloc(t) ==
    /\ At(t, "idle")
    /\ \E n \in opt.sizes, a \in opt.aligns, z \in opt.zeros,
          c \in {"dirty"} \union {x \in {"pinned"} : eset[x] # << >>} :
         Goto(t, [Idle EXCEPT !.pc = "recycle", !.k = "alloc", !.ec = c,
                              !.size = n, !.want = n, !.align = a, !.zero = z])
    /\ UNCHANGED << edata, emap, eset, avail, mtx, growMtx, expNext, purging,
                    live, wq, mapped, junk, stats >>

\* Where a thread goes when ecache r.ec could not serve request r: the next
\* ecache, growing (which keeps grow_mtx), mapping, or failure.
Growing(r) == r.ec = "retained" /\ r.o = NULL /\ opt.retain

Miss(r) ==
    CASE r.ec = "pinned" /\ r.o # NULL -> Idle
      [] r.ec = "pinned" /\ r.o = NULL ->
            [r EXCEPT !.pc = "recycle", !.ec = "dirty"]
      [] r.ec = "dirty" /\ (opt.muzzy \/ r.o # NULL) ->
            [r EXCEPT !.pc = "recycle", !.ec = "muzzy"]
      [] r.ec = "dirty" /\ ~opt.muzzy /\ r.o = NULL ->
            [r EXCEPT !.pc = "growlock", !.size = BatchedSize(r.want)]
      [] r.ec = "muzzy" ->
            [r EXCEPT !.pc = "growlock",
                      !.size = IF r.o = NULL THEN BatchedSize(r.want) ELSE @]
      [] Growing(r) -> [r EXCEPT !.pc = "grow"]
      [] r.ec = "retained" /\ ~Growing(r) ->
            IF opt.retain THEN Idle ELSE [r EXCEPT !.pc = "mmap"]

\* Everything a miss changes: a failed resize gives the extent back.
MissStep(t, r) ==
    /\ Goto(t, Miss(r))
    /\ growMtx' = IF growMtx = t /\ ~Growing(r) THEN Nobody ELSE growMtx
    /\ live' = IF Miss(r) = Idle THEN live \union ({r.o} \ {NULL}) ELSE live

\* extent_alloc_retained takes grow_mtx before it tries the retained ecache.
GrowLock(t) ==
    /\ At(t, "growlock") /\ growMtx = Nobody
    /\ growMtx' = t
    /\ Goto(t, [th[t] EXCEPT !.pc = "recycle", !.ec = "retained"])
    /\ UNCHANGED << edata, emap, eset, avail, mtx, expNext, purging, live, wq,
                    mapped, junk, stats >>

\* extent_recycle_extract without expand_edata.
RecycleExtract(t) ==
    LET r == th[t] IN
    /\ At(t, "recycle") /\ r.o = NULL /\ mtx[r.ec] = Nobody
    /\ \/ /\ Fits(r.ec, r.size, r.align) = {}
          /\ MissStep(t, r)
          /\ UNCHANGED << edata, eset, mtx, wq >>
       \/ \E e \in Fits(r.ec, r.size, r.align) :
            LET d == [edata[e] EXCEPT !.state = "active"] IN
            /\ mtx' = [mtx EXCEPT ![r.ec] = t]
            /\ eset' = [eset EXCEPT ![r.ec] = eset_remove(@, e)]
            /\ edata' = [edata EXCEPT ![e] = d]
            /\ Emit(t, emap_update_edata_state(e, d))
            /\ Goto(t, [r EXCEPT !.pc = "split", !.e = e])
            /\ UNCHANGED << growMtx, live >>
    /\ UNCHANGED << emap, avail, expNext, purging, mapped, junk, stats >>

\* extent_recycle_extract with expand_edata: acquire the extent that follows.
ExpandAcquire(t) ==
    LET r == th[t]
        q == NeighborPage(edata[r.o], TRUE)
        leaf == emap[q]
        f == leaf.edata
        d == [edata[f] EXCEPT !.state = "merging"]
        ok == /\ q \in Pages
              /\ extent_can_acquire_neighbor(edata[r.o], leaf, edata[f], r.ec,
                                             TRUE, TRUE)
    IN
    /\ At(t, "recycle") /\ r.o # NULL /\ mtx[r.ec] = Nobody
    /\ \/ /\ ~ok
          /\ MissStep(t, r)
          /\ UNCHANGED << edata, mtx, wq >>
       \/ /\ ok
          /\ mtx' = [mtx EXCEPT ![r.ec] = t]
          /\ edata' = [edata EXCEPT ![f] = d]
          /\ Emit(t, emap_update_edata_state(f, d))
          /\ Goto(t, [r EXCEPT !.pc = "acquired", !.e = f])
          /\ UNCHANGED << growMtx, live >>
    /\ UNCHANGED << emap, eset, avail, expNext, purging, mapped, junk, stats >>

\* The neighbour is released when it is too small, activated otherwise.
ExpandExtract(t) ==
    LET r == th[t]
        small == edata[r.e].size < r.size
        d == [edata[r.e] EXCEPT !.state = IF small THEN r.ec ELSE "active"]
    IN
    /\ At(t, "acquired")
    /\ edata' = [edata EXCEPT ![r.e] = d]
    /\ Emit(t, emap_update_edata_state(r.e, d))
    /\ eset' = IF small THEN eset
               ELSE [eset EXCEPT ![r.ec] = eset_remove(@, r.e)]
    /\ Goto(t, [r EXCEPT !.pc = IF small THEN "missed" ELSE "split",
                         !.e = IF small THEN NULL ELSE @])
    /\ UNCHANGED << emap, avail, mtx, growMtx, expNext, purging, live, mapped,
                    junk, stats >>

\* extent_recycle returns NULL after it has released the neighbour.
RecycleMissed(t) ==
    /\ At(t, "missed")
    /\ mtx' = [mtx EXCEPT ![th[t].ec] = Nobody]
    /\ MissStep(t, th[t])
    /\ UNCHANGED << edata, emap, eset, avail, expNext, purging, wq, mapped,
                    junk, stats >>

\* extent_recycle_split: the lead and the trail go back to the ecache.  When
\* a split fails, the salvageable lead is deregistered like the rest.
extent_recycle_split(t) ==
    LET r == th[t] IN
    /\ At(t, "split")
    /\ \E x \in extent_split_interior(r.e, r.size, r.align) :
         LET back == NonNull(<< x.lead, x.trail >>)
             ed == [e \in Edatas |-> IF e \in ToSet(back)
                                    THEN [x.edata[e] EXCEPT !.state = r.ec]
                                    ELSE x.edata[e]]
             dereg == NonNull(<< x.salvage, x.leak >>)
             upd(e) == emap_update_edata_state(e, ed[e])
         IN
         /\ avail' = x.avail
         /\ IF x.mid # NULL
            THEN /\ edata' = ed
                 /\ eset' = [eset EXCEPT ![r.ec] = @ \o back]
                 /\ Emit(t, x.writes
                            \o FlattenSeq([i \in 1 .. Len(back) |-> upd(back[i])]))
                 /\ Goto(t, [r EXCEPT !.pc = "recycled", !.e = x.mid])
                 /\ UNCHANGED stats
            ELSE /\ edata' = x.edata
                 /\ Emit(t, x.writes
                            \o FlattenSeq([i \in 1 .. Len(dereg) |->
                                 emap_deregister_boundary(x.edata[dereg[i]])]))
                 /\ Goto(t, [r EXCEPT !.pc = "abandon", !.e = x.leak])
                 /\ stats' = extent_gdump_sub(SizeOf(x.salvage))
                 /\ UNCHANGED eset
    /\ UNCHANGED << emap, mtx, growMtx, expNext, purging, live, mapped, junk >>

\* extents_abandon_vm, called by extent_grow_retained, and by
\* extent_recycle_split after it has dropped the ecache mutex: the pages are
\* leaked.
extents_abandon_vm(t) ==
    LET r == th[t] IN
    /\ At(t, "abandon")
    /\ avail' = avail \union {r.e}
    /\ stats' = [stats EXCEPT !.abandoned_vm = @ + edata[r.e].size]
    /\ \/ /\ r.k = "growfail"
          /\ growMtx' = Nobody
          /\ Goto(t, [r EXCEPT !.pc = "mmap", !.k = "alloc", !.e = NULL])
          /\ UNCHANGED mtx
       \/ /\ r.k # "growfail"
          /\ mtx' = [mtx EXCEPT ![r.ec] = Nobody]
          /\ Goto(t, [r EXCEPT !.pc = "relock", !.e = NULL])
          /\ UNCHANGED growMtx
    /\ UNCHANGED << edata, emap, eset, expNext, purging, live, wq, mapped, junk >>

\* extent_recycle_split takes the mutex again, for extent_recycle to drop it.
AbandonRelock(t) ==
    /\ At(t, "relock") /\ mtx[th[t].ec] = Nobody
    /\ MissStep(t, th[t])
    /\ UNCHANGED << edata, emap, eset, avail, mtx, expNext, purging, wq, mapped,
                    junk, stats >>

Obtained_uncounted(r, e, map) ==
    [r EXCEPT !.e = e, !.keep = IF r.o = NULL THEN e ELSE NULL,
              !.pc = IF r.o # NULL THEN "merge"
                     ELSE IF r.size > r.want THEN "batch" ELSE "done"]

Obtained_unsplit(r, e, map) ==
    [r EXCEPT !.e = e, !.keep = IF r.o = NULL THEN e ELSE NULL, !.map = map,
              !.pc = IF r.o # NULL THEN "merge" ELSE "done"]

\* Where an obtained extent goes: to the caller, or into a batched split, or
\* into the merge that extends the caller's extent.
Obtained(r, e, map) ==
    [r EXCEPT !.e = e, !.keep = IF r.o = NULL THEN e ELSE NULL, !.map = map,
              !.pc = IF r.o # NULL THEN "merge"
                     ELSE IF r.size > r.want THEN "batch" ELSE "done"]

\* The end of extent_recycle: unlock, commit, zero; then, for the retained
\* ecache, extent_alloc_retained drops grow_mtx and counts the pages.  A
\* failed commit records the extent again.
RecycleFinish(t) ==
    LET r == th[t]
        d == edata[r.e]
        retained == r.ec = "retained"
    IN
    /\ At(t, "recycled")
    /\ mtx' = [mtx EXCEPT ![r.ec] = Nobody]
    /\ \E fail \in May("commit_fails") :
         IF fail /\ ~d.committed
         THEN /\ Goto(t, [r EXCEPT !.pc = "record", !.k = "uncommitted"])
              /\ UNCHANGED << edata, growMtx, junk, stats >>
         ELSE /\ edata' = [edata EXCEPT ![r.e].committed = TRUE]
              /\ junk' = extent_zero(r.zero, d)
              /\ growMtx' = IF retained THEN Nobody ELSE growMtx
              /\ stats' = extent_gdump_add(IF retained THEN d.size ELSE 0)
              /\ Goto(t, Obtained(r, r.e, IF retained THEN d.size ELSE 0))
    /\ UNCHANGED << emap, eset, avail, expNext, purging, live, wq, mapped >>

\* The caller of pac_alloc receives the extent, and writes to it.
AllocDone(t) ==
    LET r == th[t] IN
    /\ At(t, "done")
    /\ live' = live \union {r.keep}
    /\ junk' = junk \union PagesOf(edata[r.keep])
    /\ stats' = [stats EXCEPT !.pac_mapped = @ + r.map]
    /\ Goto(t, Idle)
    /\ UNCHANGED << edata, emap, eset, avail, mtx, growMtx, expNext, purging,
                    wq, mapped >>

-----------------------------------------------------------------------------
(* Growing: extent_grow_retained, extent_alloc_wrapper, batched splits *)

\* The address ranges of n pages that the alloc hook may return.
FreeRuns(n) == {b \in Pages : b + n - 1 <= opt.pages
                             /\ (b .. (b + n - 1)) \cap mapped = {}}

\* edata_init of a fresh mapping, whose pages the kernel has zeroed.
Fresh(base, size, head, pinned) ==
    [base |-> base, size |-> size, state |-> "active", head |-> head,
     pinned |-> pinned, zeroed |-> TRUE, committed |-> TRUE]

MapFresh(t, f, d) ==
    /\ avail' = avail \ {f}
    /\ edata' = [edata EXCEPT ![f] = d]
    /\ Emit(t, emap_register_boundary(f, d))
    /\ mapped' = mapped \union PagesOf(d)
    /\ junk' = junk \ PagesOf(d)

\* exp_grow_size_prepare and exp_grow_size_commit, for sizes whose page size
\* classes are one page apart.
exp_grow_size_prepare(min) == IF expNext < min THEN min ELSE expNext
exp_grow_size_commit(alloc) == IF alloc + 1 <= opt.growLimit THEN alloc + 1
                               ELSE opt.growLimit

\* extent_grow_retained up to the registration of the new mapping.
extent_grow_retained(t) ==
    LET r == th[t]
        alloc == exp_grow_size_prepare(r.size + r.align - 1)
    IN
    /\ At(t, "grow")
    /\ \/ \E f \in avail, b \in FreeRuns(alloc), p \in May("pins") :
            /\ MapFresh(t, f, Fresh(b, alloc, TRUE, p))
            /\ Goto(t, [r EXCEPT !.pc = "growsplit", !.e = f, !.nmax = alloc])
            /\ UNCHANGED growMtx
       \/ /\ avail = {} \/ FreeRuns(alloc) = {} \/ "alloc_fails" \in opt.hooks
          /\ growMtx' = Nobody
          /\ Goto(t, [r EXCEPT !.pc = "mmap"])
          /\ UNCHANGED << edata, avail, wq, mapped, junk >>
    /\ UNCHANGED << emap, eset, mtx, expNext, purging, live, stats >>

\* The split of the new mapping: what is left over is to be recorded.
GrowSplit(t) ==
    LET r == th[t] IN
    /\ At(t, "growsplit")
    /\ \E x \in extent_split_interior(r.e, r.size, r.align) :
         LET k == IF x.mid # NULL THEN "grown" ELSE "growfail" IN
         /\ edata' = x.edata
         /\ avail' = x.avail
         /\ Emit(t, x.writes)
         /\ Goto(t, [r EXCEPT !.pc = k, !.k = k, !.e = NULL,
                     !.keep = IF k = "grown" THEN x.mid ELSE x.leak,
                     !.todo = NonNull(IF k = "grown" THEN << x.lead, x.trail >>
                                      ELSE << x.salvage >>)])
         /\ stats' = extent_gdump_add(SizeOf(x.salvage))
    /\ UNCHANGED << emap, eset, mtx, growMtx, expNext, purging, live, mapped,
                    junk >>

\* pac_record_grown on each extent of r.todo in turn.
pac_record_grown(t) ==
    LET r == th[t]
        d == edata[Head(r.todo)]
    IN
    /\ At(t, "grown") \/ At(t, "growfail")
    /\ r.todo # << >>
    /\ stats' = [stats EXCEPT !.pac_mapped = @ + IF d.pinned THEN d.size ELSE 0]
    /\ Goto(t, [r EXCEPT !.pc = "record", !.e = Head(r.todo),
                         !.todo = Tail(r.todo), !.ec = GrownCache(d)])
    /\ UNCHANGED << edata, emap, eset, avail, mtx, growMtx, expNext, purging,
                    live, wq, mapped, junk >>

\* The successful end of extent_grow_retained.
GrowFinish(t) ==
    LET r == th[t]
        d == edata[r.keep]
    IN
    /\ At(t, "grown") /\ r.todo = << >>
    /\ expNext' = IF d.pinned THEN expNext ELSE exp_grow_size_commit(r.nmax)
    /\ growMtx' = Nobody
    /\ stats' = extent_gdump_add(d.size)
    /\ junk' = extent_zero(r.zero, d)
    /\ Goto(t, Obtained([r EXCEPT !.nmax = 0], r.keep, r.size))
    /\ UNCHANGED << edata, emap, eset, avail, mtx, purging, live, wq, mapped >>

\* The failed end: the remainder is deregistered, then abandoned.
GrowAbandon(t) ==
    LET r == th[t] IN
    /\ At(t, "growfail") /\ r.todo = << >>
    /\ Emit(t, emap_deregister_boundary(edata[r.keep]))
    /\ Goto(t, [r EXCEPT !.pc = "abandon", !.e = r.keep, !.keep = NULL,
                         !.nmax = 0])
    /\ UNCHANGED << edata, emap, eset, avail, mtx, growMtx, expNext, purging,
                    live, mapped, junk, stats >>

\* extent_alloc_wrapper: a mapping of its own, behind the caller's extent when
\* that is to be expanded.  pac_alloc_real tries again without batching.
extent_alloc_wrapper(t) ==
    LET r == th[t]
        runs == {b \in FreeRuns(r.size) :
                   IF r.o = NULL THEN LeadSize(b, r.align) = 0
                   ELSE b = PastPage(edata[r.o])}
    IN
    /\ At(t, "mmap")
    /\ \/ \E f \in avail, b \in runs, p \in May("pins") :
            /\ MapFresh(t, f, Fresh(b, r.size, opt.retain, p))
            /\ stats' = extent_gdump_add(r.size)
            /\ Goto(t, Obtained(r, f, r.size))
            /\ UNCHANGED live
       \/ /\ avail = {} \/ runs = {} \/ "alloc_fails" \in opt.hooks
          /\ IF r.o = NULL /\ r.size > r.want
             THEN /\ Goto(t, [r EXCEPT !.pc = "growlock", !.size = r.want])
                  /\ UNCHANGED live
             ELSE /\ Goto(t, Idle)
                  /\ live' = live \union ({r.o} \ {NULL})
          /\ UNCHANGED << edata, avail, wq, mapped, junk, stats >>
    /\ UNCHANGED << emap, eset, mtx, growMtx, expNext, purging >>

\* pac_alloc_real after a batched allocation: the excess goes to the dirty
\* (or pinned) ecache.  Without a descriptor, all of it is recorded instead.
BatchSplit(t) ==
    LET r == th[t]
        d == edata[r.e]
    IN
    /\ At(t, "batch")
    /\ \/ /\ avail = {}
          /\ stats' = [stats EXCEPT !.pac_mapped = @ + IF d.pinned THEN d.size
                                                      ELSE 0]
          /\ Goto(t, [r EXCEPT !.pc = "record", !.k = "growlock", !.map = 0,
                      !.ec = GrownCache(d), !.size = r.want, !.keep = NULL])
          /\ UNCHANGED << edata, avail, wq >>
       \/ \E f \in avail :
            LET trail == SplitTrail(d, r.want) IN
            /\ edata' = [edata EXCEPT ![r.e] = SplitLead(d, r.want),
                                      ![f] = [trail EXCEPT !.zeroed = FALSE]]
            /\ avail' = avail \ {f}
            /\ Emit(t, emap_split_commit(r.e, SplitLead(d, r.want), f, trail))
            /\ Goto(t, [r EXCEPT !.pc = "record", !.k = "done", !.e = f,
                                 !.ec = DallocCache(d)])
            /\ UNCHANGED stats
    /\ UNCHANGED << emap, eset, mtx, growMtx, expNext, purging, live, mapped,
                    junk >>

-----------------------------------------------------------------------------
(* Recording: extent_record and extent_try_coalesce_impl *)

\* The return from extent_record or extent_dalloc_wrapper to continuation r.k.
Return(t, r) ==
    /\ Goto(t, IF r.k = "idle" THEN Idle
               ELSE [r EXCEPT !.pc = r.k, !.e = NULL, !.n = NULL, !.max = 0,
                              !.again = FALSE, !.fwd = TRUE,
                              !.unmap = IF r.k = "decay" THEN @ ELSE 0])
    /\ live' = IF r.k = "idle" THEN live \union ({r.o} \ {NULL}) ELSE live

\* Pages that leave pac_mapped on that return; a decay pass sums them up.
Unmapped(r) == IF r.k = "decay" THEN 0 ELSE r.unmap

AtMost(n, max) == IF n < max THEN n ELSE max

\* extent_record locks the ecache and decides whether to coalesce.
extent_record(t) ==
    LET r == th[t]
        size == edata[r.e].size
    IN
    /\ At(t, "record") /\ mtx[r.ec] = Nobody
    /\ mtx' = [mtx EXCEPT ![r.ec] = t]
    /\ Goto(t, CASE ~delay_coalesce(r.ec) ->
                     [r EXCEPT !.pc = "co", !.fwd = TRUE, !.max = NPages]
                 [] delay_coalesce(r.ec) /\ size >= LargeMin ->
                     [r EXCEPT !.pc = "co", !.fwd = TRUE,
                               !.max = AtMost(size * MaxFit, NPages)]
                 [] OTHER -> [r EXCEPT !.pc = "deact"])
    /\ UNCHANGED << edata, emap, eset, avail, growMtx, expNext, purging, live,
                    wq, mapped, junk, stats >>

CoNext_forward_only(r) ==
    IF r.fwd /\ r.again THEN [r EXCEPT !.pc = "co", !.again = FALSE, !.n = NULL]
    ELSE [r EXCEPT !.pc = "codone", !.n = NULL]

\* The loop of extent_try_coalesce_impl: forward, backward, then again if
\* either direction has merged something.
CoNext(r) ==
    IF r.fwd THEN [r EXCEPT !.pc = "co", !.fwd = FALSE, !.n = NULL]
    ELSE IF r.again
    THEN [r EXCEPT !.pc = "co", !.fwd = TRUE, !.again = FALSE, !.n = NULL]
    ELSE [r EXCEPT !.pc = "codone", !.n = NULL]

\* emap_try_acquire_edata_neighbor: look at the neighbour's leaf, and mark the
\* neighbour as merging when it belongs to this ecache.
emap_try_acquire_edata_neighbor(t) ==
    LET r == th[t]
        q == NeighborPage(edata[r.e], r.fwd)
        f == emap[q].edata
        ok == /\ q \in Pages
              /\ extent_can_acquire_neighbor(edata[r.e], emap[q], edata[f],
                                             r.ec, r.fwd, FALSE)
        d == [edata[f] EXCEPT !.state = "merging"]
    IN
    /\ At(t, "co")
    /\ IF ok
       THEN /\ edata' = [edata EXCEPT ![f] = d]
            /\ Emit(t, emap_update_edata_state(f, d))
            /\ Goto(t, [r EXCEPT !.pc = "coacq", !.n = f])
       ELSE /\ Goto(t, CoNext(r))
            /\ UNCHANGED << edata, wq >>
    /\ UNCHANGED << emap, eset, avail, mtx, growMtx, expNext, purging, live,
                    mapped, junk, stats >>

\* A neighbour that would make the extent too large is released; one that the
\* merge hook refuses goes back to the ecache.
CoalesceFail(t) ==
    LET r == th[t]
        d == [edata[r.n] EXCEPT !.state = r.ec]
        large == edata[r.e].size + edata[r.n].size > r.max
    IN
    /\ At(t, "coacq")
    /\ large \/ "merge_fails" \in opt.hooks
    /\ edata' = [edata EXCEPT ![r.n] = d]
    /\ Emit(t, emap_update_edata_state(r.n, d))
    /\ eset' = IF large THEN eset
               ELSE [eset EXCEPT ![r.ec] = eset_insert(eset_remove(@, r.n), r.n)]
    /\ Goto(t, CoNext(r))
    /\ UNCHANGED << emap, avail, mtx, growMtx, expNext, purging, live, mapped,
                    junk, stats >>

\* extent_coalesce: eset_remove, then extent_merge_impl.
extent_coalesce(t) ==
    LET r == th[t]
        a == IF r.fwd THEN r.e ELSE r.n
        b == IF r.fwd THEN r.n ELSE r.e
        d == Merged(edata[a], edata[b])
    IN
    /\ At(t, "coacq")
    /\ edata[r.e].size + edata[r.n].size <= r.max
    /\ eset' = [eset EXCEPT ![r.ec] = eset_remove(@, r.n)]
    /\ edata' = [edata EXCEPT ![a] = d]
    /\ Emit(t, emap_merge_commit(a, edata[a], edata[b], d))
    /\ Goto(t, [r EXCEPT !.pc = "coput", !.e = a, !.n = b])
    /\ UNCHANGED << emap, avail, mtx, growMtx, expNext, purging, live, mapped,
                    junk, stats >>

\* The trailing descriptor is free only after the leaves have been written.
\* An ecache that delays coalescing merges once per call: extent_record calls
\* again, ecache_evict puts the result back into the LRU and starts over.
CoalescePut(t) ==
    LET r == th[t] IN
    /\ At(t, "coput")
    /\ avail' = avail \union {r.n}
    /\ Goto(t, CASE ~delay_coalesce(r.ec) -> CoNext([r EXCEPT !.again = TRUE])
                 [] delay_coalesce(r.ec) /\ r.k = "evict" ->
                        [r EXCEPT !.pc = "deact", !.n = NULL]
                 [] OTHER -> [r EXCEPT !.pc = "co", !.fwd = TRUE, !.n = NULL])
    /\ UNCHANGED << edata, emap, eset, mtx, growMtx, expNext, purging, live, wq,
                    mapped, junk, stats >>

\* Nothing left to coalesce: deactivate; or purge an oversize extent right
\* away; or, when evicting, the extent becomes the caller's.
CoalesceDone(t) ==
    LET r == th[t]
        d == edata[r.e]
    IN
    /\ At(t, "codone")
    /\ \/ /\ r.k = "evict"
          /\ Emit(t, emap_update_edata_state(r.e, [d EXCEPT !.state = r.ec])
                      \o emap_update_edata_state(r.e, d))
          /\ Goto(t, [r EXCEPT !.pc = "evicted"])
          /\ UNCHANGED mtx
       \/ /\ r.k # "evict" /\ r.ec = "dirty" /\ d.size >= opt.oversize
          /\ mtx' = [mtx EXCEPT ![r.ec] = Nobody]
          /\ Goto(t, [r EXCEPT !.pc = "dallocw", !.unmap = d.size])
          /\ UNCHANGED wq
       \/ /\ r.k # "evict" /\ ~(r.ec = "dirty" /\ d.size >= opt.oversize)
          /\ Goto(t, [r EXCEPT !.pc = "deact"])
          /\ UNCHANGED << mtx, wq >>
    /\ UNCHANGED << edata, emap, eset, avail, growMtx, expNext, purging, live,
                    mapped, junk, stats >>

\* extent_deactivate_locked, and the end of extent_try_delayed_coalesce.
extent_deactivate_locked(t) ==
    LET r == th[t]
        d == [edata[r.e] EXCEPT !.state = r.ec]
    IN
    /\ At(t, "deact")
    /\ edata' = [edata EXCEPT ![r.e] = d]
    /\ Emit(t, emap_update_edata_state(r.e, d))
    /\ eset' = [eset EXCEPT ![r.ec] = eset_insert(@, r.e)]
    /\ Goto(t, [r EXCEPT !.pc = IF r.k = "evict" THEN "evict" ELSE "unlock",
                         !.e = NULL])
    /\ UNCHANGED << emap, avail, mtx, growMtx, expNext, purging, live, mapped,
                    junk, stats >>

RecordUnlock(t) ==
    LET r == th[t] IN
    /\ At(t, "unlock")
    /\ mtx' = [mtx EXCEPT ![r.ec] = Nobody]
    /\ stats' = [stats EXCEPT !.pac_mapped = @ - Unmapped(r)]
    /\ Return(t, r)
    /\ UNCHANGED << edata, emap, eset, avail, growMtx, expNext, purging, wq,
                    mapped, junk >>

\* extent_recycle returns NULL after it has recorded what it cannot commit.
Uncommitted(t) ==
    /\ At(t, "uncommitted")
    /\ MissStep(t, th[t])
    /\ UNCHANGED << edata, emap, eset, avail, mtx, expNext, purging, wq, mapped,
                    junk, stats >>

-----------------------------------------------------------------------------
(* extent_dalloc_wrapper *)

\* With opt_retain the default dalloc hook is known to fail and is not called.
\* Otherwise the extent is deregistered before its pages can be mapped again.
extent_dalloc_wrapper(t) ==
    LET r == th[t]
        d == edata[r.e]
    IN
    /\ At(t, "dallocw")
    /\ \/ /\ opt.retain
          /\ Goto(t, [r EXCEPT !.pc = "purge"])
          /\ UNCHANGED << wq, stats >>
       \/ /\ ~opt.retain
          /\ Emit(t, emap_deregister_boundary(d))
          /\ stats' = extent_gdump_sub(d.size)
          /\ Goto(t, [r EXCEPT !.pc = "unmap"])
    /\ UNCHANGED << edata, emap, eset, avail, mtx, growMtx, expNext, purging,
                    live, mapped, junk >>

\* extent_dalloc_wrapper_try; extent_reregister when it fails.
extent_dalloc_wrapper_try(t) ==
    LET r == th[t]
        d == edata[r.e]
    IN
    /\ At(t, "unmap")
    /\ \/ /\ mapped' = mapped \ PagesOf(d)
          /\ avail' = avail \union {r.e}
          /\ stats' = [stats EXCEPT !.pac_mapped = @ - Unmapped(r)]
          /\ Return(t, r)
          /\ UNCHANGED wq
       \/ /\ "dalloc_fails" \in opt.hooks
          /\ Emit(t, emap_register_boundary(r.e, d))
          /\ stats' = extent_gdump_add(d.size)
          /\ Goto(t, [r EXCEPT !.pc = "purge"])
          /\ UNCHANGED << avail, live, mapped >>
    /\ UNCHANGED << edata, emap, eset, mtx, growMtx, expNext, purging, junk >>

\* Decommit, or purge forcibly, or leave the pages as they are; then
\* extent_dalloc_wrapper_finish records the extent as retained.  A batch that
\* process_madvise has purged has the outcome of a forced purge.
PurgeToRetained(t) ==
    LET r == th[t]
        d == edata[r.e]
    IN
    /\ At(t, "purge")
    /\ \E decommit \in May("decommits"), fail \in May("purge_forced_fails") :
         LET zeroed == ~d.committed \/ decommit \/ ~fail IN
         /\ edata' = [edata EXCEPT ![r.e].committed = @ /\ ~decommit,
                                   ![r.e].zeroed = zeroed]
         /\ junk' = IF zeroed THEN junk \ PagesOf(d) ELSE junk
    /\ stats' = extent_gdump_sub(d.size)
    /\ Goto(t, [r EXCEPT !.pc = "record", !.ec = "retained"])
    /\ UNCHANGED << emap, eset, avail, mtx, growMtx, expNext, purging, live, wq,
                    mapped >>

-----------------------------------------------------------------------------
(* Decay: pac_decay_to_limit, pac_stash_decayed, ecache_evict *)

\* pac_decay_try_purge (a limit) and pac_decay_all (limit 0, fully or not).
pac_decay_to_limit(t) ==
    /\ At(t, "idle")
    /\ \E c \in {"dirty", "muzzy"}, lim \in opt.limits,
          try_muzzy \in {m \in BOOLEAN : m => opt.muzzy} :
         /\ ~purging[c] /\ eset_npages(c) > lim
         /\ (lim > 0) => (try_muzzy = opt.muzzy)
         /\ purging' = [purging EXCEPT ![c] = TRUE]
         /\ Goto(t, [Idle EXCEPT !.pc = "evict", !.k = "evict", !.ec = c,
                     !.from = c, !.lim = lim, !.nmax = eset_npages(c) - lim,
                     !.muzzy = try_muzzy])
    /\ UNCHANGED << edata, emap, eset, avail, mtx, growMtx, expNext, live, wq,
                    mapped, junk, stats >>

\* ecache_evict: take the LRU extent unless the ecache is at its limit.  The
\* mutex is already held when the loop starts over after a coalesce.
ecache_evict(t) ==
    LET r == th[t]
        e == Head(eset[r.ec])
        d == [edata[e] EXCEPT !.state = "active"]
        stop == eset[r.ec] = << >> \/ eset_npages(r.ec) <= r.lim
    IN
    /\ At(t, "evict") /\ mtx[r.ec] \in {Nobody, t}
    /\ IF stop
       THEN /\ mtx' = [mtx EXCEPT ![r.ec] = Nobody]
            /\ Goto(t, [r EXCEPT !.pc = "decay", !.k = "decay"])
            /\ UNCHANGED << edata, eset, wq >>
       ELSE /\ mtx' = [mtx EXCEPT ![r.ec] = t]
            /\ eset' = [eset EXCEPT ![r.ec] = Tail(@)]
            /\ edata' = [edata EXCEPT ![e] = d]
            /\ Emit(t, emap_update_edata_state(e, d))
            /\ Goto(t, IF delay_coalesce(r.ec)
                       THEN [r EXCEPT !.pc = "co", !.e = e, !.fwd = TRUE,
                                      !.max = NPages]
                       ELSE [r EXCEPT !.pc = "evicted", !.e = e])
    /\ UNCHANGED << emap, avail, growMtx, expNext, purging, live, mapped, junk,
                    stats >>

\* ecache_evict returns an extent; pac_stash_decayed appends it to the stash
\* and goes on until it has npages_decay_max pages.
pac_stash_decayed(t) ==
    LET r == th[t]
        nst == r.nst + edata[r.e].size
        more == nst < r.nmax
    IN
    /\ At(t, "evicted")
    /\ mtx' = [mtx EXCEPT ![r.ec] = Nobody]
    /\ Goto(t, [r EXCEPT !.todo = Append(@, r.e), !.e = NULL, !.nst = nst,
                         !.max = 0, !.fwd = TRUE,
                         !.pc = IF more THEN "evict" ELSE "decay",
                         !.k = IF more THEN "evict" ELSE "decay"])
    /\ UNCHANGED << edata, emap, eset, avail, growMtx, expNext, purging, live,
                    wq, mapped, junk, stats >>

\* pac_decay_stashed, one extent at a time.
pac_decay_stashed(t) ==
    LET r == th[t]
        e == Head(r.todo)
        next == [r EXCEPT !.e = e, !.todo = Tail(@)]
    IN
    /\ At(t, "decay") /\ r.todo # << >>
    /\ \/ /\ r.muzzy /\ r.from = "dirty"
          /\ edata' = [edata EXCEPT ![e].zeroed = FALSE]
          /\ Goto(t, [next EXCEPT !.pc = "record", !.ec = "muzzy"])
       \/ /\ ~r.muzzy \/ r.from = "muzzy" \/ "purge_lazy_fails" \in opt.hooks
          /\ Goto(t, [next EXCEPT !.pc = "dallocw",
                                  !.unmap = @ + edata[e].size])
          /\ UNCHANGED edata
    /\ UNCHANGED << emap, eset, avail, mtx, growMtx, expNext, purging, live, wq,
                    mapped, junk, stats >>

DecayFinish(t) ==
    LET r == th[t] IN
    /\ At(t, "decay") /\ r.todo = << >>
    /\ stats' = [stats EXCEPT !.pac_mapped = @ - r.unmap]
    /\ purging' = [purging EXCEPT ![r.from] = FALSE]
    /\ Goto(t, Idle)
    /\ UNCHANGED << edata, emap, eset, avail, mtx, growMtx, expNext, live, wq,
                    mapped, junk >>

-----------------------------------------------------------------------------
(* pac_dalloc, pac_shrink, pac_expand *)

\* The caller gives an extent back; its zeroed flag is cleared.
pac_dalloc(t) ==
    /\ At(t, "idle")
    /\ \E e \in live :
         /\ live' = live \ {e}
         /\ edata' = [edata EXCEPT ![e].zeroed = FALSE]
         /\ Goto(t, [Idle EXCEPT !.pc = "record", !.e = e,
                                 !.ec = DallocCache(edata[e])])
    /\ UNCHANGED << emap, eset, avail, mtx, growMtx, expNext, purging, wq,
                    mapped, junk, stats >>

\* The trail is split off, without a lock, and deallocated.
pac_shrink(t) ==
    /\ At(t, "idle")
    /\ \E e \in live, f \in avail, n \in opt.sizes :
         LET d == edata[e] IN
         /\ n < d.size
         /\ edata' = [edata EXCEPT ![e] = SplitLead(d, n),
                        ![f] = [SplitTrail(d, n) EXCEPT !.zeroed = FALSE]]
         /\ avail' = avail \ {f}
         /\ live' = live \ {e}
         /\ Emit(t, emap_split_commit(e, SplitLead(d, n), f, SplitTrail(d, n)))
         /\ Goto(t, [Idle EXCEPT !.pc = "record", !.e = f, !.o = e,
                                 !.ec = DallocCache(d)])
    /\ UNCHANGED << emap, eset, mtx, growMtx, expNext, purging, mapped, junk,
                    stats >>

pac_expand(t) ==
    /\ At(t, "idle")
    /\ \E e \in live, n \in opt.sizes, z \in opt.zeros :
         /\ live' = live \ {e}
         /\ Goto(t, [Idle EXCEPT !.pc = "recycle", !.o = e, !.size = n,
                      !.want = n, !.zero = z, !.ec = DallocCache(edata[e])])
    /\ UNCHANGED << edata, emap, eset, avail, mtx, growMtx, expNext, purging,
                    wq, mapped, junk, stats >>

\* extent_merge_wrapper on the extent and its new trail.
ExpandMerge(t) ==
    LET r == th[t]
        d == Merged(edata[r.o], edata[r.e])
    IN
    /\ At(t, "merge") /\ edata[r.o].pinned = edata[r.e].pinned
    /\ edata' = [edata EXCEPT ![r.o] = d]
    /\ Emit(t, emap_merge_commit(r.o, edata[r.o], edata[r.e], d))
    /\ Goto(t, [r EXCEPT !.pc = "expanded"])
    /\ UNCHANGED << emap, eset, avail, mtx, growMtx, expNext, purging, live,
                    mapped, junk, stats >>

Expanded(t) ==
    LET r == th[t] IN
    /\ At(t, "expanded")
    /\ avail' = avail \union {r.e}
    /\ live' = live \union {r.o}
    /\ junk' = junk \union PagesOf(edata[r.o])
    /\ stats' = [stats EXCEPT !.pac_mapped = @ + r.map]
    /\ Goto(t, Idle)
    /\ UNCHANGED << edata, emap, eset, mtx, growMtx, expNext, purging, wq,
                    mapped >>

\* The merge is refused, or impossible because only one side is pinned: a
\* pinned trail is cached, any other goes to extent_dalloc_wrapper.
ExpandFail(t) ==
    LET r == th[t]
        p == edata[r.e].pinned
    IN
    /\ At(t, "merge")
    /\ edata[r.o].pinned # p \/ "merge_fails" \in opt.hooks
    /\ stats' = [stats EXCEPT !.pac_mapped = @ + IF p THEN r.map ELSE 0]
    /\ edata' = IF p THEN [edata EXCEPT ![r.e].zeroed = FALSE] ELSE edata
    /\ Goto(t, [r EXCEPT !.pc = IF p THEN "record" ELSE "dallocw",
                         !.ec = IF p THEN "pinned" ELSE @,
                         !.k = "idle", !.map = 0])
    /\ UNCHANGED << emap, eset, avail, mtx, growMtx, expNext, purging, live, wq,
                    mapped, junk >>

-----------------------------------------------------------------------------

\* The calls a thread may make, and the steps of a call under way.
Call(t) == \/ pac_alloc(t) \/ pac_dalloc(t) \/ pac_shrink(t)
           \/ pac_expand(t) \/ pac_decay_to_limit(t)

Step(t) ==
    \/ LeafWrite(t)
    \/ GrowLock(t) \/ RecycleExtract(t) \/ ExpandAcquire(t)
    \/ ExpandExtract(t) \/ RecycleMissed(t) \/ extent_recycle_split(t)
    \/ extents_abandon_vm(t) \/ AbandonRelock(t) \/ RecycleFinish(t)
    \/ AllocDone(t)
    \/ extent_grow_retained(t) \/ GrowSplit(t) \/ pac_record_grown(t)
    \/ GrowFinish(t) \/ GrowAbandon(t) \/ extent_alloc_wrapper(t)
    \/ BatchSplit(t) \/ extent_record(t)
    \/ emap_try_acquire_edata_neighbor(t) \/ CoalesceFail(t)
    \/ extent_coalesce(t) \/ CoalescePut(t) \/ CoalesceDone(t)
    \/ extent_deactivate_locked(t) \/ RecordUnlock(t) \/ Uncommitted(t)
    \/ extent_dalloc_wrapper(t) \/ extent_dalloc_wrapper_try(t)
    \/ PurgeToRetained(t) \/ ecache_evict(t) \/ pac_stash_decayed(t)
    \/ pac_decay_stashed(t) \/ DecayFinish(t)
    \/ ExpandMerge(t) \/ Expanded(t) \/ ExpandFail(t)

Next == \E t \in Threads : Call(t) \/ Step(t)

Spec == Init /\ [][Next]_vars

-----------------------------------------------------------------------------
(* Who owns what *)

Cached == UNION {ToSet(eset[c]) : c \in Ecaches}

\* The extents in the hands of thread t.  An acquired neighbour is still in
\* its eset.
Held(t) ==
    LET r == th[t] IN
    ({r.e, r.o, r.keep} \union ToSet(r.todo)
        \union (IF r.pc = "coput" THEN {r.n} ELSE {}))
      \ ({NULL} \union IF r.pc = "acquired" THEN {r.e} ELSE {})

\* Held extents whose leaves have been, or are being, cleared.
Unregistered(t) ==
    LET r == th[t] IN
    CASE r.pc = "coput" -> {r.n}
      [] r.pc \in {"expanded", "abandon", "unmap"} -> {r.e}
      [] OTHER -> {}

Registered == live \union Cached
                \union UNION {Held(t) \ Unregistered(t) : t \in Threads}

\* The leaf of page p once the pending writes have been performed.
Settled(p) ==
    LET pending(t) == SelectSeq(wq[t], LAMBDA w : w.page = p)
        writers == {t \in Threads : pending(t) # << >>}
    IN IF writers = {} THEN emap[p]
       ELSE LET q == pending(CHOOSE t \in writers : TRUE)
            IN q[Len(q)].leaf

-----------------------------------------------------------------------------
(* Properties *)

\* Every variable stays within its type.
TypeOK ==
    /\ opt \in Options
    /\ edata \in [Edatas -> Edata]
    /\ emap \in [Pages -> Leaf]
    /\ DOMAIN eset = Ecaches /\ Cached \subseteq Edatas
    /\ avail \subseteq Edatas /\ live \subseteq Edatas
    /\ mtx \in [Ecaches -> Threads \union {Nobody}]
    /\ growMtx \in Threads \union {Nobody}
    /\ expNext \in Nat
    /\ purging \in [{"dirty", "muzzy"} -> BOOLEAN]
    /\ DOMAIN th = Threads /\ DOMAIN wq = Threads
    /\ mapped \subseteq Pages /\ junk \subseteq Pages

\* An edata_t is in one place: the edata_cache, the application, one ecache
\* (once), or the hands of one thread that recycles, records, splits, merges
\* or decays it.  And a page belongs to one extent: splitting, merging, growing
\* and unmapping never make two extents overlap, nor leave an extent over
\* memory that the dalloc hook has given back.
OneOwner ==
    /\ \A c \in Ecaches : Len(eset[c]) = Cardinality(ToSet(eset[c]))
    /\ \A c, d \in Ecaches : c # d => ToSet(eset[c]) \cap ToSet(eset[d]) = {}
    /\ \A t \in Threads : Held(t) \cap (avail \union live \union Cached) = {}
    /\ \A t, u \in Threads : t # u => Held(t) \cap Held(u) = {}
    /\ avail \cap (live \union Cached) = {}
    /\ live \cap Cached = {}
    /\ \A e, f \in Registered :
         e # f => PagesOf(edata[e]) \cap PagesOf(edata[f]) = {}
    /\ \A e \in Registered : PagesOf(edata[e]) \subseteq mapped

\* The emap maps the first and last page of the registered extents and nothing
\* else, with the state and head bit of the descriptor, up to the leaf writes
\* that are under way; and no two threads are about to write the same leaf.
EmapExact ==
    /\ \A t, u \in Threads : \A i \in DOMAIN wq[t], j \in DOMAIN wq[u] :
         wq[t][i].page = wq[u][j].page => t = u
    /\ \A p \in Pages :
         LET owners == {e \in Registered :
                          p \in {edata[e].base, LastPage(edata[e])}}
         IN IF owners = {} THEN Settled(p) = NoLeaf
            ELSE \A e \in owners : Settled(p) = LeafOf(e, edata[e])

\* emap_try_acquire_edata_neighbor reads a leaf that any other thread may be
\* writing.  When it decides to acquire what it sees, that is an extent of the
\* ecache whose mutex it holds, and it really is adjacent.
AcquireSafe ==
    \A t \in Threads :
        LET r == th[t]
            expand == At(t, "recycle") /\ r.o # NULL /\ mtx[r.ec] = Nobody
            x == IF expand THEN r.o ELSE r.e
            fwd == expand \/ r.fwd
            q == NeighborPage(edata[x], fwd)
            f == emap[q].edata
        IN /\ expand \/ At(t, "co")
           /\ q \in Pages
           /\ extent_can_acquire_neighbor(edata[x], emap[q], edata[f], r.ec, fwd,
                                          expand)
           => /\ f \in ToSet(eset[r.ec]) /\ edata[f].state = r.ec
              /\ q = IF fwd THEN edata[f].base ELSE LastPage(edata[f])

\* A cached extent marked as zeroed holds zeros only, whatever was purged,
\* merged and split on the way; and zeroed memory is handed out (by pac_alloc,
\* or to pac_expand) whenever it was asked for.
ZeroedHonest ==
    /\ \A e \in Cached : edata[e].zeroed => PagesOf(edata[e]) \cap junk = {}
    /\ \A t \in Threads :
         LET x == IF At(t, "done") THEN th[t].keep ELSE th[t].e IN
         (At(t, "done") \/ At(t, "merge")) /\ (th[t].zero \/ edata[x].zeroed)
            => PagesOf(edata[x]) \cap junk = {}

\* Pinned extents are cached in ecache_pinned and nothing else is, and no path
\* (oversize purge, decay, failed expansion) purges or unmaps one.
PinnedApart ==
    /\ \A c \in Ecaches : \A e \in ToSet(eset[c]) :
         edata[e].pinned <=> c = "pinned"
    /\ \A t \in Threads : th[t].pc \in {"dallocw", "purge", "unmap"}
                            => ~edata[th[t].e].pinned

\* What pac_alloc returns is committed, aligned and of the requested size,
\* also after failed commits, batched splits and retries.
AllocHonest ==
    \A t \in Threads : At(t, "done") =>
        LET d == edata[th[t].keep] IN
        /\ d.committed /\ d.size = th[t].want
        /\ LeadSize(d.base, th[t].align) = 0

\* While their mutexes are free, the muzzy and the retained ecache hold no two
\* adjacent extents that could be merged: coalescing is thwarted by no race.
FullyCoalesced ==
    \A c \in {"muzzy", "retained"} : mtx[c] = Nobody =>
        \A e, f \in ToSet(eset[c]) :
            PastPage(edata[e]) = edata[f].base
                => \/ edata[f].head
                   \/ edata[e].committed # edata[f].committed

Quiet == \A t \in Threads : th[t].pc = "idle"

PagesIn(S) == MapThenSumSet(LAMBDA e : edata[e].size, S)

NotRetained == PagesIn(live \union Cached) - PagesIn(ToSet(eset["retained"]))

\* When no call is under way, pac_mapped (pac.h) and prof's curpages count the
\* memory that is mapped and not retained, although both are updated far from
\* where extents move.
MappedExact ==
    Quiet => stats.pac_mapped = NotRetained /\ stats.curpages = NotRetained

\* When extent_split_interior fails, what can be salvaged is: the descriptor
\* of the lead is still in use, or available.
Salvaged ==
    Edatas = avail \union live \union Cached
               \union UNION {Held(t) : t \in Threads}

=============================================================================
