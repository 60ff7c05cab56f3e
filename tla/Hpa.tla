--------------------------------- MODULE Hpa --------------------------------
(***************************************************************************)
(* One shard of the huge page allocator (hpa.c): extents are carved out of *)
(* page slabs, which come from the central allocator one hugepage at a     *)
(* time and are never returned before the shard is destroyed.              *)
(*                                                                         *)
(* shard->mtx protects the psset and the metadata of its slabs, and is     *)
(* dropped around the system calls that purge and hugify; grow_mtx         *)
(* serialises growth.  The small extent cache in front of the shard is a   *)
(* set of extents here: what it hands out, keeps and gives back is any     *)
(* choice that module Sec permits.  Time is left out: whether the purge    *)
(* interval and the hugification delay have passed is any choice.          *)
(***************************************************************************)
EXTENDS Psset

CONSTANTS
    Threads,
    Edatas,             \* the descriptors the shard's edata cache can supply
    NULL,
    MaxOps,             \* operations of deferred work that is not forced
    BatchMax,           \* HPA_PURGE_BATCH_MAX
    RangeWatermark,     \* hpa_process_madvise_max_iovec_len()
    Options             \* the configurations to consider: a set of Option records

HugifyThreshold == opt.hugifyThreshold
PurgeThreshold == opt.purgeThreshold

FaultChoices == {"register_fails", "central_fails"}

\* A configuration.  trim: sec opts.experimental_trim; startHuge: new slabs count
\* as huge (eager, or THP always); manualHugify: hugify_style lazy, or
\* hugify_sync or enforced; assumeHuge: hugify_style eager or none; dirtyMult:
\* dirty_mult as << numerator, denominator >>; deferral: deferral_allowed at
\* first; edenSlabs: HPA_EDEN_SIZE, in slabs; nallocs: the most extents to fill
\* the small extent cache with.  The rest bounds the environment: the sizes
\* that are requested, in pages, those that the SEC supports, what may fail,
\* and the age at which no allocation starts any more.
Option == [trim : BOOLEAN, startHuge : BOOLEAN, manualHugify : BOOLEAN,
           assumeHuge : BOOLEAN, deferral : BOOLEAN,
           dirtyMult : Nat \X (Nat \ {0}), edenSlabs : Nat \ {0},
           nallocs : Nat \ {0}, sizes : SUBSET Nat,
           secSizes : SUBSET Nat, faults : SUBSET FaultChoices,
           maxAge : Nat, threads : SUBSET Threads, pages : Nat \ {0},
           slabs : Nat \ {0}, classes : SUBSET (Nat \ {0}), classless : BOOLEAN,
           hugifyThreshold : Nat, purgeThreshold : Nat]

ASSUME HpaAssumption ==
    /\ NULL \notin Edatas
    /\ {MaxOps, BatchMax, RangeWatermark} \subseteq Nat \ {0}
    /\ \A o \in Options : /\ o \in Option
                         /\ o.secSizes \subseteq o.sizes /\ o.sizes \subseteq 1 .. o.pages
                         /\ {1, o.pages} \subseteq o.classes /\ o.classes \subseteq 1 .. o.pages

VARIABLES
    psset,          \* shard->psset with the metadata of its slabs
    mtx, growMtx,   \* the holders of shard->mtx and shard->grow_mtx, or NULL
    ageCounter,     \* shard->age_counter
    npending,       \* shard->npending_purge
    deferral,       \* shard->opts.deferral_allowed
    eden, mapped,   \* central: slabs left in eden; all mapped slabs
    edata, avail,   \* the extents, and the descriptors that are free
    live, sec,      \* extents of the application and of the SEC
    emap,           \* per slab and page: the descriptor of the leaf, or NULL
    resident,       \* per slab: pages the system backs with memory (ghost)
    th              \* per thread: registers

vars == << opt, psset, mtx, growMtx, ageCounter, npending, deferral, eden, mapped,
           edata, avail, live, sec, emap, resident, th >>

Nobody == NULL
NoExtent == [s |-> 0, begin |-> 0, n |-> 0]     \* a free descriptor

\* Registers: pc; k, what the call is; the request for between min and max
\* extents of n pages, those got so far, and whether it ran out of memory;
\* phase, the attempts made; s, offs, i and u, the slab at hand, the offsets to
\* allocate at, the progress and the psset update; age, for a new slab; e, an
\* extent to undo; list, extents to deallocate; items, the batch to purge;
\* total and nops, operations done; forced, whether there is no limit on them.
Idle == [pc |-> "idle", k |-> "none", n |-> 1, min |-> 1, max |-> 1,
         got |-> << >>, oom |-> FALSE, phase |-> 1, s |-> 0, offs |-> << >>,
         i |-> 0, u |-> [retained |-> FALSE, age |-> 0, ind |-> 0], age |-> 0,
         e |-> NULL, list |-> << >>, items |-> << >>, total |-> 0, nops |-> 0,
         forced |-> FALSE]

Init ==
    /\ opt \in Options
    /\ psset = psset_init
    /\ mtx = Nobody /\ growMtx = Nobody
    /\ ageCounter = 0 /\ npending = 0 /\ deferral = opt.deferral
    /\ eden = << >> /\ mapped = {}
    /\ edata = [e \in Edatas |-> NoExtent]
    /\ avail = Edatas
    /\ live = {} /\ sec = {}
    /\ emap = [s \in Slabs |-> [p \in Indices |-> NULL]]
    /\ resident = [s \in Slabs |-> {}]
    /\ th = [t \in Threads |-> Idle]

-----------------------------------------------------------------------------
(* Helpers *)

At(t, p) == th[t].pc = p
Goto(t, r) == th' = [th EXCEPT ![t] = r] /\ UNCHANGED opt

PagesOf(x) == Run(x.begin, x.n)

\* The leaves of the first and the last page of extent x.
Leaves(x, v) ==
    [emap EXCEPT ![x.s] = [@ EXCEPT ![x.begin] = v, ![x.begin + x.n - 1] = v]]

hpa_good_hugification_candidate(h) == h.nactive >= HugifyThreshold

\* A huge slab that is not empty is only split when that gains enough.
hpa_good_purge_candidate(h) ==
    LET ndirty == hpdata_ndirty_get(h) IN
    /\ ndirty > 0
    /\ hpdata_empty(h) \/ ~h.huge \/ ndirty >= PurgeThreshold

hpa_should_assume_huge(h) == opt.assumeHuge /\ h.purged_when_empty_and_huge

hpa_assume_huge(h) ==
    IF h.huge \/ hpdata_empty(h) \/ h.ntouched = HPages THEN h
    ELSE hpdata_hugify(h)

\* A slab once eligible for hugification stays so until it is empty or purged.
hpa_update_purge_hugify_eligibility(h) ==
    LET g == IF hpa_should_assume_huge(h) THEN hpa_assume_huge(h) ELSE h
        candidate == /\ opt.manualHugify /\ ~g.huge
                     /\ hpa_good_hugification_candidate(g)
        emptied == hpdata_empty(g) /\ ~hpa_should_assume_huge(g)
    IN IF hpdata_changing_state_get(h)
       THEN [h EXCEPT !.purge_allowed = FALSE, !.hugify_allowed = FALSE]
       ELSE [g EXCEPT !.purge_allowed = hpa_good_purge_candidate(g),
                      !.hugify_allowed = (@ \/ candidate) /\ ~emptied]

hpa_adjusted_ndirty(p, pending) == p.merged.ndirty - pending

hpa_ndirty_max(p) == (p.merged.nactive * opt.dirtyMult[1]) \div opt.dirtyMult[2]

hpa_hugify_blocked_by_ndirty(p, pending) ==
    \E s \in psset_pick_hugify(p) :
        hpa_adjusted_ndirty(p, pending) + hpdata_nretained_get(p.hp[s])
            > hpa_ndirty_max(p)

hpa_should_purge(p, pending) ==
    /\ psset_pick_purge(p) # {}
    /\ \/ hpa_adjusted_ndirty(p, pending) > hpa_ndirty_max(p)
       \/ hpa_hugify_blocked_by_ndirty(p, pending)

-----------------------------------------------------------------------------
(* Where a call goes when it gives up shard->mtx *)

(* Operators named X_<bug> are X with a bug that the properties must detect. *)

\* An allocation that has enough, or ran out of memory, finishes; otherwise it
\* tries again with grow_mtx, and then grows.
Filled(r) == Len(r.got) >= r.min \/ r.oom

Onward(r) ==
    CASE r.k = "alloc" /\ (Filled(r) \/ r.phase = 3) -> [r EXCEPT !.pc = "finish"]
      [] r.k = "alloc" /\ ~Filled(r) /\ r.phase = 1 -> [r EXCEPT !.pc = "growlock"]
      [] r.k = "alloc" /\ ~Filled(r) /\ r.phase = 2 -> [r EXCEPT !.pc = "grow"]
      [] r.k = "trim" -> [Idle EXCEPT !.pc = "trimmed", !.k = "forced", !.forced = TRUE]
      [] r.k = "destroy" -> [Idle EXCEPT !.pc = "destroy", !.k = "destroy"]
      [] r.k \in {"dalloc", "forced"} -> Idle

Unlock(t, r) ==
    /\ mtx' = Nobody
    /\ Goto(t, Onward(r))
    /\ growMtx' = IF growMtx = t /\ Onward(r).pc # "grow" THEN Nobody ELSE growMtx

\* hpa_shard_maybe_do_deferred_work(forced = false), at the end of a critical
\* section of an allocation or a deallocation.
MaybeWork(t, r) ==
    IF deferral THEN Unlock(t, r)
    ELSE /\ Goto(t, [r EXCEPT !.pc = "work", !.forced = FALSE])
         /\ mtx' = t
         /\ UNCHANGED growMtx

-----------------------------------------------------------------------------
(* Allocation *)

\* The bound on ages, and the callers' promise not to use a shard that is
\* being destroyed.
MayCall(t) == At(t, "idle") /\ \A u \in Threads : th[u].k # "destroy"

Young == ageCounter + Cardinality({u \in Threads : th[u].k = "alloc"}) < opt.maxAge

\* hpa_alloc: served by the SEC, or else (it may miss what other threads have
\* in their hands) by the psset.
hpa_alloc(t) ==
    /\ MayCall(t) /\ Young
    /\ \E n \in opt.sizes :
         \/ \E e \in sec :
              /\ n \in opt.secSizes /\ edata[e].n = n
              /\ sec' = sec \ {e} /\ live' = live \union {e}
              /\ UNCHANGED << opt, th >>
         \/ /\ Goto(t, [Idle EXCEPT !.pc = "lock", !.k = "alloc", !.n = n,
                                    !.min = IF n \in opt.secSizes THEN 2 ELSE 1,
                                    !.max = IF n \in opt.secSizes THEN opt.nallocs ELSE 1])
            /\ UNCHANGED << sec, live >>
    /\ UNCHANGED << psset, mtx, growMtx, ageCounter, npending, deferral, eden,
                    mapped, edata, avail, emap, resident >>

Lock(t) ==
    /\ At(t, "lock") /\ mtx = Nobody
    /\ mtx' = t
    /\ Goto(t, [th[t] EXCEPT !.pc = "batch"])
    /\ UNCHANGED << psset, growMtx, ageCounter, npending, deferral, eden, mapped,
                    edata, avail, live, sec, emap, resident >>

\* hpa_try_alloc_from_one_ps up to its loop.  An empty slab that is used again
\* is as young as a new one.
hpa_try_alloc_from_one_ps(t) ==
    LET r == th[t] IN
    /\ At(t, "batch")
    /\ \/ /\ psset_pick_alloc(psset, r.n) = {}
          /\ MaybeWork(t, r)
          /\ UNCHANGED << psset, ageCounter >>
       \/ \E s \in psset_pick_alloc(psset, r.n) :
            LET h == psset.hp[s]
                p == psset_alloc_update_begin(psset, s)
                offs == hpdata_find_alloc_offsets(h, r.n, r.max - Len(r.got))
            IN
            /\ psset' = IF hpdata_empty(h) THEN [p EXCEPT !.hp[s].age = ageCounter]
                        ELSE p
            /\ ageCounter' = IF hpdata_empty(h) THEN ageCounter + 1 ELSE ageCounter
            /\ Goto(t, [r EXCEPT !.pc = IF offs = << >> THEN "post" ELSE "offset",
                                 !.s = s, !.i = 0, !.offs = offs,
                                 !.u = AllocUpdate(h)])
            /\ UNCHANGED << mtx, growMtx >>
    /\ UNCHANGED << npending, deferral, eden, mapped, edata, avail, live, sec,
                    emap, resident >>

\* hpa_try_alloc_one_offset: no descriptor, or one whose boundary may fail to
\* register.  What is handed out will be written to.
hpa_try_alloc_one_offset(t) ==
    LET r == th[t]
        o == r.offs[r.i + 1]
        x == [s |-> r.s, begin |-> o.index, n |-> r.n]
    IN
    /\ At(t, "offset")
    /\ \/ /\ avail = {}
          /\ Goto(t, [r EXCEPT !.pc = "post", !.oom = TRUE])
          /\ UNCHANGED << psset, edata, avail, emap, resident >>
       \/ \E e \in avail :
            /\ psset' = [psset EXCEPT !.hp[r.s] =
                           hpdata_reserve_alloc_offset(@, r.n, o)]
            /\ edata' = [edata EXCEPT ![e] = x]
            /\ avail' = avail \ {e}
            /\ \/ /\ emap' = Leaves(x, e)
                  /\ resident' = [resident EXCEPT ![r.s] = @ \union PagesOf(x)]
                  /\ Goto(t, [r EXCEPT !.got = Append(@, e), !.i = @ + 1,
                                       !.pc = IF r.i + 1 = Len(r.offs)
                                              THEN "post" ELSE "offset"])
               \/ /\ "register_fails" \in opt.faults
                  /\ Goto(t, [r EXCEPT !.pc = "undo", !.e = e])
                  /\ UNCHANGED << emap, resident >>
    /\ UNCHANGED << mtx, growMtx, ageCounter, npending, deferral, eden, mapped,
                    live, sec >>

\* The error path of hpa_try_alloc_one_offset.
UndoOffset(t) ==
    LET r == th[t] IN
    /\ At(t, "undo")
    /\ psset' = [psset EXCEPT !.hp[r.s] =
                   hpdata_unreserve(@, edata[r.e].begin, r.n)]
    /\ avail' = avail \union {r.e}
    /\ edata' = [edata EXCEPT ![r.e] = NoExtent]
    /\ Goto(t, [r EXCEPT !.pc = "post", !.oom = TRUE, !.e = NULL])
    /\ UNCHANGED << mtx, growMtx, ageCounter, npending, deferral, eden, mapped,
                    live, sec, emap, resident >>

\* The rest of hpa_try_alloc_from_one_ps, and the loop around it in
\* hpa_try_alloc_batch_no_grow_locked.
PostReserve(t) ==
    LET r == th[t]
        h == hpa_update_purge_hugify_eligibility(
               hpdata_post_reserve_alloc_offsets(psset.hp[r.s], r.n,
                                                 SubSeq(r.offs, 1, r.i)))
        done == [r EXCEPT !.s = 0, !.offs = << >>, !.i = 0, !.u = Idle.u]
    IN
    /\ At(t, "post")
    /\ psset' = psset_alloc_update_end([psset EXCEPT !.hp[r.s] = h], r.s, r.u)
    /\ IF Filled(r) \/ r.i = 0
       THEN MaybeWork(t, done)
       ELSE Goto(t, [done EXCEPT !.pc = "batch"]) /\ UNCHANGED << mtx, growMtx >>
    /\ UNCHANGED << ageCounter, npending, deferral, eden, mapped, edata, avail,
                    live, sec, emap, resident >>

GrowLock(t) ==
    /\ At(t, "growlock") /\ growMtx = Nobody
    /\ growMtx' = t
    /\ Goto(t, [th[t] EXCEPT !.pc = "lock", !.phase = 2])
    /\ UNCHANGED << psset, mtx, ageCounter, npending, deferral, eden, mapped,
                    edata, avail, live, sec, emap, resident >>

\* shard->age_counter++ in hpa_alloc_batch_psset: a load and a store, without
\* shard->mtx.
AgeLoad(t) ==
    /\ At(t, "grow")
    /\ Goto(t, [th[t] EXCEPT !.pc = "agestore", !.age = ageCounter])
    /\ UNCHANGED << psset, mtx, growMtx, ageCounter, npending, deferral, eden,
                    mapped, edata, avail, live, sec, emap, resident >>

AgeStore(t) ==
    /\ At(t, "agestore")
    /\ ageCounter' = th[t].age + 1
    /\ Goto(t, [th[t] EXCEPT !.pc = "extract"])
    /\ UNCHANGED << psset, mtx, growMtx, npending, deferral, eden, mapped, edata,
                    avail, live, sec, emap, resident >>

\* The places where the map hook may put a new eden.
Edens == {b \in Slabs : b .. b + opt.edenSlabs - 1 \subseteq Slabs \ mapped}

hpa_central_extract_eden_kept(t) ==
    LET r == th[t]
        give(rest) == /\ eden' = rest
                      /\ Goto(t, [r EXCEPT !.pc = "insert", !.s = Head(rest)])
                      /\ UNCHANGED growMtx
    IN
    /\ At(t, "extract")
    /\ \/ eden # << >> /\ give(eden) /\ UNCHANGED mapped
       \/ \E b \in Edens :
            /\ eden = << >>
            /\ mapped' = mapped \union (b .. b + opt.edenSlabs - 1)
            /\ give([j \in 1 .. opt.edenSlabs |-> b + j - 1])
       \/ /\ (eden = << >> /\ Edens = {}) \/ "central_fails" \in opt.faults
          /\ growMtx' = Nobody
          /\ Goto(t, [r EXCEPT !.pc = "finish", !.oom = TRUE])
          /\ UNCHANGED << eden, mapped >>
    /\ UNCHANGED << psset, mtx, ageCounter, npending, deferral, edata, avail,
                    live, sec, emap, resident >>

\* hpa_central_extract, under the central mutex: carve a slab off eden, after
\* mapping a new one if there is none.
hpa_central_extract(t) ==
    LET r == th[t]
        give(rest) == /\ eden' = Tail(rest)
                      /\ Goto(t, [r EXCEPT !.pc = "insert", !.s = Head(rest)])
                      /\ UNCHANGED growMtx
    IN
    /\ At(t, "extract")
    /\ \/ eden # << >> /\ give(eden) /\ UNCHANGED mapped
       \/ \E b \in Edens :
            /\ eden = << >>
            /\ mapped' = mapped \union (b .. b + opt.edenSlabs - 1)
            /\ give([j \in 1 .. opt.edenSlabs |-> b + j - 1])
       \/ /\ (eden = << >> /\ Edens = {}) \/ "central_fails" \in opt.faults
          /\ growMtx' = Nobody
          /\ Goto(t, [r EXCEPT !.pc = "finish", !.oom = TRUE])
          /\ UNCHANGED << eden, mapped >>
    /\ UNCHANGED << psset, mtx, ageCounter, npending, deferral, edata, avail,
                    live, sec, emap, resident >>

InsertSlab(t) ==
    LET r == th[t] IN
    /\ At(t, "insert") /\ mtx = Nobody
    /\ mtx' = t
    /\ psset' = psset_insert(psset, r.s, hpdata_init(r.age, opt.startHuge))
    /\ Goto(t, [r EXCEPT !.pc = "batch", !.phase = 3, !.s = 0, !.age = 0])
    /\ UNCHANGED << growMtx, ageCounter, npending, deferral, eden, mapped, edata,
                    avail, live, sec, emap, resident >>

\* The end of hpa_alloc: the first extent is the result, the SEC takes as many
\* of the others as it has room for, and the rest goes back.
AllocFinish(t) ==
    LET r == th[t] IN
    /\ At(t, "finish")
    /\ \/ r.got = << >> /\ Goto(t, Idle) /\ UNCHANGED << live, sec >>
       \/ \E j \in 1 .. Len(r.got) :
            /\ live' = live \union {r.got[1]}
            /\ sec' = sec \union {r.got[i] : i \in 2 .. j}
            /\ Goto(t, IF j = Len(r.got) THEN Idle
                       ELSE [Idle EXCEPT !.pc = "prepare", !.k = "dalloc",
                                         !.list = SubSeq(r.got, j + 1, Len(r.got))])
    /\ UNCHANGED << psset, mtx, growMtx, ageCounter, npending, deferral, eden,
                    mapped, edata, avail, emap, resident >>

-----------------------------------------------------------------------------
(* Deallocation *)

DallocList(k, list) == [Idle EXCEPT !.pc = "prepare", !.k = k, !.list = list]

\* hpa_dalloc: the SEC keeps the extent, or else gives back extents of that
\* size, this one or others.
hpa_dalloc(t) ==
    /\ MayCall(t)
    /\ \E e \in live :
         LET cached == {x \in sec : edata[x].n = edata[e].n} IN
         /\ live' = live \ {e}
         /\ \/ /\ edata[e].n \in opt.secSizes
               /\ \E S \in SUBSET (cached \union {e}) :
                    /\ sec' = (sec \union {e}) \ S
                    /\ Goto(t, IF S = {} THEN Idle
                               ELSE DallocList("dalloc", SetToSeq(S)))
            \/ /\ edata[e].n \notin opt.secSizes
               /\ Goto(t, DallocList("dalloc", << e >>))
               /\ UNCHANGED sec
    /\ UNCHANGED << psset, mtx, growMtx, ageCounter, npending, deferral, eden,
                    mapped, edata, avail, emap, resident >>

\* hpa_shard_flush, and hpa_shard_disable but for its edata cache: all that the
\* SEC has goes back.
hpa_shard_flush(t) ==
    /\ MayCall(t)
    /\ sec' = {}
    /\ Goto(t, DallocList("dalloc", SetToSeq(sec)))
    /\ UNCHANGED << psset, mtx, growMtx, ageCounter, npending, deferral, eden,
                    mapped, edata, avail, live, emap, resident >>

hpa_dalloc_prepare_unlocked_last_forgotten(t) ==
    LET freed == {edata[e] : e \in ToSet(th[t].list)}
        ends(s) == {x.begin : x \in {y \in freed : y.s = s}}
    IN
    /\ At(t, "prepare")
    /\ emap' = [s \in Slabs |-> [p \in Indices |->
                  IF p \in ends(s) THEN NULL ELSE emap[s][p]]]
    /\ Goto(t, [th[t] EXCEPT !.pc = "dlock"])
    /\ UNCHANGED << psset, mtx, growMtx, ageCounter, npending, deferral, eden,
                    mapped, edata, avail, live, sec, resident >>

hpa_dalloc_prepare_unlocked(t) ==
    LET freed == {edata[e] : e \in ToSet(th[t].list)}
        ends(s) == UNION {{x.begin, x.begin + x.n - 1} : x \in {y \in freed : y.s = s}}
    IN
    /\ At(t, "prepare")
    /\ emap' = [s \in Slabs |-> [p \in Indices |->
                  IF p \in ends(s) THEN NULL ELSE emap[s][p]]]
    /\ Goto(t, [th[t] EXCEPT !.pc = "dlock"])
    /\ UNCHANGED << psset, mtx, growMtx, ageCounter, npending, deferral, eden,
                    mapped, edata, avail, live, sec, resident >>

\* What hpa_dalloc_locked does to the psset.
hpa_dalloc_locked(p, x) ==
    LET u == AllocUpdate(p.hp[x.s])
        q == psset_alloc_update_begin(p, x.s)
        h == hpa_update_purge_hugify_eligibility(
               hpdata_unreserve(q.hp[x.s], x.begin, x.n))
    IN psset_alloc_update_end([q EXCEPT !.hp[x.s] = h], x.s, u)

\* hpa_dalloc_batch from the lock to deferred work.
hpa_dalloc_batch(t) ==
    LET r == th[t] IN
    /\ At(t, "dlock") /\ mtx = Nobody
    /\ psset' = FoldLeft(LAMBDA p, e : hpa_dalloc_locked(p, edata[e]), psset, r.list)
    /\ avail' = avail \union ToSet(r.list)
    /\ edata' = [e \in Edatas |-> IF e \in ToSet(r.list) THEN NoExtent ELSE edata[e]]
    /\ MaybeWork(t, [r EXCEPT !.list = << >>])
    /\ UNCHANGED << ageCounter, npending, deferral, eden, mapped, live, sec,
                    emap, resident >>

-----------------------------------------------------------------------------
(* Deferred work *)

ForcedWork == [Idle EXCEPT !.pc = "work", !.k = "forced", !.forced = TRUE]

\* The SEC is trimmed first, without the mutex, by a background thread.
hpa_shard_do_deferred_work(t) ==
    /\ MayCall(t) /\ mtx = Nobody
    /\ \/ /\ deferral /\ opt.trim
          /\ \E S \in SUBSET sec :
               /\ sec' = sec \ S
               /\ Goto(t, IF S = {} THEN [ForcedWork EXCEPT !.pc = "trimmed"]
                          ELSE DallocList("trim", SetToSeq(S)))
          /\ UNCHANGED mtx
       \/ /\ ~(deferral /\ opt.trim)
          /\ mtx' = t
          /\ Goto(t, ForcedWork)
          /\ UNCHANGED sec
    /\ UNCHANGED << psset, growMtx, ageCounter, npending, deferral, eden, mapped,
                    edata, avail, live, emap, resident >>

TrimmedLock(t) ==
    /\ At(t, "trimmed") /\ mtx = Nobody
    /\ mtx' = t
    /\ Goto(t, ForcedWork)
    /\ UNCHANGED << psset, growMtx, ageCounter, npending, deferral, eden, mapped,
                    edata, avail, live, sec, emap, resident >>

hpa_shard_set_deferral_allowed(t) ==
    /\ MayCall(t) /\ mtx = Nobody
    /\ deferral' = ~deferral
    /\ \/ deferral /\ mtx' = t /\ Goto(t, ForcedWork)
       \/ ~deferral /\ UNCHANGED << opt, mtx, th >>
    /\ UNCHANGED << psset, growMtx, ageCounter, npending, eden, mapped, edata,
                    avail, live, sec, emap, resident >>

\* hpa_shard_maybe_do_deferred_work: purge if the interval has passed, then
\* hugify.
DeferredWork(t) ==
    /\ At(t, "work")
    /\ \E pc \in {"purge", "hugify"} : Goto(t, [th[t] EXCEPT !.pc = pc])
    /\ UNCHANGED << psset, mtx, growMtx, ageCounter, npending, deferral, eden,
                    mapped, edata, avail, live, sec, emap, resident >>

hpa_needs_dehugify(h) == opt.manualHugify /\ h.huge /\ ~hpdata_empty(h)

PurgeStart_alloc_allowed(p, s) ==
    LET q == psset_update_begin(p, s)
        x == [q EXCEPT !.hp[s].mid_purge = TRUE, !.hp[s].purge_allowed = FALSE,
                       !.hp[s].hugify_allowed = FALSE]
    IN psset_update_end(x, s)

\* The slab s after it was put in the batch ...
PurgeStart(p, s) ==
    LET q == psset_update_begin(p, s)
        x == [q EXCEPT !.hp[s].mid_purge = TRUE, !.hp[s].purge_allowed = FALSE,
                       !.hp[s].hugify_allowed = FALSE,
                       !.hp[s].alloc_allowed = FALSE]
        y == psset_update_end(x, s)
    IN [y EXCEPT !.hp[s].purged_when_empty_and_huge =
            (y.hp[s].huge /\ hpdata_empty(y.hp[s]))]

hpa_purge_finish_hp_begun_late(p, item) ==
    LET h == hpdata_purge_end(hpdata_dehugify(p.hp[item.s]), item)
        g == hpa_update_purge_hugify_eligibility(
               [h EXCEPT !.mid_purge = FALSE, !.alloc_allowed = TRUE])
    IN psset_update_end(
           psset_update_begin([p EXCEPT !.hp[item.s] = g], item.s), item.s)

hpa_purge_finish_hp_alloc_forbidden(p, item) ==
    LET q == psset_update_begin(p, item.s)
        h == hpdata_purge_end(hpdata_dehugify(q.hp[item.s]), item)
        g == hpa_update_purge_hugify_eligibility([h EXCEPT !.mid_purge = FALSE])
    IN psset_update_end([q EXCEPT !.hp[item.s] = g], item.s)

\* ... and after it was purged.
hpa_purge_finish_hp(p, item) ==
    LET q == psset_update_begin(p, item.s)
        h == hpdata_purge_end(hpdata_dehugify(q.hp[item.s]), item)
        g == hpa_update_purge_hugify_eligibility(
               [h EXCEPT !.mid_purge = FALSE, !.alloc_allowed = TRUE])
    IN psset_update_end([q EXCEPT !.hp[item.s] = g], item.s)

hpa_batch_full(r) ==
    \/ ~r.forced /\ r.total = MaxOps
    \/ Len(r.items) = BatchMax
    \/ FoldLeft(LAMBDA a, item : a + item.nranges, 0, r.items) >= RangeWatermark

ndirty_in_batch(items) == FoldLeft(LAMBDA a, item : a + item.ndirty, 0, items)

\* hpa_purge: fill a batch (hpa_purge_start_hp), and drop the mutex to purge
\* it, or stop when there is nothing in it.  Operations that are forced are not
\* counted beyond the first, because nothing depends on their number.
hpa_purge(t) ==
    LET r == th[t] IN
    /\ At(t, "purge")
    /\ \/ \E s \in psset_pick_purge(psset) :
            LET purge == hpdata_purge_begin(psset.hp[s]) IN
            /\ ~hpa_batch_full(r) /\ hpa_should_purge(psset, npending)
            /\ psset' = PurgeStart(psset, s)
            /\ npending' = npending + purge.ndirty
            /\ Goto(t, [r EXCEPT !.items = Append(@,
                          [s |-> s, to_purge |-> purge.to_purge,
                           ndirty |-> purge.ndirty, nranges |-> purge.nranges,
                           dehugify |-> hpa_needs_dehugify(psset.hp[s])]),
                        !.total = IF r.forced THEN 1 ELSE @ + 1])
            /\ UNCHANGED mtx
       \/ /\ hpa_batch_full(r) \/ ~hpa_should_purge(psset, npending)
          /\ IF r.items = << >>
             THEN Goto(t, [r EXCEPT !.pc = "purged"]) /\ UNCHANGED mtx
             ELSE Goto(t, [r EXCEPT !.pc = "madvise"]) /\ mtx' = Nobody
          /\ UNCHANGED << psset, npending >>
    /\ UNCHANGED << growMtx, ageCounter, deferral, eden, mapped, edata, avail, live,
                    sec, emap, resident >>

\* hpa_purge_batch, without the mutex.
hpa_purge_batch(t) ==
    LET r == th[t]
        purged(s) == UNION {x.to_purge : x \in {y \in ToSet(r.items) : y.s = s}}
    IN
    /\ At(t, "madvise")
    /\ resident' = [s \in Slabs |-> resident[s] \ purged(s)]
    /\ Goto(t, [r EXCEPT !.pc = "purgelock"])
    /\ UNCHANGED << psset, mtx, growMtx, ageCounter, npending, deferral, eden,
                    mapped, edata, avail, live, sec, emap >>

PurgeFinish_pending_kept(t) ==
    LET r == th[t] IN
    /\ At(t, "purgelock") /\ mtx = Nobody
    /\ mtx' = t
    /\ UNCHANGED npending
    /\ psset' = FoldLeft(hpa_purge_finish_hp, psset, r.items)
    /\ Goto(t, [r EXCEPT !.pc = "purge", !.items = << >>])
    /\ UNCHANGED << growMtx, ageCounter, deferral, eden, mapped, edata, avail, live,
                    sec, emap, resident >>

PurgeFinish(t) ==
    LET r == th[t] IN
    /\ At(t, "purgelock") /\ mtx = Nobody
    /\ mtx' = t
    /\ npending' = npending - ndirty_in_batch(r.items)
    /\ psset' = FoldLeft(hpa_purge_finish_hp, psset, r.items)
    /\ Goto(t, [r EXCEPT !.pc = "purge", !.items = << >>])
    /\ UNCHANGED << growMtx, ageCounter, deferral, eden, mapped, edata, avail, live,
                    sec, emap, resident >>

\* The end of hpa_purge.
PassDone(t) ==
    /\ At(t, "purged")
    /\ Goto(t, [th[t] EXCEPT !.pc = "hugify", !.total = 0,
                             !.nops = IF th[t].forced THEN 0 ELSE @ + th[t].total])
    /\ UNCHANGED << psset, mtx, growMtx, ageCounter, npending, deferral, eden,
                    mapped, edata, avail, live, sec, emap, resident >>

HugifyStart(p, s) ==
    LET q == psset_update_begin(p, s)
        x == [q EXCEPT !.hp[s].mid_hugify = TRUE, !.hp[s].purge_allowed = FALSE,
                       !.hp[s].hugify_allowed = FALSE]
    IN psset_update_end(x, s)

HugifyFinish(p, s) ==
    LET q == psset_update_begin(p, s)
        h == [hpdata_hugify(q.hp[s]) EXCEPT !.mid_hugify = FALSE]
    IN psset_update_end(
           [q EXCEPT !.hp[s] = hpa_update_purge_hugify_eligibility(h)], s)

\* hpa_try_hugify up to the system call; the slab at the head of the list may
\* not have been there for long enough.
hpa_try_hugify(t) ==
    LET r == th[t] IN
    /\ At(t, "hugify")
    /\ \/ \E s \in psset_pick_hugify(psset) :
            /\ ~hpa_hugify_blocked_by_ndirty(psset, npending)
            /\ psset' = HugifyStart(psset, s)
            /\ mtx' = Nobody
            /\ Goto(t, [r EXCEPT !.pc = "hugifying", !.s = s])
            /\ UNCHANGED growMtx
       \/ Unlock(t, [r EXCEPT !.nops = 0]) /\ UNCHANGED psset
    /\ UNCHANGED << ageCounter, npending, deferral, eden, mapped, edata, avail,
                    live, sec, emap, resident >>

\* The system backs the slab with a hugepage, or does not.
HugifyCall(t) ==
    /\ At(t, "hugifying")
    /\ \E pages \in {Indices, resident[th[t].s]} :
         resident' = [resident EXCEPT ![th[t].s] = pages]
    /\ Goto(t, [th[t] EXCEPT !.pc = "hugifylock"])
    /\ UNCHANGED << psset, mtx, growMtx, ageCounter, npending, deferral, eden,
                    mapped, edata, avail, live, sec, emap >>

HugifyEnd(t) ==
    LET r == th[t] IN
    /\ At(t, "hugifylock") /\ mtx = Nobody
    /\ psset' = HugifyFinish(psset, r.s)
    /\ IF r.forced \/ r.nops < MaxOps
       THEN /\ mtx' = t
            /\ Goto(t, [r EXCEPT !.pc = "hugify", !.s = 0,
                                 !.nops = IF r.forced THEN 0 ELSE @ + 1])
            /\ UNCHANGED growMtx
       ELSE Unlock(t, [r EXCEPT !.nops = 0, !.s = 0])
    /\ UNCHANGED << ageCounter, npending, deferral, eden, mapped, edata, avail,
                    live, sec, emap, resident >>

-----------------------------------------------------------------------------
(* Destruction *)

\* hpa_shard_destroy: the arena has deallocated everything, and nobody else
\* uses the shard.
hpa_shard_destroy(t) ==
    /\ live = {} /\ \A u \in Threads : At(u, "idle")
    /\ sec' = {}
    /\ Goto(t, DallocList("destroy", SetToSeq(sec)))
    /\ UNCHANGED << psset, mtx, growMtx, ageCounter, npending, deferral, eden,
                    mapped, edata, avail, live, emap, resident >>

DestroySlab(t) ==
    /\ At(t, "destroy")
    /\ \E s \in psset_pick_alloc(psset, 1) :
         /\ psset' = psset_remove(psset, s)
         /\ mapped' = mapped \ {s}
         /\ resident' = [resident EXCEPT ![s] = {}]
    /\ UNCHANGED << mtx, growMtx, ageCounter, npending, deferral, eden, edata,
                    avail, live, sec, emap, th, opt >>

\* The arena's index may be used again, with a new shard.
DestroyDone(t) ==
    /\ At(t, "destroy") /\ psset_pick_alloc(psset, 1) = {}
    /\ psset' = psset_init
    /\ ageCounter' = 0 /\ deferral' = opt.deferral
    /\ Goto(t, Idle)
    /\ UNCHANGED << mtx, growMtx, npending, eden, mapped, edata, avail, live, sec,
                    emap, resident >>

-----------------------------------------------------------------------------

\* What a thread does on its own once a call has started.
Step(t) ==
    \/ Lock(t) \/ hpa_try_alloc_from_one_ps(t) \/ hpa_try_alloc_one_offset(t)
    \/ UndoOffset(t) \/ PostReserve(t) \/ GrowLock(t) \/ AgeLoad(t) \/ AgeStore(t)
    \/ hpa_central_extract(t) \/ InsertSlab(t) \/ AllocFinish(t)
    \/ hpa_dalloc_prepare_unlocked(t) \/ hpa_dalloc_batch(t)
    \/ TrimmedLock(t) \/ DeferredWork(t) \/ hpa_purge(t) \/ hpa_purge_batch(t)
    \/ PurgeFinish(t) \/ PassDone(t) \/ hpa_try_hugify(t) \/ HugifyCall(t)
    \/ HugifyEnd(t) \/ DestroySlab(t) \/ DestroyDone(t)

Call(t) ==
    \/ hpa_alloc(t) \/ hpa_dalloc(t) \/ hpa_shard_flush(t)
    \/ hpa_shard_do_deferred_work(t) \/ hpa_shard_set_deferral_allowed(t)
    \/ hpa_shard_destroy(t)

Next == \E t \in opt.threads : Call(t) \/ Step(t)

Spec == Init /\ [][Next]_vars

-----------------------------------------------------------------------------
(* Properties *)

\* Type correctness of the shard, the central allocator and the registers.
TypeOK ==
    /\ opt \in Options
    /\ psset.hp \in [Slabs -> Hpdata] /\ psset.members \subseteq mapped
    /\ {mtx, growMtx} \subseteq Threads \union {Nobody}
    /\ {ageCounter, npending} \subseteq Nat /\ deferral \in BOOLEAN
    /\ ToSet(eden) \subseteq mapped \ psset.members /\ mapped \subseteq Slabs
    /\ avail \subseteq Edatas /\ live \subseteq Edatas /\ sec \subseteq Edatas
    /\ emap \in [Slabs -> [Indices -> Edatas \union {NULL}]]
    /\ resident \in [Slabs -> SUBSET Indices]
    /\ \A t \in Threads : /\ th[t].n \in 1 .. HPages
                          /\ Len(th[t].got) <= th[t].max

\* The extents that a call has in its hands, and all that are allocated.
Hands(t) == ToSet(th[t].got) \union ToSet(th[t].list) \union ({th[t].e} \ {NULL})

Owned == live \union sec \union UNION {Hands(t) : t \in Threads}

\* The metadata of every slab that is not being updated passes the checks of
\* hpdata_consistent: the counters and the longest free range, which every
\* operation adjusts incrementally, are what the bitmaps say.
SlabsConsistent ==
    \A s \in psset.members : ~psset.hp[s].updating => hpdata_consistent(psset.hp[s])

\* Every descriptor has exactly one owner (the edata cache, the application, the
\* SEC or one call), the extents of a slab are disjoint, and together they are
\* exactly its active pages, whatever allocation, deallocation, rollback, cache
\* flush, purging and hugification are going on at once.  The leaves of the emap
\* are those of the allocated extents: they are cleared, without the mutex,
\* before the pages can be handed out again.
ExtentsExact ==
    LET registered == live \union sec \union
            UNION {ToSet(th[t].got) \union
                   (IF At(t, "prepare") THEN ToSet(th[t].list) ELSE {}) : t \in Threads}
        ends(e) == {<< edata[e].s, edata[e].begin >>,
                    << edata[e].s, edata[e].begin + edata[e].n - 1 >>}
    IN
    /\ avail \cap Owned = {} /\ avail \union Owned = Edatas /\ live \cap sec = {}
    /\ \A t \in Threads : /\ Hands(t) \cap (live \union sec) = {}
                          /\ \A u \in Threads \ {t} : Hands(t) \cap Hands(u) = {}
    /\ \A s \in psset.members :
         LET here == {e \in Owned : edata[e].s = s} IN
         /\ psset.hp[s].active = UNION {PagesOf(edata[e]) : e \in here}
         /\ \A e, f \in here : e # f => PagesOf(edata[e]) \cap PagesOf(edata[f]) = {}
    /\ \A e \in registered : \A x \in ends(e) : emap[x[1]][x[2]] = e
    /\ \A s \in Slabs, p \in Indices : emap[s][p] # NULL =>
         emap[s][p] \in registered /\ << s, p >> \in ends(emap[s][p])

\* While the mutex is dropped to purge a batch, none of the pages about to be
\* purged belongs to an extent: what the application wrote is never discarded.
\* No slab is in two batches.
PurgeSafe ==
    \A t \in Threads : \A i \in DOMAIN th[t].items :
        LET item == th[t].items[i] IN
        /\ item.to_purge \cap psset.hp[item.s].active = {}
        /\ psset.hp[item.s].mid_purge /\ ~psset.hp[item.s].mid_hugify
        /\ \A u \in Threads : \A j \in DOMAIN th[u].items :
             th[u].items[j].s = item.s => u = t /\ j = i

\* hpa_adjusted_ndirty never wraps around: whenever a thread may evaluate it,
\* the dirty pages of the psset include those that are pending, and these are
\* the ones of the batches.
AdjustedDirtyNatural ==
    /\ npending = MapThenSumSet(LAMBDA t : ndirty_in_batch(th[t].items), Threads)
    /\ \A t \in Threads : At(t, "work") \/ At(t, "purge") \/ At(t, "hugify") =>
         npending <= psset.merged.ndirty

\* The pages that the system backs with memory are known to be touched, so
\* that purging can get at them, unless a hugification is on its way.
ResidentTouched ==
    \A s \in psset.members :
        psset.hp[s].mid_hugify \/ resident[s] \subseteq psset.hp[s].touched

\* Between updates every slab is in exactly the containers that its metadata
\* calls for, once: the right heap or the list of empty slabs if it may serve
\* allocations, the right purge list, the hugify list.
ContainersExact ==
    /\ \A s \in psset.members :
         LET h == psset.hp[s]
             times(seq) == Cardinality({i \in DOMAIN seq : seq[i] = s})
             once(b) == IF b THEN 1 ELSE 0
         IN
         /\ h.in_alloc = h.alloc_allowed
         /\ \A i \in HeapInds : s \in psset.heap[i] <=>
                /\ h.alloc_allowed /\ ~hpdata_empty(h) /\ ~hpdata_full(h)
                /\ i = psset_hpdata_heap_index(h)
         /\ times(psset.empty) = once(h.alloc_allowed /\ hpdata_empty(h))
         /\ \A i \in PurgeInds : times(psset.to_purge[i]) =
                once(h.purge_allowed /\ i = psset_purge_list_ind(h))
         /\ times(psset.to_hugify) = once(h.hugify_allowed)
    /\ (UNION Range(psset.heap)) \union ToSet(psset.empty)
         \union ToSet(psset.to_hugify)
         \union (UNION {ToSet(psset.to_purge[i]) : i \in PurgeInds})
           \subseteq psset.members

\* The statistics, from which the purging decisions are made, are the sums over
\* the slabs, in total and by fullness and hugeness.
StatsExact ==
    LET total(S) ==
            [npageslabs |-> Cardinality(S),
             nactive |-> MapThenSumSet(LAMBDA s : Cardinality(psset.hp[s].active), S),
             ndirty |-> MapThenSumSet(LAMBDA s :
                 Cardinality(psset.hp[s].touched \ psset.hp[s].active), S)]
    IN /\ psset.merged = total(psset.members)
       /\ \A k \in DOMAIN psset.bin :
            psset.bin[k] = total({s \in psset.members : StatsKey(psset.hp[s]) = k})

\* Whenever shard->mtx is free, the containers and the statistics of the psset,
\* which every update moves and adjusts one by one, are what the metadata of
\* the slabs calls for.
PssetExact == mtx = Nobody => ContainersExact /\ StatsExact

\* psset_pick_alloc, which only knows size classes, never picks a slab without
\* room for the request (assertion in hpdata_find_alloc_offsets).
PickFits == \A t \in Threads : At(t, "offset") \/ At(t, "post") => th[t].offs # << >>

\* An allocation that could grow the shard gets something, whoever else was
\* waiting for memory: the new slab cannot be taken away before it is used.
GrowthServes ==
    \A t \in Threads :
        At(t, "finish") /\ th[t].phase = 3 /\ ~th[t].oom => th[t].got # << >>

\* A shard that is destroyed leaves no slab mapped but those still in eden.
DestroyComplete ==
    \A t \in Threads : At(t, "destroy") /\ psset_pick_alloc(psset, 1) = {} =>
        psset.members = {} /\ mapped = ToSet(eden)

\* hpdata.c, above the comparison of ages: "hpdata ages are operation counts in
\* the psset; no two should be the same."
AgesDistinct ==
    \A i \in HeapInds : \A a, b \in psset.heap[i] :
        a # b => psset.hp[a].age # psset.hp[b].age
=============================================================================
