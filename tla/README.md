# A TLA+ verification of jemalloc

This directory models the allocator at the level at which its correctness is
decided: which thread owns which pointer, page and descriptor at every moment,
which lock protects what, what a failed system call or a failed metadata
allocation leaves behind, and which counters later decisions depend on.
Names follow the source; `PROJECT.json` maps each definition to the lines it
models.

## The system

An application calls `malloc` and `free` on many threads.  A request passes
through layers, each with its own state and its own locks.

| layer | state | operations | what is hard | what makes it correct |
|---|---|---|---|---|
| thread cache (`tcache.c`, `cache_bin.h`) | per size class a stack of pointers, stashed pointers, low water mark, adaptive targets | allocate, free, fill, flush, garbage collection | positions are 16 bit and wrap; a fill or flush is interrupted by other threads at every bin lock | a pointer has one owner; a full bin always gets room |
| bins (`bin.c`, `arena.c`) | current slab, heap of nonfull slabs, full list, bitmaps, statistics | fill, free a batch, bring a slab, reset | a slab is allocated without the bin lock; unsigned tricks decide when a slab becomes empty | a slab is where its bitmap says |
| large extents (`large.c`) | the list of a manual arena | allocate, free in two phases | preparing under a lock and finishing outside | the list is exact |
| page allocator cache (`pac.c`, `extent.c`, `ecache.c`, `eset.c`) | dirty, muzzy, retained and pinned extents; growth policy; page counters | allocate, expand, shrink, free, decay | coalescing inspects neighbours that another lock protects; every hook and every descriptor allocation may fail half way | extents are disjoint and fully merged; pages are counted once; memory is what was asked for |
| extent map (`emap.c`, `rtree.c`) | a leaf for the first and last page of each extent | register, split, merge, test a neighbour | several words, written one at a time | a leaf is never believed about an extent that is not there |
| small extent cache (`sec.c`) | shards of bins with byte counts and low water marks | allocate, free, fill, flush, trim | locks are tried before they are waited for; a fill arrives late | byte counts are exact and bounded |
| huge page allocator (`hpa.c`, `hpdata.c`, `psset.c`, `hpa_central.c`) | slabs with active and touched pages, allocation heaps, purge and hugify lists, ages | batched allocation with growth, free, purge, hugify, destroy | the shard mutex is dropped around every system call and every growth | what is being purged is not handed out; every index agrees with every slab |
| descriptors and metadata (`edata_cache.c`, `base.c`, `rtree.c`) | free descriptors, blocks of metadata, nodes of the radix tree | get, put, bump allocation, insertion of nodes | runs dry in the middle of an operation; locks are dropped to map a block; readers take no lock | no piece of metadata is in two places; a lookup finds what was written |
| dss (`extent_dss.c`) | the program break, gaps | extend | others move the break at any time | no byte is given out twice |
| threads (`tsd.c`, `thread_event.c`) | thread state, byte counters, next events | first use, events, exit, reincarnation | re-entry during setup, handlers and teardown; counters wrap | no event is skipped, nothing is left behind |
| arenas and background threads (`arenas_management.c`, `background_thread.c`, `jemalloc_fork.c`) | arena table, thread counts, states of background threads | create, choose, migrate, reset, destroy, enable, disable, fork | threads that start, pause and join each other; a child with one thread | counts are exact, no reset meets a worker, every call returns |
| initialisation (`jemalloc_init.c`, `percpu_arena.c`) | stages, the initialising thread, the map of CPUs | first calls of all threads | the initialiser allocates half way, with the lock dropped | every stage runs once, nobody goes on too early |
| profiler (`prof*.c`) | backtrace contexts shared by threads, recent allocations | sample, free, dump, reset | objects that several threads may free | a context lives while something refers to it |
| public functions (`jemalloc.c`, `sz.h`, `sc.c`) | none beyond the object | allocate, resize, sized free | overflow at both ends; a class recomputed from what the caller says | what is returned is what was asked for, and is freed from its own class |
| structures (`rb.h`, `ph.h`, `bitmap.h`, `fb.h`, `ckh.c`, `decay.c`) | trees, heaps, bitmaps, hash table, backlog | insert, remove, search, iterate, tick | long sequences of calls; loops that must end | they answer as the set they stand for |
| control, options, output (`ctl.c`, `conf.c`, `emitter.h`, `buf_writer.c`) | a tree of accessors, snapshots, option values, buffers | look up, refresh, parse, print | indices that are used again; values at the edge of a type; a full buffer | reports agree with the state, text says what was meant |

`PROJECT.json` lists all 44 components with what is and is not modelled, and the
hazards of the code at the lines where they bite.

## Modules

| module | models | kind |
|---|---|---|
| `Emap` | descriptors, boundary leaves, the order of leaf writes, the neighbour test | operators |
| `Pac` | `extent.c`, `pac.c`, `ecache.c`, the hooks: allocation, expansion, shrinking, deallocation, growth and both decay phases, step by step between lock operations and leaf writes | state machine |
| `Sec` | `sec.c`: the walk over the shards, fill, flush, trim | state machine |
| `SecProofs` | the inductive invariant of `Sec` and its consequences | proofs |
| `Hpdata` | one huge page: page sets, longest free range, purge and hugify state | operators |
| `Psset` | heaps, lists and statistics of a set of huge pages | operators |
| `Hpa` | `hpa.c` and `hpa_central.c`: one shard and its threads | state machine |
| `Bin` | one bin of an arena under its lock | operators |
| `CacheBin` | one cache bin of a tcache and its adaptive targets | operators |
| `Tcache` | `tcache.c`, `arena.c`, `large.c`: the calls of threads | state machine |
| `Prof` | `prof_data.c`, `prof_recent.c` and the parts of `prof.c` and `prof_inlines.h` that use them | state machine |
| `Background` | `background_thread.c`, `arenas_management.c`, the arena calls of `ctl.c`, `jemalloc_fork.c` | state machine |
| `Boot` | `jemalloc_init.c`, `percpu_arena.c` | state machine |
| `Dss` | `extent_dss.c` and the other users of `sbrk` | state machine |
| `CuckooHash` | `ckh.c`, one step per eviction | state machine |
| `KeySet` | what a caller of `ckh.c` may rely on | abstract specification |
| `Rtree` | `rtree.c`, `rtree.h`: node creation, lookups without locks, lookup caches | state machine |
| `Base` | `base.c`: blocks, bump allocation, thread cache stacks | state machine |
| `Tsd` | `tsd.c`, `tsd.h`, `thread_event.c`: one thread from its first call to its last destructor | state machine |
| `Ctl` | `ctl.c`: names and MIBs, the snapshot of statistics | state machine |
| `Conf` | `conf.c` and `malloc_strtoumax` | state machine |
| `Output` | `emitter.h`, `buf_writer.c` | state machine |
| `Entry` | the public functions of `jemalloc.c` and the in-place resize below them | state machine |
| `Decay` | `decay.c`, `nstime.c` | state machine |
| `Sizes`, `BitUtil` | `sc.c`, `sc.h`, `sz.c`, `sz.h`, `div.c`; `bit_util.h`, at the width of a word | operators |
| `Bitmaps` | `bitmap.c`, `bitmap.h`, `fb.h` | operators and a state machine |
| `RbTree`, `PairingHeap` | `rb.h`, `ph.h`, pointer by pointer | operators and a state machine |
| `OrderedSet` | what a caller of `ph.h` may rely on | abstract specification |
| `MCPac`, `MCHpa`, `MCTcache`, `MCProf` | instances for TLC | options |
| `MCStructures` | the components whose calls do not wait: one of them per behaviour | options |
| `MCProgress` | the components whose calls wait, spin or loop: one of them per behaviour | options, fairness |

The operator modules are pure functions from the state that a lock protects to
the state that the function of that name leaves; the state machines decide where
a lock is released, and so where other threads may come in between.

### How state and actions correspond to the code

*Options.*  `Pac`, `Hpa`, `Tcache` and `Prof` have a variable `opt` that is chosen once in
`Init` from the constant `Options` and never changes: boot options and bounds.
One run thus covers several configurations, each small.

*Threads.*  A thread is a record with what the C function keeps in local variables
(`th[t]`), and either a program counter or the list of operations left to do.  The
whole handler is a chain of steps that starts at an idle thread and ends at one.
Mutexes are owners (`Pac`, `Sec`, `Hpa`) where a thread holds one across steps; a
critical section that calls nothing else is a single step (`Tcache`, `Prof`).

*`Pac`.*  `eset` maps every ecache to the sequence of its extents in LRU order,
`edata` holds the descriptors, `leaf` the emap leaves, `avail` the free descriptors
of the edata cache, `live` what the layer above owns.  A leaf write is a step.
`Lock`/`Unlock` of an ecache and of `grow_mtx` are steps.  Coalescing
(`extent_try_coalesce_impl`) is the loop over both directions with the neighbour
test, the removal from the eset and the merge; a failed merge hook puts the
neighbour back.  Growth follows the exponential policy (`exp_grow`), splits off lead
and trail and records them.

*`Hpa`.*  A slab has the sets `active` and `touched`; a ghost set `resident` says
which pages the kernel backs.  Purging is modelled in its three parts: the slab is
taken out of all lists under the mutex, the pages are purged without it, the slab
is put back.  The age counter, which two paths increment under different locks, is
read and written in two steps.

*`Tcache`.*  `todo` is the list of operations of a call: a miss is `stashed`,
`refill`, `finish_fill`; an overflow is `stashed`, `bottom`, `dalloc`.  `Refill` is
the whole loop under the bin lock; when it runs out of slabs, `SlabAlloc` follows
without the lock and `Refill` runs again.  A flush partitions its batch by owner with
the swaps of the code (`Partition`) and frees one owner per step.  The pointers in
flight are kept in `batch`, `ptrs`, `ptr`, and so always have an owner.

*`Prof`.*  `th[t].stack` is the stack of functions that a call still has to execute, so
that a function that several others call (`prof_tdata_get`, `prof_lookup`,
`prof_tctx_try_destroy`) is modelled once; `ret` is the tctx that the last one returned.
A structure that was freed is `NULL` and its memory is used again.  A dump is its real
sequence of passes over the gctxs and the tdatas, one element per step, with the
mutexes it holds.  Where the code takes `tdata->lock`, `gctx->lock` or
`prof_recent_alloc_mtx` again, a step ends.

*`Background`.*  `app[t].call` is the call an application thread is in, `worker[w]` a
background thread: its state, whether it waits on its condition variable, whether it
has been created and joined.  A step ends where a lock is dropped or waited for, and
before a value that another thread may change is read without a lock (`enabled`, the
number of threads, the table of arenas).  `background_thread_creation` by thread 0,
with the mutex dropped in between, the joins of a disable, and the pause around
`arena.<i>.reset` and `destroy` are sequences of such steps.

*`Boot`.*  A call is `malloc_init`; the initialiser's own allocation half way is a nested
call.  The phases are counted when they run.  `Spin` is the loop that releases and takes
`init_lock`.

*`CuckooHash`.*  `job` is the call in progress; every eviction is a step and the cell the
random generator picks a free choice.  `CkhIsKeySet` is the refinement: a step that
ends a call is a step of `KeySet`, the others stutter.

*`RbTree`, `PairingHeap`.*  The links of all nodes as the code keeps them, and the
algorithms on them with their paths and auxiliary lists.  The answers of every search
are compared with those of a sorted set (`RbAnswers`, `RbFilteredAnswers`); `ph.h` is
shown to implement `OrderedSet` (`PhIsQueue`).

*`Sizes`, `BitUtil`, `Entry`.*  Numbers are words of 16 bits with a page of 64 bytes, and
every shift, product and sum wraps around as in the code.

*`Rtree`.*  A lookup without a lock descends step by step; a lookup of a key that its owner
is known to have written is one step.

### Abstractions

* Addresses are page or slab numbers, sizes are small numbers, size classes are
  one page apart.  First fit among equals is any extent that fits.
* `Pac`: one arena; SEC-cached extents count as live.  Left out: guarded extents
  and `san_bump`, failure to allocate rtree nodes, fresh mappings that are not
  committed, `pac_destroy` and reset, `split_will_fail`/`merge_will_fail`.  A batched
  allocation rounds up to the next even size.
* `Hpa`: the extent cache in front is a set; time is a free choice; heaps are sets
  ordered by age, bitmaps are read off the lists; purging a batch is one step and
  succeeds; the kernel does not make pages huge by itself; `dirty_mult = -1`, the
  other shards that share `hpa_central`, and fork are left out.
* `Tcache`: one small and one large class, two bin shards.  The page allocator is a
  pool.  Counters that only grow are left out (`nmalloc`, `ndalloc`, `nfills`,
  `nflushes`, `reslabs`); `nrequests` is kept where an option bounds the requests.
  Which pointers are stashed is decided by the region number in place of the
  alignment.  The caller's promise about `arena.<i>.reset` (nobody uses the arena,
  no tcache holds its pointers) is the guard of `Reset`.
* `Prof`: every allocation of the model is sampled, profiling stays active, and of the
  eight counters of a context, which change together, `curobjs` is kept.  Hash tables and
  trees are functions and sets, `bt2gctx` included.  Left out: the mutex tables, in which
  several contexts share a mutex, `enq` and the dumps that it puts off, re-entry from
  hooks, thread names (but not the creation of a tdata in order to set one), the log
  and fork.
* `Background`: what a worker does for an arena is one step that may be interrupted only
  by nobody, since the decay mutexes are those of `Pac`; which arenas have work is a free
  choice; signal masks and CPU affinity are left out.
* `Boot`: the boot functions of the components are phases that may fail.
* `Rtree`, `Base`, `Dss`, `Decay`, `Tsd`: addresses, sizes, times and byte counts are small
  numbers, the widths that matter are constants.  A handler of an event is what it
  does to the thread: it allocates or frees.
* `Ctl`: the tree has a leaf, a named and an indexed child of every sort, and one
  statistic of each kind, a counter and a gauge.  `Conf`: one option for each kind of
  handler.  `Output`: a token for each piece of punctuation, key, value and row; the calls
  are those that the nesting rules of the emitter allow.
* `Entry`: the arena below is a choice: it fails, or gives an address that suits.

## Runs

| run | question | result |
|---|---|---|
| `Pac_threads` | Do the threads that split, merge, grow, unmap and decay neighbouring extents under different locks ever confuse each other? | passes |
| `Pac_faults` | Does any failure of a hook or of the descriptor supply lose memory to two owners, mix pinned with other memory, or return memory that is not as requested? | passes |
| `Pac_salvage` | Is what is left after a failed split salvaged, as the comment says? | violated |
| `Sec_shards` | Are the byte counts and bounds of the extent cache exact under contention, and do all calls return? | passes |
| `Hpa_threads` | Do purging, hugification, growth and destruction with the mutex dropped ever touch a page in use, or leave an index wrong? | passes |
| `Hpa_frag` | Is the incrementally maintained longest free range that of the bitmap? | passes |
| `Hpa_ages` | Do two slabs ever get the same age? | violated |
| `Tcache_calls` | Does any interleaving of calls on shared bins lose, duplicate or strand a region or a slab, or make a cache bin's positions unsound, and do all calls return? | passes |
| `Tcache_reset` | Is the statistic of nonfull slabs that of the heap? | violated |
| `Prof_contexts` | Is a context ever freed while in use, counted wrongly, dumped inconsistently or leaked, when threads free each other's samples, exit, dump and reset? | passes |
| `Prof_reset` | Is a tdata destroyed once, when threads exit and `prof.reset` runs? | violated |

### Properties

`Pac`.  `OneOwner`: a descriptor is in one place, a page in one extent, and no extent
covers memory that was given back.  `EmapExact`: between leaf writes the leaves that a
lock protects are those of the extents there.  `AcquireSafe`: a neighbour that passes
the test is what the leaf said, and nobody else's.  `FullyCoalesced`: when all calls are over no
two cached neighbours could have been merged.  `MappedExact`: the page counters are
exact when all calls are over.  `PinnedApart`, `AllocHonest`, `ZeroedHonest`: pinned
memory is never purged, unmapped or mixed; a returned extent has the size, the
alignment and the committed state that was asked for; memory that is claimed to be
zero is.

`Sec`.  `BytesExact`, `PinnedExact`, `BytesBounded`, `LowWaterSafe`, `SecOneOwner` and the
liveness property `SecReturns`.

`Hpa`.  `PurgeSafe`: a page that is being purged is not active.  `ResidentTouched`:
every page the kernel backs is counted as touched.  `ExtentsExact`, `PssetExact`,
`AdjustedDirtyNatural`, `GrowthServes`, `DestroyComplete`, `SlabsConsistent`, `PickFits`.

`Tcache`.  `RegionOneOwner`: a region that a bitmap marks as allocated has exactly one
owner among the application, the tcaches and the calls under way.  `SlabsPlaced`: a
slab is current, in the heap, on the full list or in the hands of one thread, as its
bitmap says.  `BinStatsExact`: statistics, up to fills that dropped the lock, are
exact, and merging requests loses none.  `CacheBinSound`: positions, bounds and
adaptive targets.  `CallsReturn`: every call returns.

`Prof`.  `ContextsLive`: whatever refers to a gctx, tctx or tdata (an object, a record, a
call under way, a table) finds it alive and linked.  `LimboExact`: `nlimbo` is the number
of threads that its comment lists.  `CountsExact`: the counters that decide about the
destruction of a tctx are exact between any two critical sections.  `ProfileAddsUp`: the
lines of a profile sum up to its totals although objects are freed while it is written.
`TreeKeysDistinct`: two tctxs of one thread that coexist, one of them waiting for the end
of a dump, never have the same key.  `RecentExact`: list, length, limit and the links to
objects agree, also while the list is dumped.  `Reclaimed`: at rest nothing is left of
what nothing refers to.

### Bounds

`Pac` runs on two to four pages and two or three descriptors: three neighbours are
the least at which both directions of coalescing compete, and two descriptors make
every split fail at some point.  `Sec` has two shards, two threads and two extents,
which is enough for a fill to find its bin filled by another thread.  `Hpa` has two
slabs of four pages, or one of five for fragmentation.  `Tcache` has two or three
slabs of one to three regions and tcaches of one to six slots, with low bits modulo 8
so that the stack crosses the wrap-around.  `Prof` has two threads, one or two backtraces,
two objects and four or five calls: a sample, a dump, a free in the middle of it and a
second sample of the same backtrace are the four that a tctx in purgatory needs to meet
its successor.  No passing option has both thread exit and reset, which `Prof_reset` is
about.  Ages, growth, requests and operations that
would go on forever are bounded in guards by named options.  Descriptors and
threads are symmetric in the runs without liveness.

### Fairness

`Sec`: a thread that can go on does, and one that waits for a mutex which is free
again and again gets it.  `Tcache`: a call that was begun takes its next step.  Both are
what the scheduler and the mutexes of the platform give; no fairness is assumed of
new calls, of the garbage collector, or of memory becoming available.

## Proofs

`SecProofs` proves for every number of threads, shards, size classes and extents and
for every size and bound:

* `SecInvariant`: `Spec => []SecInv`, with `SecInv` the conjunction of type
  correctness, of `BytesExact`, of the bound on every bin, of the low water mark
  being at most the bytes present, and of what a thread that is on its way to a bin
  knows (the lock it holds, the extents it carries).  The bound alone is not
  inductive: that a flush ends at three quarters needs the counter to be exact, and
  that the counter does not become negative needs the sum over the freelist;
* `SecTypeCorrect`, `SecBytesExact`, `SecBytesBounded`, `SecLowWaterSafe`: its parts;
* `SecFlushedBelow`: an action property of the deallocation that overflows a bin.

The assumptions are those on the constants in `Sec` (`max_bytes`, sizes, shards) and
nothing else.  Liveness and everything else in the table of runs is model-checked
only.

## Where the code disagrees with its documentation

Four disagreements are runs: an extent that a failed split neither returns nor
records (`Pac_salvage`), two slabs with one age (`Hpa_ages`),
`stats.arenas.<i>.bins.<j>.nonfull_slabs` after a reset (`Tcache_reset`), and a tdata that
two threads destroy (`Prof_reset`: the thread that frees the last sample of an exited
thread decides under `tdata->lock`, `prof_reset` under `tdatas_mtx`).  The following were
met on the way and have no run.

* `pac.c:380`: an expansion whose merge fails leaves `pac_mapped` too large.
* `extent.c:610`: after a failed trail split of a retained extent `curpages` may be
  decremented below what was counted (the assertion at `extent.c:343`).
* `pac.c:240`: a batched allocation whose split fails stays in `curpages` although it
  is retained.
* `extent.c:197`: a decay pass may leave fewer pages than `npages_limit`, which the
  comment at `pac.c:695` excludes.
* `hpa.c:693`: the rollback of a failed registration calls `hpdata_unreserve` on a slab
  whose longest range is not consistent, which `hpdata.c:145` asserts.
* `hpa.c:492`: a purge pass is counted although it purged nothing.
* `tcache.c:443`: the assertion that a fill reaches its minimum does not hold when
  memory is exhausted.
* `tcache_inlines.h`: a large allocation that misses the tcache is counted in
  `tstats.nrequests` and, by `large_malloc`, in `nmalloc`; the report adds both.
* `prof_data.c:372`: when a tctx cannot be allocated for a gctx that was found, `nlimbo`
  stays too large, and the gctx is never destroyed.
* `prof_recent.c:79`: a comment says that recording is off while the list is dumped; the
  code goes on recording, with a limit of its own for the new records until the two
  lists are joined.

## Plan

1. Thread and arena life cycle: `tsd.c` (states, re-entry, reincarnation),
   `arenas_management.c`, creation, reassociation and destruction of tcaches, the
   explicit tcaches, thread events with wrap-around, background threads.
2. Metadata and pure algorithms: `rtree.c` node installation, `base.c`, `ckh.c`,
   size classes, bitmaps, heaps, against reference definitions.
3. Abstract specifications: a bin as a set of free regions, implemented by `Tcache`;
   the extent cache as a bounded multiset, implemented by `Sec`.
4. The rest of the profiler: `enq` and the dumps it puts off, `prof_log.c`, the sampling
   interval.
5. Proofs: `PinnedExact` and `SecOneOwner` of `Sec`; `OneOwner` of `Pac` under its locks;
   lemmas about `Hpdata`, `Bin` and `CacheBin` (the wrapping arithmetic for every width),
   `RegionOneOwner` of `Tcache`, and `LimboExact` of `Prof`.

Not planned: output and formatting (`stats.c`, `emitter.h`, `malloc_io.c`),
system call wrappers (`pages.c`), platform glue (`zone.c`), and the option parser.
Liveness under fairness, and what recursive algorithms compute on all inputs, stay
with TLC.
