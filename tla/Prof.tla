-------------------------------- MODULE Prof --------------------------------
(***************************************************************************)
(* The heap profiler's bookkeeping: prof_data.c, prof_recent.c and the     *)
(* operations of prof.c and prof_inlines.h that use them.                  *)
(*                                                                         *)
(* A sampled allocation is counted in a tctx, the context of one backtrace *)
(* in one thread.  The tctx is in the table bt2tctx of its thread's tdata  *)
(* and in the tree of its gctx, the context of the backtrace in all        *)
(* threads.  Contexts are created on demand and destroyed with their last  *)
(* use, by whichever thread finds that out, while profiles are dumped,     *)
(* tdatas expired and threads exit.                                        *)
(*                                                                         *)
(* A thread runs a call as a stack of frames; every critical section of a  *)
(* tdata's or gctx's lock or of prof_recent_alloc_mtx is one step.  The    *)
(* mutexes that are held for longer are in the variable lock.  Of the      *)
(* eight counters of prof_cnt_t, which change together, curobjs is kept.   *)
(***************************************************************************)
EXTENDS Integers, Sequences, FiniteSets, FiniteSetsExt, SequencesExt

CONSTANTS
    Threads,
    Bts,        \* the backtraces
    Objects,    \* the sampled allocations that may exist at a time
    Tdatas, Gctxs, Tctxs, Nodes,    \* memory for the profiler's structures
    Options,    \* the configurations the program may be booted with
    NULL

VARIABLES
    opt,        \* the configuration
    tsd,        \* thread -> its state, and its prof_tdata
    next_thr_uid,
    tdata,      \* tdata -> its fields, or NULL: not in the tree of tdatas
    bt2gctx,    \* backtrace -> its gctx
    gctx,       \* gctx -> its fields, or NULL
    tctx,       \* tctx -> its fields, or NULL
    obj,        \* sampled object -> its alloc_tctx and recent record, or NULL
    node,       \* prof_recent_t -> its fields, or NULL
    recent,     \* the list of recent allocations, its length and its limit
    lock,       \* the mutexes that are held across steps -> the holder
    calls,      \* the calls that the application may still make
    th          \* thread -> the call it is executing

vars == << opt, tsd, next_thr_uid, tdata, bt2gctx, gctx, tctx, obj, node,
           recent, lock, calls, th >>

Mutexes == {"bt2gctx_mtx", "tdatas_mtx", "prof_dump_mtx", "prof_recent_dump_mtx"}
Unlimited == -1

Option == [threads : SUBSET Threads, bts : SUBSET Bts, objs : SUBSET Objects,
           calls : Nat, ops : SUBSET {"dump", "reset", "exit", "realloc",
                                      "max", "recent_dump"},
           oom : SUBSET {"tdata", "gctx", "tctx", "node", "user"},
           accum : BOOLEAN, sys_thread_name : BOOLEAN,
           max : Nat \union {Unlimited}, maxes : SUBSET (Nat \union {Unlimited})]

ASSUME ProfAssumption == \A o \in Options : o \in Option

Extant(f) == {x \in DOMAIN f : f[x] # NULL}
Fresh(f) == CHOOSE x \in DOMAIN f : f[x] = NULL
Fails(what) == IF what \in opt.oom THEN BOOLEAN ELSE {FALSE}

Idle == [stack |-> << >>, ret |-> NULL]
IsIdle(t) == th[t] = Idle
Top(t) == Head(th[t].stack)
At(t, pc) == ~IsIdle(t) /\ Top(t).pc = pc
Frames(t) == {th[t].stack[i] : i \in DOMAIN th[t].stack}
AllFrames == UNION {Frames(t) : t \in Threads}

\* The frame on top is replaced by frames, and r is returned.
Return(t, r, frames) ==
    LET stack == frames \o Tail(th[t].stack)
    IN  th' = [th EXCEPT ![t] = IF stack = << >> THEN Idle
                                ELSE [stack |-> stack, ret |-> r]]
Go(t, frames) == Return(t, th[t].ret, frames)

\* The application calls the profiler.
Call(t, frames) ==
    /\ IsIdle(t) /\ t \in opt.threads /\ calls > 0
    /\ calls' = calls - 1
    /\ th' = [th EXCEPT ![t].stack = frames]

Free(m) == lock[m] = NULL
Acquire(t, ms) ==
    /\ \A m \in ms : Free(m)
    /\ lock' = [m \in Mutexes |-> IF m \in ms THEN t ELSE lock[m]]
Release(ms) == lock' = [m \in Mutexes |-> IF m \in ms THEN NULL ELSE lock[m]]

\* The object belongs to a call that has not returned.
Busy(o) == \E f \in AllFrames : "o" \in DOMAIN f /\ f.o = o

Init ==
    /\ opt \in Options
    /\ tsd = [t \in Threads |-> [nominal |-> TRUE, tdata |-> NULL]]
    /\ next_thr_uid = 0
    /\ tdata = [d \in Tdatas |-> NULL]
    /\ bt2gctx = [b \in Bts |-> NULL]
    /\ gctx = [g \in Gctxs |-> NULL]
    /\ tctx = [c \in Tctxs |-> NULL]
    /\ obj = [o \in Objects |-> NULL]
    /\ node = [n \in Nodes |-> NULL]
    /\ recent = [list |-> << >>, temp |-> << >>, count |-> 0, max |-> opt.max]
    /\ lock = [m \in Mutexes |-> NULL]
    /\ calls = opt.calls
    /\ th = [t \in Threads |-> Idle]

-----------------------------------------------------------------------------

(* Operators named X_<bug> are X with a bug that the properties must detect. *)

TdataGet == [pc |-> "tdata_get"]
TdataDestroy(d) == [pc |-> "tdata_destroy", d |-> d]
Lookup(b) == [pc |-> "lookup", b |-> b]
Decrement(c) == [pc |-> "decrement_recent_count", c |-> c]
GctxTryDestroy(g) == [pc |-> "gctx_try_destroy", g |-> g]

\* prof_tctx_create: a thread that is not nominal gets NULL.
prof_tctx_create(t, b) ==
    IF tsd[t].nominal THEN << TdataGet, Lookup(b) >> ELSE << >>

\* With opt_prof_sys_thread_name, the thread's name is written to its tdata.
prof_sys_thread_name_fetch(t) ==
    IF opt.sys_thread_name /\ tsd[t].nominal THEN << TdataGet >> ELSE << >>

prof_tdata_should_destroy(td, even_if_attached) ==
    /\ ~td.attached \/ even_if_attached
    /\ \A b \in Bts : td.bt2tctx[b] = NULL

prof_tdata_detach_attached(t, d, frames) ==
    /\ Go(t, (IF prof_tdata_should_destroy(tdata[d], TRUE)
              THEN << TdataDestroy(d) >> ELSE << >>) \o frames)
    /\ UNCHANGED tdata

\* prof_tdata_detach: d is left to the frees of its objects, or it is destroyed
\* and stays attached until then, so that only this thread destroys it.
\* The frames are executed afterwards.
prof_tdata_detach(t, d, frames) ==
    LET destroy_tdata == /\ tdata[d].attached
                         /\ prof_tdata_should_destroy(tdata[d], TRUE)
    IN  /\ tdata' = [tdata EXCEPT ![d].attached = @ /\ destroy_tdata]
        /\ Go(t, (IF destroy_tdata THEN << TdataDestroy(d) >> ELSE << >>) \o frames)

\* prof_tdata_get with create: the tdata of a thread is created on demand, and
\* replaced once it has expired.
ProfTdataGet(t) ==
    /\ At(t, "tdata_get")
    /\ LET d == tsd[t].tdata
       IN  \/ /\ d # NULL => ~tdata[d].expired
              /\ d = NULL => ~tsd[t].nominal
              /\ Go(t, << >>)
              /\ UNCHANGED << tsd, next_thr_uid, tdata >>
           \/ /\ d = NULL /\ tsd[t].nominal
              /\ next_thr_uid' = next_thr_uid + 1
              /\ Go(t, << [pc |-> "tdata_init", uid |-> next_thr_uid, discrim |-> 0] >>)
              /\ UNCHANGED << tsd, tdata >>
           \/ /\ d # NULL /\ tdata[d].expired
              /\ tsd' = [tsd EXCEPT ![t].tdata = NULL]
              /\ prof_tdata_detach(t, d,
                     << [pc |-> "tdata_init", uid |-> tdata[d].uid,
                         discrim |-> tdata[d].discrim + 1] >>)
              /\ UNCHANGED next_thr_uid
    /\ UNCHANGED << opt, bt2gctx, gctx, tctx, obj, node, recent, lock, calls >>

\* prof_tdata_init_impl
ProfTdataInit(t) ==
    /\ At(t, "tdata_init")
    /\ \E oom \in Fails("tdata") :
          IF oom
          THEN UNCHANGED << tsd, tdata >>
          ELSE /\ Free("tdatas_mtx")
               /\ tdata' = [tdata EXCEPT ![Fresh(tdata)] =
                      [uid |-> Top(t).uid, discrim |-> Top(t).discrim,
                       tctx_uid_next |-> 0, attached |-> TRUE, expired |-> FALSE,
                       dumping |-> FALSE, bt2tctx |-> [b \in Bts |-> NULL]]]
               /\ tsd' = [tsd EXCEPT ![t].tdata = Fresh(tdata)]
    /\ Go(t, << >>)
    /\ UNCHANGED << opt, next_thr_uid, bt2gctx, gctx, tctx, obj, node, recent,
                    lock, calls >>

\* prof_tdata_destroy
ProfTdataDestroy(t) ==
    /\ At(t, "tdata_destroy")
    /\ Free("tdatas_mtx")
    /\ tdata' = [tdata EXCEPT ![Top(t).d] = NULL]
    /\ Go(t, << >>)
    /\ UNCHANGED << opt, tsd, next_thr_uid, bt2gctx, gctx, tctx, obj, node,
                    recent, lock, calls >>
-----------------------------------------------------------------------------

\* prof_lookup: the thread's own table.
ProfLookup(t) ==
    /\ At(t, "lookup")
    /\ LET d == tsd[t].tdata
           b == Top(t).b
           c == IF d = NULL THEN NULL ELSE tdata[d].bt2tctx[b]
       IN  \/ /\ d = NULL
              /\ Return(t, NULL, << >>)
              /\ UNCHANGED tctx
           \/ /\ c # NULL
              /\ tctx' = [tctx EXCEPT ![c].prepared = TRUE]
              /\ Return(t, c, << >>)
           \/ /\ d # NULL /\ c = NULL
              /\ Go(t, << [pc |-> "lookup_global", b |-> b, created |-> FALSE] >>)
              /\ UNCHANGED tctx
    /\ UNCHANGED << opt, tsd, next_thr_uid, tdata, bt2gctx, gctx, obj, node,
                    recent, lock, calls >>

prof_gctx_create(b) == [bt |-> b, nlimbo |-> 1, tctxs |-> {}, sum |-> 0]

HoldGctx_not(g) == gctx

\* A gctx that is found is put into limbo until the thread has linked a tctx.
HoldGctx(g) == [gctx EXCEPT ![g].nlimbo = @ + 1]

\* prof_lookup_global: a search of bt2gctx, and a second one when a gctx had to
\* be created, with the mutex released, because there was none.
prof_lookup_global(t, b, created) ==
    LET g == bt2gctx[b]
        new == Fresh(gctx)
    IN  \/ /\ g # NULL
           /\ gctx' = HoldGctx(g)
           /\ Go(t, << [pc |-> "link", b |-> b, g |-> g, new_gctx |-> FALSE] >>)
           /\ UNCHANGED bt2gctx
        \/ /\ g = NULL /\ ~created
           /\ \E oom \in Fails("gctx") :
                 IF oom THEN Return(t, NULL, << >>)
                 ELSE Go(t, << [pc |-> "lookup_global", b |-> b, created |-> TRUE] >>)
           /\ UNCHANGED << gctx, bt2gctx >>
        \/ /\ g = NULL /\ created
           /\ \E oom \in Fails("gctx") :
                 IF oom
                 THEN /\ Return(t, NULL, << >>)
                      /\ UNCHANGED << gctx, bt2gctx >>
                 ELSE /\ gctx' = [gctx EXCEPT ![new] = prof_gctx_create(b)]
                      /\ bt2gctx' = [bt2gctx EXCEPT ![b] = new]
                      /\ Go(t, << [pc |-> "link", b |-> b, g |-> new,
                                   new_gctx |-> TRUE] >>)

ProfLookupGlobal(t) ==
    /\ At(t, "lookup_global")
    /\ Free("bt2gctx_mtx")
    /\ prof_lookup_global(t, Top(t).b, Top(t).created)
    /\ UNCHANGED << opt, tsd, next_thr_uid, tdata, tctx, obj, node, recent,
                    lock, calls >>

NextUid_stuck(td) == td

\* The counter that numbers the tctxs of a tdata.
NextUid(td) == [td EXCEPT !.tctx_uid_next = @ + 1]

\* prof_lookup: a tctx is created and put into the thread's own table.  When
\* that fails, a new gctx is given up, and the hold on an old one is not.
ProfTctxLink(t) ==
    /\ At(t, "link")
    /\ LET f == Top(t)
           d == tsd[t].tdata
           c == Fresh(tctx)
       IN  \E oom \in Fails("tctx") :
              IF oom
              THEN /\ Return(t, NULL, IF f.new_gctx THEN << GctxTryDestroy(f.g) >>
                                                    ELSE << >>)
                   /\ UNCHANGED << tdata, tctx >>
              ELSE /\ tctx' = [tctx EXCEPT ![c] =
                          [tdata |-> d, gctx |-> f.g, recent_count |-> 0,
                           curobjs |-> 0, dump |-> 0, prepared |-> TRUE,
                           uid |-> << tdata[d].uid, tdata[d].discrim,
                                      tdata[d].tctx_uid_next >>,
                           state |-> "initializing"]]
                   /\ tdata' = [tdata EXCEPT ![d] =
                          [NextUid(@) EXCEPT !.bt2tctx[f.b] = c]]
                   /\ Go(t, << [pc |-> "nominal", c |-> c] >>)
    /\ UNCHANGED << opt, tsd, next_thr_uid, bt2gctx, gctx, obj, node, recent,
                    lock, calls >>

\* prof_lookup: the tctx is linked into its gctx, which leaves limbo.
ProfTctxNominal(t) ==
    /\ At(t, "nominal")
    /\ LET c == Top(t).c
           g == tctx[c].gctx
       IN  /\ tctx' = [tctx EXCEPT ![c].state = "nominal"]
           /\ gctx' = [gctx EXCEPT ![g].tctxs = @ \union {c}, ![g].nlimbo = @ - 1]
           /\ Return(t, c, << >>)
    /\ UNCHANGED << opt, tsd, next_thr_uid, tdata, bt2gctx, obj, node, recent,
                    lock, calls >>

-----------------------------------------------------------------------------

prof_tctx_should_destroy_prepared(c) ==
    /\ ~opt.accum
    /\ c.curobjs = 0
    /\ c.recent_count = 0

prof_tctx_should_destroy(c) ==
    /\ ~opt.accum
    /\ c.curobjs = 0
    /\ ~c.prepared
    /\ c.recent_count = 0

\* prof_tctx_try_destroy, with the fields of c as the caller has changed them
\* under the lock of its tdata: an unused tctx leaves its tdata, which is
\* destroyed if the tctx was all that kept it.
prof_tctx_try_destroy(t, c, fields, frames) ==
    LET d == fields.tdata
        b == gctx[fields.gctx].bt
        td == [tdata[d] EXCEPT !.bt2tctx[b] = NULL]
        destroy_tdata == prof_tdata_should_destroy(td, FALSE)
    IN  IF prof_tctx_should_destroy(fields)
        THEN /\ tctx' = [tctx EXCEPT ![c] = [fields EXCEPT !.tdata = NULL]]
             /\ tdata' = [tdata EXCEPT ![d] = td]
             /\ Return(t, NULL,
                    (IF destroy_tdata THEN << TdataDestroy(d) >> ELSE << >>)
                    \o << [pc |-> "tctx_destroy", c |-> c] >> \o frames)
        ELSE /\ tctx' = [tctx EXCEPT ![c] = fields]
             /\ Return(t, NULL, frames)
             /\ UNCHANGED tdata

prof_gctx_should_destroy(g) == ~opt.accum /\ g.tctxs = {} /\ g.nlimbo = 0

prof_tctx_destroy_dumping(t, c) ==
    LET g == tctx[c].gctx
        g1 == [gctx[g] EXCEPT !.tctxs = @ \ {c}]
    IN  /\ tctx' = [tctx EXCEPT ![c] = NULL]
        /\ IF prof_gctx_should_destroy(g1)
           THEN /\ gctx' = [gctx EXCEPT ![g] = [g1 EXCEPT !.nlimbo = @ + 1]]
                /\ Go(t, << GctxTryDestroy(g) >>)
           ELSE /\ gctx' = [gctx EXCEPT ![g] = g1]
                /\ Go(t, << >>)

\* prof_tctx_destroy, its second half: the tctx leaves its gctx and is freed,
\* except that a tctx that is being dumped is left to the dumping thread.
prof_tctx_destroy(t, c) ==
    LET g == tctx[c].gctx
        g1 == [gctx[g] EXCEPT !.tctxs = @ \ {c}]
    IN  \/ /\ tctx[c].state = "nominal"
           /\ tctx' = [tctx EXCEPT ![c] = NULL]
           /\ IF prof_gctx_should_destroy(g1)
              THEN /\ gctx' = [gctx EXCEPT ![g] = [g1 EXCEPT !.nlimbo = @ + 1]]
                   /\ Go(t, << GctxTryDestroy(g) >>)
              ELSE /\ gctx' = [gctx EXCEPT ![g] = g1]
                   /\ Go(t, << >>)
        \/ /\ tctx[c].state = "dumping"
           /\ tctx' = [tctx EXCEPT ![c].state = "purgatory"]
           /\ Go(t, << >>)
           /\ UNCHANGED gctx

ProfTctxDestroy(t) ==
    /\ At(t, "tctx_destroy")
    /\ prof_tctx_destroy(t, Top(t).c)
    /\ UNCHANGED << opt, tsd, next_thr_uid, tdata, bt2gctx, obj, node, recent,
                    lock, calls >>

\* prof_gctx_try_destroy: unless the gctx came into use again.
ProfGctxTryDestroy(t) ==
    /\ At(t, "gctx_try_destroy")
    /\ Free("bt2gctx_mtx")
    /\ LET g == Top(t).g
       IN  IF gctx[g].tctxs = {} /\ gctx[g].nlimbo = 1
           THEN /\ bt2gctx' = [bt2gctx EXCEPT ![gctx[g].bt] = NULL]
                /\ gctx' = [gctx EXCEPT ![g] = NULL]
           ELSE /\ gctx' = [gctx EXCEPT ![g].nlimbo = @ - 1]
                /\ UNCHANGED bt2gctx
    /\ Go(t, << >>)
    /\ UNCHANGED << opt, tsd, next_thr_uid, tdata, tctx, obj, node, recent,
                    lock, calls >>
-----------------------------------------------------------------------------

\* prof_alloc_prep for an allocation that is to be sampled.  (The call of
\* prof_tdata_get in prof_sample_should_skip and the one in prof_tctx_create
\* follow each other; one stands for both.)
Malloc(t) ==
    /\ tsd[t].nominal
    /\ \E o \in opt.objs, b \in opt.bts :
          /\ obj[o] = NULL /\ ~Busy(o)
          /\ Call(t, prof_tctx_create(t, b) \o << [pc |-> "malloc", o |-> o] >>)
    /\ UNCHANGED << opt, tsd, next_thr_uid, tdata, bt2gctx, gctx, tctx, obj,
                    node, recent, lock >>

\* prof_alloc_rollback
prof_alloc_rollback(t, c, frames) ==
    prof_tctx_try_destroy(t, c, [tctx[c] EXCEPT !.prepared = FALSE], frames)

prof_malloc_sample_object(t, o, c) ==
    prof_sys_thread_name_fetch(t) \o << [pc |-> "sample", o |-> o, c |-> c] >>

\* The allocation itself: it fails without a tctx, and it may fail with one.
ProfMalloc(t) ==
    /\ At(t, "malloc") \/ At(t, "realloc")
    /\ LET f == Top(t)
           c == th[t].ret
       IN  \/ /\ c = NULL
              /\ Go(t, << >>)
              /\ UNCHANGED << tdata, tctx >>
           \/ /\ c # NULL /\ "user" \in opt.oom
              /\ prof_alloc_rollback(t, c, << >>)
           \/ /\ c # NULL
              /\ Return(t, NULL,
                     IF f.pc = "malloc" THEN prof_malloc_sample_object(t, f.o, c)
                     ELSE << TdataGet, [pc |-> "prof_realloc", o |-> f.o, c |-> c] >>)
              /\ UNCHANGED << tdata, tctx >>
    /\ UNCHANGED << opt, tsd, next_thr_uid, bt2gctx, gctx, obj, node, recent,
                    lock, calls >>

\* prof_realloc: the new sample is made before the old one is released, because
\* both may be in one tctx.  Without a tdata the new allocation is not sampled.
ProfRealloc(t) ==
    /\ At(t, "prof_realloc")
    /\ LET f == Top(t)
           sampled == tsd[t].tdata # NULL
           old == << [pc |-> "free", o |-> f.o, c |-> obj[f.o].tctx, gone |-> ~sampled] >>
       IN  IF sampled
           THEN /\ Go(t, prof_malloc_sample_object(t, f.o, f.c) \o old)
                /\ UNCHANGED << tdata, tctx >>
           ELSE prof_alloc_rollback(t, f.c, old)
    /\ UNCHANGED << opt, tsd, next_thr_uid, bt2gctx, gctx, obj, node, recent,
                    lock, calls >>

\* prof_malloc_sample_object; prof_recent_alloc_prepare reads the limit of the
\* list of recent allocations without its mutex.
ProfMallocSampleObject(t) ==
    /\ At(t, "sample")
    /\ LET f == Top(t)
           record_recent == recent.max # 0
       IN  /\ obj' = [obj EXCEPT ![f.o] = [tctx |-> f.c, rec |-> NULL]]
           /\ tctx' = [tctx EXCEPT
                  ![f.c].curobjs = @ + 1,
                  ![f.c].recent_count = IF record_recent THEN @ + 1 ELSE @,
                  ![f.c].prepared = FALSE]
           /\ Go(t, IF record_recent
                    THEN << [pc |-> "recent_alloc", o |-> f.o, c |-> f.c] >>
                    ELSE << >>)
    /\ UNCHANGED << opt, tsd, next_thr_uid, tdata, bt2gctx, gctx, node, recent,
                    lock, calls >>

\* prof_free: what is done with the recent record before the object is freed.
ResetRecent(t, o, b) ==
    IF obj[o].rec = NULL THEN << >>
    ELSE prof_sys_thread_name_fetch(t) \o prof_tctx_create(t, b)
         \o << [pc |-> "recent_hold", o |-> o] >>

\* A sampled object is freed, by any thread; one that has exited may still do so
\* from the destructors that run after the profiler's.
FreeCall(t) ==
    /\ \E o \in opt.objs, b \in opt.bts :
          /\ obj[o] # NULL /\ ~Busy(o)
          /\ Call(t, ResetRecent(t, o, b)
                     \o << [pc |-> "free", o |-> o, c |-> obj[o].tctx,
                            gone |-> TRUE] >>)
    /\ UNCHANGED << opt, tsd, next_thr_uid, tdata, bt2gctx, gctx, tctx, obj,
                    node, recent, lock >>

\* irallocx_prof for a sampled object, when the new allocation is sampled too.
\* (When it is not, the call is a prof_free as far as the profiler goes.)
Realloc(t) ==
    /\ "realloc" \in opt.ops /\ tsd[t].nominal
    /\ \E o \in opt.objs, b \in opt.bts :
          /\ obj[o] # NULL /\ ~Busy(o)
          /\ Call(t, ResetRecent(t, o, b) \o prof_tctx_create(t, b)
                     \o << [pc |-> "realloc", o |-> o] >>)
    /\ UNCHANGED << opt, tsd, next_thr_uid, tdata, bt2gctx, gctx, tctx, obj,
                    node, recent, lock >>

\* prof_free_sampled_object; after a reallocation the object has a new tctx.
ProfFreeSampledObject(t) ==
    /\ At(t, "free")
    /\ LET f == Top(t)
       IN  /\ prof_tctx_try_destroy(t, f.c, [tctx[f.c] EXCEPT !.curobjs = @ - 1],
                                    << >>)
           /\ obj' = IF f.gone THEN [obj EXCEPT ![f.o] = NULL] ELSE obj
    /\ UNCHANGED << opt, tsd, next_thr_uid, bt2gctx, gctx, node, recent, lock,
                    calls >>
-----------------------------------------------------------------------------

\* prof_recent_alloc_reset: the tctx of the deallocation is held for the record.
ProfRecentHold(t) ==
    /\ At(t, "recent_hold")
    /\ LET c == th[t].ret
           f == [pc |-> "recent_reset", o |-> Top(t).o, c |-> c]
       IN  /\ tctx' = IF c = NULL THEN tctx
                      ELSE [tctx EXCEPT ![c].recent_count = @ + 1,
                                        ![c].prepared = FALSE]
           /\ Return(t, NULL, << f >>)
    /\ UNCHANGED << opt, tsd, next_thr_uid, tdata, bt2gctx, gctx, obj, node,
                    recent, lock, calls >>

\* prof_recent_alloc_reset: the record may have gone in the meantime.
ProfRecentReset(t) ==
    /\ At(t, "recent_reset")
    /\ LET o == Top(t).o
           c == Top(t).c
           n == obj[o].rec
       IN  IF n # NULL
           THEN /\ node' = [node EXCEPT ![n].dalloc = c, ![n].o = NULL]
                /\ obj' = [obj EXCEPT ![o].rec = NULL]
                /\ Go(t, << >>)
           ELSE /\ Go(t, IF c = NULL THEN << >> ELSE << Decrement(c) >>)
                /\ UNCHANGED << node, obj >>
    /\ UNCHANGED << opt, tsd, next_thr_uid, tdata, bt2gctx, gctx, tctx, recent,
                    lock, calls >>

\* decrement_recent_count
DecrementRecentCount(t) ==
    /\ At(t, "decrement_recent_count")
    /\ LET c == Top(t).c
       IN  prof_tctx_try_destroy(t, c, [tctx[c] EXCEPT !.recent_count = @ - 1], << >>)
    /\ UNCHANGED << opt, tsd, next_thr_uid, bt2gctx, gctx, obj, node, recent,
                    lock, calls >>

Unlinked_not(ns) == obj

\* What the eviction of the nodes ns leaves of the objects' links to them.
Unlinked(ns) ==
    [o \in Objects |-> IF \E n \in ns : node[n].o = o
                       THEN [obj[o] EXCEPT !.rec = NULL] ELSE obj[o]]

DropNode_dalloc_kept(nd) == << Decrement(nd.alloc) >>

\* The tctxs that a record no longer holds.
DropNode(nd) ==
    << Decrement(nd.alloc) >>
    \o (IF nd.dalloc = NULL THEN << >> ELSE << Decrement(nd.dalloc) >>)

\* prof_recent_alloc, with the mutex held to the end: the record goes into the
\* oldest node when the list is full, or into the node that was reserved.
prof_recent_alloc(t, o, c, reserve) ==
    LET nd == [alloc |-> c, dalloc |-> NULL, o |-> o]
        full == recent.count = recent.max
    IN  \/ /\ recent.max = 0 \/ (~full /\ ~reserve)
           /\ Go(t, << Decrement(c) >>)
           /\ UNCHANGED << obj, node, recent >>
        \/ /\ recent.max # 0 /\ full
           /\ LET n == Head(recent.list)
              IN  /\ obj' = [Unlinked({n}) EXCEPT ![o].rec = n]
                  /\ node' = [node EXCEPT ![n] = nd]
                  /\ recent' = [recent EXCEPT !.list = Append(Tail(@), n)]
                  /\ Go(t, DropNode(node[n]))
        \/ /\ recent.max # 0 /\ ~full /\ reserve
           /\ LET n == Fresh(node)
              IN  /\ obj' = [obj EXCEPT ![o].rec = n]
                  /\ node' = [node EXCEPT ![n] = nd]
                  /\ recent' = [recent EXCEPT !.list = Append(@, n),
                                              !.count = @ + 1]
                  /\ Go(t, << >>)

\* The mutex is released to allocate a node if one seems to be needed.
ProfRecentAlloc(t) ==
    /\ At(t, "recent_alloc")
    /\ LET f == Top(t)
       IN  IF recent.max = Unlimited \/ recent.count < recent.max
           THEN /\ \E oom \in Fails("node") :
                      Go(t, << [pc |-> "recent_reserved", o |-> f.o, c |-> f.c,
                                reserve |-> ~oom] >>)
                /\ UNCHANGED << obj, node, recent >>
           ELSE prof_recent_alloc(t, f.o, f.c, FALSE)
    /\ UNCHANGED << opt, tsd, next_thr_uid, tdata, bt2gctx, gctx, tctx, lock, calls >>

ProfRecentReserved(t) ==
    /\ At(t, "recent_reserved")
    /\ prof_recent_alloc(t, Top(t).o, Top(t).c, Top(t).reserve)
    /\ UNCHANGED << opt, tsd, next_thr_uid, tdata, bt2gctx, gctx, tctx, lock, calls >>

\* prof_recent_alloc_restore_locked, where r is the list with its new limit or
\* its new elements: the oldest nodes beyond the limit are removed.
Excess(r) == IF r.max = Unlimited \/ r.count <= r.max THEN 0 ELSE r.count - r.max
prof_recent_alloc_restore_locked(r) ==
    LET n == Excess(r)
        evicted == ToSet(SubSeq(r.list, 1, n))
    IN  /\ recent' = [r EXCEPT !.list = SubSeq(@, n + 1, Len(@)), !.count = @ - n]
        /\ obj' = Unlinked(evicted)
        /\ node' = [x \in Nodes |-> IF x \in evicted THEN NULL ELSE node[x]]

\* prof_recent_alloc_async_cleanup of the nodes removed.
prof_recent_alloc_async_cleanup(r) ==
    FlattenSeq([i \in 1 .. Excess(r) |-> DropNode(node[r.list[i]])])

\* prof_recent_alloc_max_ctl_write
ProfRecentMax(t) ==
    /\ "max" \in opt.ops
    /\ \E max \in opt.maxes :
          /\ prof_recent_alloc_restore_locked([recent EXCEPT !.max = max])
          /\ Call(t, prof_recent_alloc_async_cleanup([recent EXCEPT !.max = max]))
    /\ UNCHANGED << opt, tsd, next_thr_uid, tdata, bt2gctx, gctx, tctx, lock >>

\* prof_recent_alloc_dump takes the list, writes it out with the mutex released,
\* and puts it back in front of what was recorded meanwhile.
ProfRecentDump(t) ==
    /\ "recent_dump" \in opt.ops
    /\ Acquire(t, {"prof_recent_dump_mtx"})
    /\ Call(t, << [pc |-> "recent_dump", count |-> recent.count] >>)
    /\ recent' = [recent EXCEPT !.list = << >>, !.temp = recent.list, !.count = 0]
    /\ UNCHANGED << opt, tsd, next_thr_uid, tdata, bt2gctx, gctx, tctx, obj, node >>

ProfRecentDumped(t) ==
    /\ At(t, "recent_dump")
    /\ Release({"prof_recent_dump_mtx"})
    /\ LET r == [recent EXCEPT !.list = recent.temp \o @, !.temp = << >>,
                               !.count = @ + Top(t).count]
       IN  /\ prof_recent_alloc_restore_locked(r)
           /\ Go(t, prof_recent_alloc_async_cleanup(r))
    /\ UNCHANGED << opt, tsd, next_thr_uid, tdata, bt2gctx, gctx, tctx, calls >>
-----------------------------------------------------------------------------

\* prof_dump
Dump(t) ==
    /\ "dump" \in opt.ops /\ tsd[t].nominal
    /\ Call(t, << TdataGet, [pc |-> "dump"] >>)
    /\ UNCHANGED << opt, tsd, next_thr_uid, tdata, bt2gctx, gctx, tctx, obj,
                    node, recent, lock >>

DumpFrame(pc, todo, gctxs, all) ==
    << [pc |-> pc, todo |-> todo, gctxs |-> gctxs, all |-> all] >>

ProfDump(t) ==
    /\ At(t, "dump")
    /\ IF tsd[t].tdata = NULL
       THEN Go(t, << >>) /\ UNCHANGED lock
       ELSE Acquire(t, {"prof_dump_mtx"}) /\ Go(t, << [pc |-> "dump_prep"] >>)
    /\ UNCHANGED << opt, tsd, next_thr_uid, tdata, bt2gctx, gctx, tctx, obj,
                    node, recent, calls >>

\* prof_dump_prep: bt2gctx_mtx is held until the counters are merged.
ProfDumpPrep(t) ==
    /\ At(t, "dump_prep")
    /\ Acquire(t, {"bt2gctx_mtx"})
    /\ LET gctxs == {bt2gctx[b] : b \in Bts} \ {NULL}
       IN  Go(t, DumpFrame("gctx_prep", gctxs, gctxs, 0))
    /\ UNCHANGED << opt, tsd, next_thr_uid, tdata, bt2gctx, gctx, tctx, obj,
                    node, recent, calls >>

\* prof_dump_gctx_prep for one gctx after the other.
ProfDumpGctxPrep(t) ==
    /\ At(t, "gctx_prep")
    /\ LET f == Top(t)
       IN  \/ \E g \in f.todo :
                 /\ gctx' = [gctx EXCEPT ![g].nlimbo = @ + 1, ![g].sum = 0]
                 /\ Go(t, DumpFrame("gctx_prep", f.todo \ {g}, f.gctxs, 0))
                 /\ UNCHANGED lock
           \/ /\ f.todo = {}
              /\ Acquire(t, {"tdatas_mtx"})
              /\ Go(t, DumpFrame("tdata_merge", Extant(tdata), f.gctxs, 0))
              /\ UNCHANGED gctx
    /\ UNCHANGED << opt, tsd, next_thr_uid, tdata, bt2gctx, tctx, obj, node,
                    recent, calls >>

\* prof_tctx_merge_tdata: a tctx that is still initializing is passed over.
Captured(d) == {c \in Tctxs : /\ \E b \in Bts : tdata[d].bt2tctx[b] = c
                              /\ tctx[c].state # "initializing"}

\* prof_tdata_merge_iter: the counters of a tdata are captured.
ProfTdataMerge(t) ==
    /\ At(t, "tdata_merge")
    /\ LET f == Top(t)
       IN  \/ \E d \in f.todo :
                 LET cs == IF tdata[d].expired THEN {} ELSE Captured(d)
                     n == MapThenSumSet(LAMBDA c : tctx[c].curobjs, cs)
                 IN  /\ tdata' = [tdata EXCEPT ![d].dumping = ~tdata[d].expired]
                     /\ tctx' = [c \in Tctxs |->
                            IF c \in cs THEN [tctx[c] EXCEPT !.state = "dumping",
                                                             !.dump = tctx[c].curobjs]
                                        ELSE tctx[c]]
                     /\ Go(t, DumpFrame("tdata_merge", f.todo \ {d}, f.gctxs,
                                        f.all + n))
                     /\ UNCHANGED lock
           \/ /\ f.todo = {}
              /\ Release({"tdatas_mtx"})
              /\ Go(t, DumpFrame("gctx_merge", f.gctxs, f.gctxs, f.all))
              /\ UNCHANGED << tdata, tctx >>
    /\ UNCHANGED << opt, tsd, next_thr_uid, bt2gctx, gctx, obj, node, recent, calls >>

\* The tctxs that a dump has captured, and what they counted.
Dumped(g) == {c \in gctx[g].tctxs : tctx[c].state \in {"dumping", "purgatory"}}
DumpedObjs(g) == MapThenSumSet(LAMBDA c : tctx[c].dump, Dumped(g))

\* prof_gctx_merge_iter
ProfGctxMerge(t) ==
    /\ At(t, "gctx_merge")
    /\ LET f == Top(t)
       IN  \/ \E g \in f.todo :
                 /\ gctx' = [gctx EXCEPT ![g].sum = @ + DumpedObjs(g)]
                 /\ Go(t, DumpFrame("gctx_merge", f.todo \ {g}, f.gctxs, f.all))
                 /\ UNCHANGED lock
           \/ /\ f.todo = {}
              /\ Release({"bt2gctx_mtx"})
              /\ Go(t, DumpFrame("gctx_finish", f.gctxs, f.gctxs, f.all))
              /\ UNCHANGED gctx
    /\ UNCHANGED << opt, tsd, next_thr_uid, tdata, bt2gctx, tctx, obj, node,
                    recent, calls >>

\* prof_gctx_finish, after the profile is written: the tctxs in purgatory are
\* destroyed, and the gctxs that only the dump kept.
ProfGctxFinish(t) ==
    /\ At(t, "gctx_finish")
    /\ LET f == Top(t)
       IN  \/ \E g \in f.todo :
                 LET dead == {c \in gctx[g].tctxs : tctx[c].state = "purgatory"}
                     g1 == [gctx[g] EXCEPT !.tctxs = @ \ dead, !.nlimbo = @ - 1]
                     destroy == prof_gctx_should_destroy(g1)
                 IN  /\ tctx' = [c \in Tctxs |->
                            IF c \in dead THEN NULL
                            ELSE IF c \in Dumped(g)
                            THEN [tctx[c] EXCEPT !.state = "nominal", !.dump = 0]
                            ELSE tctx[c]]
                     /\ gctx' = [gctx EXCEPT ![g] =
                            IF destroy THEN [g1 EXCEPT !.nlimbo = @ + 1] ELSE g1]
                     /\ Go(t, (IF destroy THEN << GctxTryDestroy(g) >> ELSE << >>)
                              \o DumpFrame("gctx_finish", f.todo \ {g},
                                           f.gctxs \ {g}, f.all))
                     /\ UNCHANGED lock
           \/ /\ f.todo = {}
              /\ Release({"prof_dump_mtx"})
              /\ Go(t, << >>)
              /\ UNCHANGED << gctx, tctx >>
    /\ UNCHANGED << opt, tsd, next_thr_uid, tdata, bt2gctx, obj, node, recent, calls >>

\* prof_reset
ProfReset(t) ==
    /\ "reset" \in opt.ops
    /\ Acquire(t, {"prof_dump_mtx", "tdatas_mtx"})
    /\ Call(t, << [pc |-> "tdata_expire", todo |-> Extant(tdata)] >>)
    /\ UNCHANGED << opt, tsd, next_thr_uid, tdata, bt2gctx, gctx, tctx, obj,
                    node, recent >>

\* prof_tdata_expire: a tdata that no thread owns any more and that has no tctx
\* is destroyed by the thread that expires it.
ProfTdataExpire(t) ==
    /\ At(t, "tdata_expire")
    /\ LET f == Top(t)
       IN  \/ \E d \in f.todo :
                 /\ tdata' = [tdata EXCEPT ![d] =
                        IF ~@.expired /\ prof_tdata_should_destroy(@, FALSE)
                        THEN NULL ELSE [@ EXCEPT !.expired = TRUE]]
                 /\ Go(t, << [f EXCEPT !.todo = @ \ {d}] >>)
                 /\ UNCHANGED lock
           \/ /\ f.todo = {}
              /\ Release({"prof_dump_mtx", "tdatas_mtx"})
              /\ Go(t, << >>)
              /\ UNCHANGED tdata
    /\ UNCHANGED << opt, tsd, next_thr_uid, bt2gctx, gctx, tctx, obj, node,
                    recent, calls >>

\* A thread exits: prof_tdata_cleanup.
ThreadExit(t) ==
    /\ "exit" \in opt.ops /\ tsd[t].nominal
    /\ Call(t, IF tsd[t].tdata = NULL THEN << >> ELSE << [pc |-> "detach"] >>)
    /\ tsd' = [tsd EXCEPT ![t].nominal = FALSE]
    /\ UNCHANGED << opt, next_thr_uid, tdata, bt2gctx, gctx, tctx, obj, node,
                    recent, lock >>

ProfTdataDetach(t) ==
    /\ At(t, "detach")
    /\ tsd' = [tsd EXCEPT ![t].tdata = NULL]
    /\ prof_tdata_detach(t, tsd[t].tdata, << >>)
    /\ UNCHANGED << opt, next_thr_uid, bt2gctx, gctx, tctx, obj, node, recent,
                    lock, calls >>

Step(t) ==
    \/ Malloc(t) \/ FreeCall(t) \/ Realloc(t) \/ Dump(t) \/ ThreadExit(t)
    \/ ProfReset(t) \/ ProfRecentMax(t) \/ ProfRecentDump(t)
    \/ ProfTdataGet(t) \/ ProfTdataInit(t) \/ ProfTdataDestroy(t)
    \/ ProfTdataDetach(t) \/ ProfTdataExpire(t)
    \/ ProfLookup(t) \/ ProfLookupGlobal(t) \/ ProfTctxLink(t)
    \/ ProfTctxNominal(t) \/ ProfTctxDestroy(t) \/ ProfGctxTryDestroy(t)
    \/ ProfMalloc(t) \/ ProfRealloc(t) \/ ProfMallocSampleObject(t)
    \/ ProfFreeSampledObject(t)
    \/ ProfRecentHold(t) \/ ProfRecentReset(t) \/ DecrementRecentCount(t)
    \/ ProfRecentAlloc(t) \/ ProfRecentReserved(t) \/ ProfRecentDumped(t)
    \/ ProfDump(t) \/ ProfDumpPrep(t) \/ ProfDumpGctxPrep(t)
    \/ ProfTdataMerge(t) \/ ProfGctxMerge(t) \/ ProfGctxFinish(t)

\* No call is in progress; the application may make no more.
Quiet == \A t \in Threads : IsIdle(t)
Finished == Quiet /\ UNCHANGED vars

Next == Finished \/ \E t \in Threads : Step(t)
Spec == Init /\ [][Next]_vars

-----------------------------------------------------------------------------

\* How many frames make a property of them true.
Holders(P(_)) ==
    MapThenSumSet(LAMBDA t : Cardinality({i \in DOMAIN th[t].stack :
                                             P(th[t].stack[i])}), Threads)
NodesListed == ToSet(recent.list) \union ToSet(recent.temp)

\* What keeps a tctx: the objects counted in it, the records that name it, and
\* the calls that are about to count an object or to make a record.
Objs(c) == Cardinality({o \in Objects : obj[o] # NULL /\ obj[o].tctx = c})
Records(c) == Cardinality({n \in Extant(node) : node[n].alloc = c})
              + Cardinality({n \in Extant(node) : node[n].dalloc = c})

\* A context is never freed while something refers to it: the tctx of a live
\* object, of a record or of a call exists, is in the table of its tdata, and
\* in the tree of a gctx that bt2gctx maps its backtrace to; whoever holds a
\* gctx finds it there too.  A tdata that a thread is about to destroy exists,
\* and no thread uses it.
ContextsLive ==
    /\ \A o \in Extant(obj) : obj[o].tctx \in Extant(tctx)
    /\ \A n \in Extant(node) : /\ node[n].alloc \in Extant(tctx)
                               /\ node[n].dalloc \in Extant(tctx) \union {NULL}
    /\ \A c \in Extant(tctx) :
          LET x == tctx[c] IN
          /\ x.gctx \in Extant(gctx)
          /\ x.tdata # NULL => /\ x.tdata \in Extant(tdata)
                               /\ tdata[x.tdata].bt2tctx[gctx[x.gctx].bt] = c
          /\ x.tdata = NULL => /\ x.curobjs = 0 /\ x.recent_count = 0 /\ ~x.prepared
          /\ x.state = "initializing" <=> c \notin gctx[x.gctx].tctxs
    /\ \A g \in Extant(gctx) : /\ bt2gctx[gctx[g].bt] = g
                               /\ gctx[g].tctxs \subseteq Extant(tctx)
    /\ \A d \in Extant(tdata), b \in Bts :
          tdata[d].bt2tctx[b] \in Extant(tctx) \union {NULL}
    /\ \A f \in AllFrames :
          /\ "c" \in DOMAIN f => f.c \in Extant(tctx) \union {NULL}
          /\ "g" \in DOMAIN f => f.g \in Extant(gctx)
          /\ "d" \in DOMAIN f => /\ f.d \in Extant(tdata)
                                 /\ \A b \in Bts : tdata[f.d].bt2tctx[b] = NULL
    /\ \A t \in Threads :
          /\ th[t].ret \in Extant(tctx) \union {NULL}
          /\ tsd[t].tdata # NULL => /\ tsd[t].tdata \in Extant(tdata)
                                   /\ tdata[tsd[t].tdata].attached

\* prof_tdata_detach says that it avoids that "another thread [wins] the race to
\* destroy tdata": a tdata that a thread is about to destroy exists until it does.
TdataDestroyedOnce ==
    \A f \in AllFrames : f.pc = "tdata_destroy" => f.d \in Extant(tdata)

\* nlimbo is what the comment of prof_gctx_s says, the number of threads that
\* initialize the gctx or a tctx of it, prepare to destroy it or dump it; after
\* a tctx could not be allocated it may be more, but it never is less.
LimboExact ==
    \A g \in Extant(gctx) :
       LET n == Holders(LAMBDA f :
                   \/ f.pc \in {"link", "gctx_try_destroy"} /\ f.g = g
                   \/ f.pc = "nominal" /\ tctx[f.c].gctx = g
                   \/ f.pc = "gctx_prep" /\ g \in f.gctxs \ f.todo
                   \/ f.pc \in {"tdata_merge", "gctx_merge", "gctx_finish"}
                         /\ g \in f.gctxs)
       IN  /\ gctx[g].nlimbo >= n
           /\ gctx[g].nlimbo > n => "tctx" \in opt.oom

\* The sample of o is about to be replaced.
Sampling(o) == \E f \in AllFrames : f.pc = "sample" /\ f.o = o

\* The counters of a tctx are exact: prof_tctx_should_destroy decides by them.
CountsExact ==
    \A c \in Extant(tctx) :
       /\ tctx[c].curobjs = Objs(c) + Holders(LAMBDA f : f.pc = "free" /\ f.c = c
                                                       /\ ~f.gone /\ ~Sampling(f.o))
       /\ tctx[c].recent_count = Records(c) +
             Holders(LAMBDA f : f.pc \in {"recent_alloc", "recent_reserved",
                                          "recent_reset", "decrement_recent_count"}
                                /\ f.c = c)
       /\ tctx[c].prepared <=>
             \/ \E f \in AllFrames : /\ f.pc \in {"nominal", "sample", "prof_realloc"}
                                    /\ f.c = c
             \/ \E t \in Threads : th[t].ret = c

\* A profile is consistent: from the end of the merge until a gctx is finished,
\* its total is the sum of its tctxs' lines, whatever is freed meanwhile, and
\* the totals of all gctxs add up to the total of the profile.
ProfileAddsUp ==
    \A f \in AllFrames :
       /\ f.pc = "gctx_finish" =>
             \A g \in f.todo : gctx[g].sum = DumpedObjs(g)
       /\ f.pc = "gctx_merge" /\ f.todo = {} =>
             f.all = MapThenSumSet(LAMBDA g : gctx[g].sum, f.gctxs)

\* The keys of the red-black trees are distinct, though tctxs of one thread may
\* coexist in a gctx, as may tdatas of one thread.
TreeKeysDistinct ==
    /\ \A g \in Extant(gctx) : \A c1, c2 \in gctx[g].tctxs :
          tctx[c1].uid = tctx[c2].uid => c1 = c2
    /\ \A d1, d2 \in Extant(tdata) :
          << tdata[d1].uid, tdata[d1].discrim >> = << tdata[d2].uid, tdata[d2].discrim >>
             => d1 = d2

\* The list of recent allocations keeps to its limit, and is linked with the
\* objects it describes in both directions, also while it is dumped.
RecentExact ==
    /\ recent.count = Len(recent.list)
    /\ recent.max = Unlimited \/ recent.count <= recent.max
    /\ Cardinality(NodesListed) = Len(recent.list) + Len(recent.temp)
    /\ NodesListed = Extant(node)
    /\ \A n \in Extant(node) :
          /\ node[n].o # NULL => obj[node[n].o] # NULL /\ obj[node[n].o].rec = n
          /\ node[n].dalloc # NULL => node[n].o = NULL
    /\ \A o \in Extant(obj) :
          obj[o].rec # NULL => obj[o].rec \in Extant(node) /\ node[obj[o].rec].o = o

\* Nothing is leaked: when no call is in progress, and no object and no record
\* refers to a context, there is none, and every tdata belongs to a thread.
\* (A tctx that cannot be allocated leaves its gctx in limbo for ever.)
Reclaimed ==
    Quiet /\ ~opt.accum /\ "tctx" \notin opt.oom =>
       /\ \A c \in Extant(tctx) : Objs(c) + Records(c) > 0
       /\ \A g \in Extant(gctx) : gctx[g].tctxs # {} /\ gctx[g].nlimbo = 0
       /\ \A d \in Extant(tdata) : \/ \E t \in Threads : tsd[t].tdata = d
                                   \/ \E b \in Bts : tdata[d].bt2tctx[b] # NULL
=============================================================================
