---------------------------- MODULE MCStructures ----------------------------
(***************************************************************************)
(* The data structures and pure algorithms that the allocator is built     *)
(* from, for TLC: one structure per behaviour, chosen by kind; the others  *)
(* stay as they are initially.                                             *)
(***************************************************************************)
EXTENDS RbTree, PairingHeap, Bitmaps, Sizes, Decay, Rtree, Base, Entry, Tsd, Conf,
        Output, Ctl

CONSTANTS thr1, thr2

VARIABLE kind

\* Both ends of 16-bit words, and all carries out of the low byte.
SomeWords == 0 .. 70 \cup {65535 - x : x \in 0 .. 70}
               \cup {256 * x + 255 : x \in 0 .. 30}

\* The small sizes, and the neighbours of every class and power of two.
SomeSizes == 0 .. 300 \cup {65533, 65534, 65535}
               \cup {x + d : x \in {2 ^ i : i \in 8 .. 15} \cup {SizeOf(c) : c \in Range(sc_boot)},
                             d \in {-1, 0, 1}}
SomeUpdates == {[begin |-> 8, end |-> 224, pgs |-> 0],
                [begin |-> 8, end |-> 224, pgs |-> 100],
                [begin |-> 48, end |-> 48, pgs |-> 2]}

DecayTimes == {-1, 0, 1}
Smooth == <<0, 5, 10, 15, 16>>

\* Keys 2 and 3 share a leaf; the leaves of 3, 4 and 6 do not fit in L1 of the
\* cache.
KeysByThread == {thr1 :> {2} @@ thr2 :> {3}, thr1 :> {3, 4, 6} @@ thr2 :> {}}

PageClasses == <<4, 8, 12, 16, 20, 24>>
SomeRequests == {[kind |-> "alloc", size |-> 6, align |-> 1],
                 [kind |-> "rtree", size |-> 4, align |-> 2],
                 [kind |-> "stack", size |-> 1, align |-> 1]}
\* A failure to map memory for a stack races edata_avail (base.c:694): there
\* only one thread runs.
BaseOptions ==
  {[thp |-> "auto", a0 |-> TRUE, threads |-> {thr1, thr2},
    fails |-> {"alloc", "edata", "rtree"}],
   [thp |-> "always", a0 |-> FALSE, threads |-> {thr1, thr2}, fails |-> {}],
   [thp |-> "disabled", a0 |-> TRUE, threads |-> {thr1}, fails |-> {"stack"}]}

\* Requests of the public functions: small, at the boundaries of the classes and of
\* the largest class, and with products that overflow.
Ask(fn, num, size, a) == [fn |-> fn, num |-> num, size |-> size, alignment |-> a]
AskSizes == {0, 1, 40, 64, 100, 225, 257, 28672, 28673, 65535}
SomeAsks ==
  {Ask("malloc", 1, s, 0) : s \in AskSizes}
    \cup {Ask("calloc", n, s, 0) : n \in {0, 3, 256, 257, 32767},
                                   s \in {0, 1, 40, 256, 257, 65535}}
    \cup {Ask("aligned_alloc", 1, s, a) : s \in AskSizes, a \in {0, 16, 64, 128, 32768}}
    \cup {Ask("posix_memalign", 1, s, a) : s \in {40, 28673}, a \in {1, 3, 16}}
    \cup {Ask("mallocx", 1, s, a) : s \in AskSizes \ {0}, a \in {16, 128, 32768}}
    \cup {Ask(f, 1, s, 64) : f \in {"valloc", "pvalloc"}, s \in {100, 225, 28673}}
AskResize(fn, s, e, a) == [fn |-> fn, size |-> s, extra |-> e, alignment |-> a]
SomeResizes ==
  {AskResize("realloc", s, 0, 0) : s \in {0, 48, 300, 65535}}
    \cup {AskResize("rallocx", s, 0, a) : s \in {40, 300}, a \in {64, 128}}
    \cup {AskResize("xallocx", s, e, 64) : s \in {40, 300}, e \in {0, 65000}}
EntryOption(pad, d, prof, xm, z) ==
  [pad |-> pad, disabled |-> d, prof |-> prof, xmalloc |-> xm, zero_realloc |-> z]
EntryOptions == {EntryOption(0, FALSE, TRUE, FALSE, "alloc"),
                 EntryOption(64, FALSE, FALSE, FALSE, "free"),
                 EntryOption(64, TRUE, TRUE, TRUE, "abort")}

\* A thread's sizes, its calls, and the events that users register.
ThreadOption(m, f, calls, slow, tcache, users) ==
  [mallocs |-> m, frees |-> f, calls |-> calls, slow |-> slow, tcache |-> tcache,
   users |-> users, anytime |-> FALSE]
Every3 == [interval |-> 3, alloc_only |-> FALSE]
Every1 == [interval |-> 1, alloc_only |-> TRUE]
ThreadOptions == {ThreadOption({2, 5}, {}, {"exit"}, FALSE, TRUE, {Every3, Every1}),
                  ThreadOption({8}, {2, 5}, {"exit", "tcache"}, FALSE, TRUE, {}),
                  ThreadOption({8}, {2}, {"exit"}, FALSE, FALSE, {Every3}),
                  ThreadOption({5}, {}, {"exit"}, TRUE, TRUE, {})}
Waits == <<6>>

\* Every short string over the characters that conf_next tells apart, and pairs of
\* every kind in two sources.
Strings(S, n) == UNION {[1 .. k -> S] : k \in 0 .. n}
SomePairs == {<<"u", ":", "3">>, <<"u", ":", "9">>, <<"c", ":", "9">>, <<"b", ":", "t">>,
              <<"b", ":", "f">>, <<"A", ":", "t">>, <<>>}
SomeInputs == {<<>>} \cup {<<s>> : s \in Strings({"u", ":", ",", "9", "."}, 4)}
                \cup {<<p \o <<",">> \o q, r>> : p, q, r \in SomePairs}
SomeNumbers == Strings({"0", "1", "7", "9", "x", "a", "-", " "}, 3)

\* JSON through no buffer and through a small one, and the table.
OutputOption(o, s) == [output |-> o, size |-> s, backup |-> 2]
OutputOptions == {OutputOption("json", 0), OutputOption("json", 3),
                  OutputOption("table", 2)}

\* Names of every depth, complete, partial, too long and wrong.
Elements == {"version", "arena", "arenas", "stats", "nmalloc", "destroy", "", "1", "3",
             "4097"}
SomeNames ==
  UNION {[1 .. n -> Elements] : n \in 1 .. 2}
    \cup {<<"arena", i, e>> : i \in {"0", "2", "3", "4096", "x"},
                              e \in {"destroy", "nmalloc", ""}}
    \cup {<<"stats", "arenas", i, e>> : i \in {"0", "2", "3", "4096", "4097"},
                                        e \in {"curregs", "destroy"}}
    \cup {<<"arena", "0", "destroy", "1">>, <<"stats", "arenas", "0", "nmalloc", "1">>}

Kinds == {"rb", "ph", "bitmap", "fb", "word", "size", "slab", "decay", "rtree", "base",
          "entry", "tsd", "conf", "output", "ctl"}

allvars == <<kind, tab, tree, phvars, bmvars, word, sz, decayvars, rtvars, bsvars, ent,
             tsvars, cf, outvars, ct>>

\* What is chosen at the start matters to one kind only.
Init ==
  /\ kind \in Kinds
  /\ sz_boot
  /\ RbInit /\ PhInit /\ FbInit /\ CtInit
  /\ RtInit /\ (kind # "rtree" => rtkeys[thr2] = {})
  /\ IF kind = "bitmap" THEN BitmapInit
     ELSE LET info == bitmap_info_init(3, TRUE)
          IN  bm = [info |-> info, map |-> bitmap_init(info, FALSE)]
  /\ IF kind = "word" THEN WordInit ELSE word = 0
  /\ IF kind \in {"size", "slab"} THEN SzInit ELSE sz = 0
  /\ kind = "slab" => sz.size = 0 /\ sz.pad = 0 /\ sz.disabled
  /\ IF kind = "decay" THEN DecayInit
     ELSE decay = DecayNew /\ clock = 0 /\ timer_scale = 1
          /\ monotonic = TRUE
  /\ BsInit /\ (kind # "base" => bsopt.thp = "always")
  /\ EntInit /\ (kind # "entry" => ent.opt.xmalloc)
  /\ TsdInit /\ (kind # "tsd" => tsopt.slow)
  /\ OutInit /\ (kind # "output" => oopt.output = "table")
  /\ IF kind = "conf" THEN CfInit ELSE cf = 0

Next ==
  /\ UNCHANGED <<kind, tab>>
  /\ \/ /\ kind = "rb" /\ RbNext
        /\ UNCHANGED <<phvars, bmvars, word, sz, decayvars, rtvars, bsvars, ent,
                      tsvars, cf, outvars, ct>>
     \/ /\ kind = "ph" /\ PhNext
        /\ UNCHANGED <<tree, bmvars, word, sz, decayvars, rtvars, bsvars, ent, tsvars,
                      cf, outvars, ct>>
     \/ /\ kind = "bitmap" /\ BitmapNext
        /\ UNCHANGED <<tree, phvars, word, sz, decayvars, rtvars, bsvars, ent, tsvars,
                      cf, outvars, ct>>
     \/ /\ kind = "fb" /\ FbNext
        /\ UNCHANGED <<tree, phvars, word, sz, decayvars, rtvars, bsvars, ent, tsvars,
                      cf, outvars, ct>>
     \/ /\ kind = "word" /\ WordNext
        /\ UNCHANGED <<tree, phvars, bmvars, sz, decayvars, rtvars, bsvars, ent,
                      tsvars, cf, outvars, ct>>
     \/ /\ kind = "slab" /\ SzNext
        /\ UNCHANGED <<tree, phvars, bmvars, word, decayvars, rtvars, bsvars, ent,
                      tsvars, cf, outvars, ct>>
     \/ /\ kind = "decay" /\ DecayNext
        /\ UNCHANGED <<tree, phvars, bmvars, word, sz, rtvars, bsvars, ent, tsvars, cf,
                      outvars, ct>>
     \/ /\ kind = "rtree" /\ RtNext
        /\ UNCHANGED <<tree, phvars, bmvars, word, sz, decayvars, bsvars, ent, tsvars,
                      cf, outvars, ct>>
     \/ /\ kind = "base" /\ BsNext
        /\ UNCHANGED <<tree, phvars, bmvars, word, sz, decayvars, rtvars, ent, tsvars,
                      cf, outvars, ct>>
     \/ /\ kind = "entry" /\ EntNext
        /\ UNCHANGED <<tree, phvars, bmvars, word, sz, decayvars, rtvars, bsvars,
                      tsvars, cf, outvars, ct>>
     \/ /\ kind = "tsd" /\ TsdNext
        /\ UNCHANGED <<tree, phvars, bmvars, word, sz, decayvars, rtvars, bsvars, ent,
                      cf, outvars, ct>>
     \/ /\ kind = "conf" /\ CfNext
        /\ UNCHANGED <<tree, phvars, bmvars, word, sz, decayvars, rtvars, bsvars, ent,
                      tsvars, outvars, ct>>
     \/ /\ kind = "output" /\ OutNext
        /\ UNCHANGED <<tree, phvars, bmvars, word, sz, decayvars, rtvars, bsvars, ent,
                      tsvars, cf, ct>>
     \/ /\ kind = "ctl" /\ CtNext
        /\ UNCHANGED <<tree, phvars, bmvars, word, sz, decayvars, rtvars, bsvars, ent,
                      tsvars, cf, outvars>>

Spec == Init /\ [][Next]_allvars

-----------------------------------------------------------------------------

(* The tree of rb.h is balanced and ordered, and every search, iteration   *)
(* and filtered search answers as a sorted set does, after any sequence of *)
(* insertions, removals and updates of summaries.                          *)
RbTreeAnswers ==
  kind = "rb" => RbShape /\ RbAnswers /\ RbFilteredAnswers

(* The trees and heaps that the extents, the arenas' unused edatas and the *)
(* metadata blocks are kept in have their shape: rb.h and ph.h.            *)
TreesSound == RbTreeAnswers /\ (kind = "ph" => PhShape)

(* bitmap.h with its tree of summary groups, fb.h, and the scans of        *)
(* bit_util.h answer what the set of bits says.                            *)
BitsAnswer ==
  /\ kind = "bitmap" => BitmapAnswers
  /\ kind = "fb" => FbAnswers
  /\ kind = "word" => WordsAgree

(* The tables, the computations and the fast paths of sz.h and sc.c give   *)
(* one size class for every request.                                       *)
SizeClassesAgree == kind \in {"size", "slab"} => SizesAgree

(* The limits, deadlines and sleeps of decay.c stay in their bounds.       *)
DecayBounded == kind = "decay" => DecayHolds

(* Every lookup in the radix tree finds what was written last, and no read *)
(* of a foreign key is torn.                                               *)
RtreeAnswers == kind = "rtree" => RtAnswers /\ RtNotTorn

(* Metadata allocations never overlap, and their statistics add up.        *)
BaseApart == kind = "base" => BaseSound

(* The events of a thread come neither early nor more than one step late,  *)
(* and the thread-specific data is torn down once, whatever the            *)
(* destructors do (thread_event.c, tsd.c).                                 *)
ThreadsSound == kind = "tsd" => TeAsserts /\ EventsTimely /\ TsdCleaned

(* What the public functions return has the size, the alignment and the    *)
(* zeroing that were asked for, and is freed by size from its own class    *)
(* (jemalloc.c).                                                           *)
EntrySound == kind = "entry" => EntryHonest

(* The options are those the strings say, numbers included (conf.c,        *)
(* malloc_strtoumax), and what is printed is well-formed and complete,     *)
(* through any buffer (emitter.h, buf_writer.c).                           *)
TextExact == /\ kind = "conf" => ConfLastWins /\ StrtoumaxExact
             /\ kind = "output" => OutputExact

(* Names and MIBs reach the same handlers, and the statistics of arenas    *)
(* that come and go add up (ctl.c).                                        *)
CtlSound == kind = "ctl" => LookupsAgree /\ StatsAddUp
=============================================================================
