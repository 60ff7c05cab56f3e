------------------------------- MODULE Dss -------------------------------
(*
Allocation from the data segment (extent_dss.c).  Threads grow the program
break with sbrk under a spin lock of their own, dss_extending.  Code outside the
allocator may call sbrk as well, and takes no lock: it moves the break between
the allocator's reading of it and the allocator's own sbrk.

Addresses are counted in units of which DssPage make a page, the break may start
and be left inside a page.  dss_base is the break at boot.
Operators named X_<bug> are X with a bug that the properties must detect.
*)
EXTENDS Integers, FiniteSets

CONSTANTS
    DssThreads,     \* threads that allocate from the dss
    DssPage,        \* units of a page
    DssBase,        \* the break when extent_dss_boot runs
    DssLimit,       \* sbrk fails past this address
    DssWord,        \* addresses wrap at this value
    DssRequests,    \* <<size, alignment>> of the calls, multiples of DssPage
    DssRawSizes,    \* increments of sbrk calls outside the allocator
    DssMaxRaw,      \* bound: number of those calls
    DssEdatas       \* bound: edata_t structures of the arena's edata cache

(* Pages and alignments are powers of two and divide the address space; a size is
   positive as an intptr_t and an alignment is at most the largest size class, so
   that a request, its alignment and a page do not exceed the address space. *)
ASSUME DssAssumption ==
    /\ DssPage \in Nat \ {0} /\ DssBase \in Nat /\ DssWord \in Nat
    /\ DssLimit \in Nat /\ DssBase <= DssLimit /\ DssLimit < DssWord
    /\ DssWord % DssPage = 0
    /\ DssRequests \subseteq (Nat \ {0}) \X (Nat \ {0})
    /\ \A r \in DssRequests : /\ r[1] % DssPage = 0 /\ r[2] % DssPage = 0
                              /\ DssWord % r[2] = 0
                              /\ r[1] + r[2] + DssPage <= DssWord
    /\ DssRawSizes \subseteq Nat \ {0}
    /\ DssEdatas \in Nat /\ IsFiniteSet(DssThreads)

VARIABLES
    dss,    \* [brk, max, extending, exhausted, edatas, ours, gaps, raw, raws]
    dsc     \* thread -> its call

dssvars == << dss, dsc >>

DssIdle == [pc |-> "idle", size |-> 0, align |-> 0, at |-> 0, cur |-> 0]

(* The units of an extent. *)
Span(e) == e[1] .. e[1] + e[2] - 1
Spans(S) == UNION {Span(e) : e \in S}

(* ALIGNMENT_ADDR2CEILING, in the address word. *)
AddrCeiling(a, align) == (((a + align - 1) \div align) * align) % DssWord

extent_dss_boot ==
    [brk |-> DssBase, max |-> DssBase, extending |-> FALSE, exhausted |-> FALSE,
     edatas |-> DssEdatas, ours |-> {}, gaps |-> {}, raw |-> {}, raws |-> 0]

DssInit == dss = extent_dss_boot /\ dsc = [t \in DssThreads |-> DssIdle]

DssGoto(t, r) == dsc' = [dsc EXCEPT ![t] = r]

(* extent_alloc_dss up to the spin lock: with no edata_t for the gap the call
   returns NULL and leaves everything alone.  at is new_addr, 0 for NULL: the end
   of one of our extents, to expand it in place. *)
extent_alloc_dss(t) == \E r \in DssRequests,
                          at \in {0} \cup {e[1] + e[2] : e \in dss.ours} :
    /\ dsc[t].pc = "idle"
    /\ dss.edatas > 0
    /\ DssGoto(t, [pc |-> "start", size |-> r[1], align |-> r[2], at |-> at,
                   cur |-> 0])
    /\ dss' = [dss EXCEPT !.edatas = @ - 1]

(* The compare-and-swap of extent_dss_extending_start that succeeds. *)
extent_dss_extending_start(t) ==
    /\ dsc[t].pc = "start"
    /\ ~dss.extending
    /\ dss' = [dss EXCEPT !.extending = TRUE]
    /\ DssGoto(t, [dsc[t] EXCEPT !.pc = IF dss.exhausted THEN "oom" ELSE "update"])

(* sbrk(0), and the refusal of an address that is not the edge of the dss. *)
extent_dss_max_update(t) ==
    /\ dsc[t].pc = "update"
    /\ dss' = [dss EXCEPT !.max = dss.brk]
    /\ DssGoto(t, [dsc[t] EXCEPT
           !.pc = IF dsc[t].at \in {0, dss.brk} THEN "extend" ELSE "oom",
           !.cur = dss.brk])

(* The extent the call wants above cur, the page-aligned gap below it, and the
   address past its end. *)
DssRet(c) == AddrCeiling(AddrCeiling(c.cur, DssPage), c.align)
DssGap(c) == << AddrCeiling(c.cur, DssPage), DssRet(c) - AddrCeiling(c.cur, DssPage) >>
DssEnd(c) == (DssRet(c) + c.size) % DssWord
DssWraps(c) == DssRet(c) < c.cur \/ DssEnd(c) < c.cur
DssIncr(c) == DssRet(c) - c.cur + c.size

(* sbrk(incr): the system refuses past its limit. *)
SbrkFails(incr) == dss.brk + incr > DssLimit

DssGives(t) ==
    /\ dsc[t].pc = "extend"
    /\ DssWraps(dsc[t])
    /\ DssGoto(t, [dsc[t] EXCEPT !.pc = "oom"])
    /\ UNCHANGED dss

DssExhausted(t) ==
    /\ dsc[t].pc = "extend"
    /\ ~DssWraps(dsc[t])
    /\ SbrkFails(DssIncr(dsc[t]))
    /\ dss' = [dss EXCEPT !.exhausted = TRUE]
    /\ DssGoto(t, [dsc[t] EXCEPT !.pc = "oom"])

(* The allocator's sbrk succeeds.  What it returns tells whether the break moved
   since it was read: then the memory just obtained is not used, and the loop
   starts over. *)
DssExtend_unchecked(t) ==
    /\ dsc[t].pc = "extend"
    /\ ~DssWraps(dsc[t])
    /\ ~SbrkFails(DssIncr(dsc[t]))
    /\ dss' = [dss EXCEPT !.brk = @ + DssIncr(dsc[t])]
    /\ DssGoto(t, [dsc[t] EXCEPT !.pc = "store"])

DssExtend(t) ==
    /\ dsc[t].pc = "extend"
    /\ ~DssWraps(dsc[t])
    /\ ~SbrkFails(DssIncr(dsc[t]))
    /\ dss' = [dss EXCEPT !.brk = @ + DssIncr(dsc[t])]
    /\ DssGoto(t, [dsc[t] EXCEPT !.pc = IF dss.brk = dsc[t].cur THEN "store"
                                        ELSE "update"])

(* Success: dss_max, then the end of the critical section. *)
DssStore(t) ==
    /\ dsc[t].pc = "store"
    /\ dss' = [dss EXCEPT !.max = DssEnd(dsc[t]), !.extending = FALSE]
    /\ DssGoto(t, [dsc[t] EXCEPT !.pc = "gap"])

(* The gap becomes a free extent (extent_dalloc_gap), or its edata_t goes back to
   the cache; the caller has the extent. *)
DssReturn(t) ==
    LET c == dsc[t] IN
    /\ c.pc = "gap"
    /\ dss' = IF DssGap(c)[2] # 0
              THEN [dss EXCEPT !.ours = @ \cup {<<DssRet(c), c.size>>},
                               !.gaps = @ \cup {DssGap(c)}]
              ELSE [dss EXCEPT !.ours = @ \cup {<<DssRet(c), c.size>>},
                               !.edatas = @ + 1]
    /\ DssGoto(t, DssIdle)

(* label_oom. *)
DssOom_held(t) ==
    /\ dsc[t].pc = "oom"
    /\ dss' = [dss EXCEPT !.edatas = @ + 1]
    /\ DssGoto(t, DssIdle)

DssOom(t) ==
    /\ dsc[t].pc = "oom"
    /\ dss' = [dss EXCEPT !.extending = FALSE, !.edatas = @ + 1]
    /\ DssGoto(t, DssIdle)

(* Code outside the allocator takes memory with sbrk, and gives back what it took
   when that is the top of the segment. *)
RawSbrk == \E n \in DssRawSizes :
    /\ dss.raws < DssMaxRaw /\ ~SbrkFails(n)
    /\ dss' = [dss EXCEPT !.brk = @ + n, !.raws = @ + 1,
                          !.raw = @ \cup {<<dss.brk, n>>}]
    /\ UNCHANGED dsc

RawRelease == \E e \in dss.raw :
    /\ e[1] + e[2] = dss.brk
    /\ dss' = [dss EXCEPT !.brk = e[1], !.raw = @ \ {e}]
    /\ UNCHANGED dsc

DssStep(t) ==
    \/ extent_dss_extending_start(t) \/ extent_dss_max_update(t)
    \/ DssGives(t) \/ DssExhausted(t) \/ DssExtend(t)
    \/ DssStore(t) \/ DssReturn(t) \/ DssOom(t)

DssNext == \/ \E t \in DssThreads : extent_alloc_dss(t) \/ DssStep(t)
           \/ RawSbrk \/ RawRelease

DssSpec == DssInit /\ [][DssNext]_dssvars /\ \A t \in DssThreads : SF_dssvars(DssStep(t))

-----------------------------------------------------------------------------
(* extent_in_dss, and what extent_dss_mergeable answers about two addresses. *)
extent_in_dss(a) == DssBase <= a /\ a < dss.max
extent_dss_mergeable(a, b) ==
    \/ a < DssBase /\ b < DssBase
    \/ extent_in_dss(a) = extent_in_dss(b)

(* What the call of t has obtained and not yet handed over. *)
Obtained(c) == {e \in {<<DssRet(c), c.size>>, DssGap(c)} : e[2] # 0}
Taken(t) == IF dsc[t].pc \in {"store", "gap"} THEN Obtained(dsc[t]) ELSE {}

(* No byte has two owners among the extents given out, the gaps recycled, the
   memory of the code outside and what a call is about to return, whatever the
   order of the sbrk calls; all of it is below the break; extent_in_dss knows every
   extent and gap, so that any two of them may merge and none with memory below the
   dss (extent_alloc_dss, extent_in_dss, extent_dss_mergeable); and no edata_t is
   lost on the way. *)
DssApart ==
    LET all == dss.ours \cup dss.gaps \cup dss.raw IN
    /\ \A e, f \in all : e # f => Span(e) \cap Span(f) = {}
    /\ dss.ours \cap dss.gaps = {} /\ (dss.ours \cup dss.gaps) \cap dss.raw = {}
    /\ \A t \in DssThreads : \A e \in Taken(t) :
          /\ \A f \in all : Span(e) \cap Span(f) = {}
          /\ \A u \in DssThreads \ {t} : \A f \in Taken(u) : Span(e) \cap Span(f) = {}
    /\ \A e \in all : e[1] + e[2] <= dss.brk
    /\ \A e \in dss.ours \cup dss.gaps :
          /\ e[1] % DssPage = 0
          /\ \A a \in Span(e) : extent_in_dss(a) /\ ~extent_dss_mergeable(a, DssBase - 1)
    /\ dss.edatas + Cardinality(dss.gaps)
          + Cardinality({t \in DssThreads : dsc[t].pc # "idle"}) = DssEdatas

(* The inductive invariant.  One thread at a time is between the start and the end
   of the critical section; what it read of the break bounds all that the allocator
   owns; extents are apart because one ends where or before the other begins. *)
DssCall == [pc : {"idle", "start", "gap", "update", "extend", "store", "oom"},
            size : Nat, align : Nat, at : Nat, cur : 0 .. DssLimit]

DssTypeOK ==
    /\ dss \in [brk : DssBase .. DssLimit, max : Nat, extending : BOOLEAN,
                exhausted : BOOLEAN, edatas : Int, ours : SUBSET (Nat \X Nat),
                gaps : SUBSET (Nat \X Nat), raw : SUBSET (Nat \X Nat), raws : Nat]
    /\ dsc \in [DssThreads -> DssCall]

Ends(e, a) == e[1] + e[2] <= a
DisjointFrom(e, f) == Ends(e, f[1]) \/ Ends(f, e[1])
Proper(e) == DssBase <= e[1] /\ e[2] > 0 /\ Ends(e, dss.brk)

DssMine == dss.ours \cup dss.gaps
DssAll == DssMine \cup dss.raw

Extending(t) == dsc[t].pc \in {"update", "extend", "store", "oom"}

DssExclusive ==
    /\ \A t \in DssThreads : Extending(t) => dss.extending
    /\ \A t, u \in DssThreads : Extending(t) /\ Extending(u) => t = u

DssCallOK(c) ==
    /\ c.pc # "idle" => <<c.size, c.align>> \in DssRequests
    /\ c.pc \in {"extend", "store", "gap"} => DssBase <= c.cur
    /\ c.pc \in {"store", "gap"} => ~DssWraps(c)

DssBelow(t, cur) ==
    /\ \A e \in DssMine : Ends(e, cur)
    /\ \A u \in DssThreads \ {t} : \A e \in Taken(u) : Ends(e, cur)

DssTakenOK(t) ==
    \A e \in Taken(t) :
        /\ Proper(e)
        /\ \A f \in DssAll : DisjointFrom(e, f)
        /\ \A u \in DssThreads \ {t} : \A f \in Taken(u) : DisjointFrom(e, f)
        /\ dsc[t].pc = "gap" => Ends(e, dss.max)

DssOwnedOK ==
    /\ dss.ours \cap dss.gaps = {} /\ DssMine \cap dss.raw = {}
    /\ \A e \in DssAll : Proper(e)
    /\ \A e, f \in DssAll : e # f => DisjointFrom(e, f)
    /\ \A e \in DssMine : e[1] % DssPage = 0 /\ Ends(e, dss.max)

DssBusy == {t \in DssThreads : dsc[t].pc # "idle"}

DssCounted ==
    /\ IsFiniteSet(dss.gaps)
    /\ dss.edatas + Cardinality(dss.gaps) + Cardinality(DssBusy) = DssEdatas

DssInv ==
    /\ DssTypeOK /\ DssExclusive /\ DssOwnedOK /\ DssCounted
    /\ \A t \in DssThreads :
         /\ DssCallOK(dsc[t])
         /\ dsc[t].pc \in {"extend", "store"} => DssBelow(t, dsc[t].cur)
         /\ DssTakenOK(t)

(* Every call returns: a thread that spins on dss_extending gets it, and the loop
   that recovers from outside sbrk calls ends once they do. *)
DssReturns == \A t \in DssThreads : dsc[t].pc # "idle" ~> dsc[t].pc = "idle"
=============================================================================
