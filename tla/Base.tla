-------------------------------- MODULE Base --------------------------------
(***************************************************************************)
(* The metadata allocator of src/base.c: blocks of mapped memory, bump     *)
(* allocation from the unused ends of blocks, and the reuse of thread      *)
(* cache stacks.  Sizes are in quanta; a block is its own address space    *)
(* that starts with the header.  An edata is named by what holds it: the   *)
(* header of a block, <<b, 0>>, or an allocation, <<b, offset>>.           *)
(*                                                                         *)
(* base_block_alloc runs without the mutex, so it is several steps; what   *)
(* base_alloc_impl does under the mutex is one.  The fields edata_avail    *)
(* (on the way out of b0_alloc_tcache_stack), pind_last, extent_sn_next    *)
(* and edata_allocated are also changed without the mutex.                 *)
(***************************************************************************)
EXTENDS Integers, Sequences, FiniteSets, Folds, TLC

CONSTANTS BsThreads, BsRequests, BsClasses, BsHeader, BsPage, BsHugepage,
          BsPsizes, BsBaseSize, BsEdataSize, BsMaxBlocks, BsOptions,
          BASE_BLOCK_GROWTH_MAX, BASE_AUTO_THP_THRESHOLD,
          BASE_AUTO_THP_THRESHOLD_A0

VARIABLES bsopt, base, edatas, bscall

bsvars == <<bsopt, base, edatas, bscall>>

BsCeil(x, a) == ((x + a - 1) \div a) * a
BsNone == <<0, 0>>
IndexCeil(s) == CHOOSE c \in BsClasses :
                  c >= s /\ \A d \in BsClasses : d >= s => c <= d
IndexFloor(s) == CHOOSE c \in BsClasses :
                   c <= s /\ \A d \in BsClasses : d <= s => d <= c
BlockIds == {base.blocks[i] : i \in DOMAIN base.blocks}
BsMin(x, y) == IF x < y THEN x ELSE y
Quanta(b, start, len) == {<<b, i>> : i \in start .. start + len - 1}
SumBlocks(f(_), s) == MapThenFoldSet(LAMBDA x, y : x + y, 0, f, LAMBDA S : CHOOSE x \in S : TRUE,
                                   {s[i] : i \in DOMAIN s})
num_blocks == Len(base.blocks)

-----------------------------------------------------------------------------
(* Bump allocation. *)

(* The first edata of the first heap that is sure to hold the request, by  *)
(* serial number and address.                                              *)
Fitting(asize) == {e \in base.avail :
                   IndexFloor(edatas[e].len) >= IndexCeil(asize)}
Before(d, e) ==
  LET x == edatas[d]
      y == edatas[e]
      cx == IndexFloor(x.len)
      cy == IndexFloor(y.len)
  IN  \/ cx < cy
      \/ cx = cy /\ x.sn < y.sn
      \/ cx = cy /\ x.sn = y.sn /\ x.block < y.block
      \/ cx = cy /\ x.sn = y.sn /\ x.block = y.block /\ x.start <= y.start
AvailFirst(asize) ==
  CHOOSE d \in Fitting(asize) : \A e \in Fitting(asize) : Before(d, e)

EdataAvailFirst ==
  CHOOSE d \in base.edata_avail :
    \A e \in base.edata_avail : d[1] < e[1] \/ (d[1] = e[1] /\ d[2] <= e[2])

(* base_extent_bump_alloc: cut usize quanta off edata e, put the rest of   *)
(* it back or keep the empty edata, count; b is the base, ed the edatas.   *)
Cut(b, ed, e, usize, align) ==
  LET x == ed[e]
      at == BsCeil(x.start, align)
      gap == at - x.start
      rest == [x EXCEPT !.start = at + usize, !.len = x.len - gap - usize]
      counted == ~x.reused
      pages == BsCeil(at + usize, BsPage) - BsCeil(x.start, BsPage)
      huges == BsCeil(at + usize, BsHugepage) - BsCeil(x.start, BsHugepage)
      thp == \/ bsopt.thp = "always"
             \/ bsopt.thp = "auto" /\ b.auto_thp_switched
  IN  [ret |-> [block |-> x.block, start |-> at, len |-> usize],
       sn |-> x.sn,
       edatas |-> [ed EXCEPT ![e] = rest],
       base |-> [b EXCEPT
         !.avail = (@ \ {e}) \cup (IF rest.len > 0 THEN {e} ELSE {}),
         !.edata_avail = @ \cup (IF rest.len > 0 THEN {} ELSE {e}),
         !.allocated = @ + IF counted THEN usize ELSE 0,
         !.resident = @ + IF counted THEN pages ELSE 0,
         !.n_thp = @ + IF counted /\ thp THEN huges \div BsHugepage ELSE 0]]

-----------------------------------------------------------------------------
(* Calls.  A call wants memory of one kind; a stack first wants an edata   *)
(* that will manage it.                                                    *)

BsIdle == [pc |-> "idle"]

BaseSize(kind, r) == CASE kind = "stack" -> IndexCeil(r.size + 1)
                   [] kind = "edata" -> BsEdataSize
                   [] OTHER -> r.size
BaseAlign(kind, r) == CASE kind = "stack" -> 1
                    [] kind = "edata" -> BsEdataSize
                    [] OTHER -> r.align
BaseUsize(kind, r) == BsCeil(BaseSize(kind, r), BaseAlign(kind, r))

(* What follows an allocation: hand the memory out, or go on to the stack. *)
Served(t, call, cut) ==
  LET region == cut.ret
      held == <<region.block, region.start>>
      owner == IF call.kind = "stack" THEN call.edata ELSE BsNone
      new == IF call.kind = "stack"
             THEN [cut.edatas EXCEPT ![call.edata] =
                     [block |-> region.block, start |-> region.start,
                      len |-> region.len, sn |-> cut.sn, reused |-> TRUE]]
             ELSE IF call.kind = "edata"
             THEN [e \in DOMAIN cut.edatas \cup {held} |->
                     IF e = held
                     THEN [block |-> 0, start |-> 0, len |-> 0, sn |-> 0,
                           reused |-> FALSE]
                     ELSE cut.edatas[e]]
             ELSE cut.edatas
  IN  /\ edatas' = new
      /\ base' = [cut.base EXCEPT
                    !.live = @ \cup {[region |-> region, kind |-> call.kind,
                                      owner |-> owner]},
                    !.dirty = @ \cup Quanta(region.block, region.start,
                                            region.len)]
      /\ bscall' = [bscall EXCEPT ![t] =
           IF call.kind = "edata" \/ call.r.kind = "rtree"
           THEN [call EXCEPT !.pc = "count", !.edata = held,
                             !.read = IF call.kind = "edata"
                                      THEN base.edata_allocated
                                      ELSE base.rtree_allocated]
           ELSE BsIdle]

(* base_alloc_impl up to the block: reuse what is there, or drop the mutex *)
(* to map more.                                                            *)
base_alloc_impl(t, call) ==
  LET usize == BaseUsize(call.kind, call.r)
      align == BaseAlign(call.kind, call.r)
      asize == usize + align - 1
  IN  IF Fitting(asize) # {}
      THEN Served(t, call, Cut(base, edatas, AvailFirst(asize), usize, align))
      ELSE /\ bscall' = [bscall EXCEPT ![t] = [call EXCEPT !.pc = "map"]]
           /\ UNCHANGED <<base, edatas>>

NewCall(kind, r) ==
  [pc |-> "alloc", kind |-> kind, r |-> r, edata |-> BsNone, block |-> 0,
   size |-> 0, sn |-> 0, read |-> 0, avail |-> {}]

(* base_alloc, base_alloc_edata, base_alloc_rtree. *)
BaseAlloc(t) ==
  \E r \in BsRequests :
    /\ bscall[t] = BsIdle
    /\ r.kind # "stack"
    /\ base_alloc_impl(t, NewCall(r.kind, r))
    /\ UNCHANGED bsopt

(* b0_alloc_tcache_stack, base_alloc_base_edata. *)
b0_alloc_tcache_stack(t) ==
  \E r \in BsRequests :
    /\ bscall[t] = BsIdle
    /\ r.kind = "stack" /\ bsopt.a0
    /\ IF base.edata_avail # {}
       THEN /\ base' = [base EXCEPT !.edata_avail = @ \ {EdataAvailFirst}]
            /\ bscall' = [bscall EXCEPT ![t] =
                 [NewCall("stack", r) EXCEPT !.edata = EdataAvailFirst]]
            /\ UNCHANGED edatas
       ELSE base_alloc_impl(t, NewCall("edata", r))
    /\ UNCHANGED bsopt

(* The allocation of the stack itself. *)
BaseGoOn(t) ==
  /\ bscall[t].pc = "alloc"
  /\ base_alloc_impl(t, bscall[t])
  /\ UNCHANGED bsopt

(* The statistics that base_alloc_edata and base_alloc_rtree keep after    *)
(* the mutex is dropped: the value read before may be stale.               *)
BaseCount(t) ==
  LET call == bscall[t]
      usize == BaseUsize(call.kind, call.r)
  IN  /\ call.pc = "count"
      /\ base' = IF call.kind = "edata"
                 THEN [base EXCEPT !.edata_allocated = call.read + usize]
                 ELSE [base EXCEPT !.rtree_allocated = call.read + usize]
      /\ bscall' = [bscall EXCEPT ![t] =
           IF call.r.kind = "stack"
           THEN [call EXCEPT !.pc = "alloc", !.kind = "stack"]
           ELSE BsIdle]
      /\ UNCHANGED <<bsopt, edatas>>

-----------------------------------------------------------------------------
(* base_block_alloc, without the mutex. *)

(* The page size classes, and the sizes of blocks: whole huge pages. *)
BsPind2sz(p) == BsPsizes[p + 1]
BsPsz2ind(s) == CHOOSE p \in 0 .. Len(BsPsizes) - 1 :
                   /\ BsPind2sz(p) >= s
                   /\ \A q \in 0 .. p - 1 : BsPind2sz(q) < s

(* A block is one page class larger than the last one, up to GROWTH_MAX,   *)
(* and at least as large as the request needs.                             *)
BlockSize(pind_last, usize, align) ==
  LET least == BsCeil(BsPind2sz(BsPsz2ind(BsCeil(BsHeader, align) + usize)),
                      BsHugepage)
      pind_next == IF pind_last + 1 < Len(BsPsizes) - 1
                   THEN pind_last + 1 ELSE pind_last
      next == BsMin(BsCeil(BsPind2sz(pind_next), BsHugepage),
                    BsCeil(BASE_BLOCK_GROWTH_MAX, BsHugepage))
  IN  IF least > next THEN least ELSE next

(* base_map; without memory the call fails, and b0_alloc_tcache_stack is   *)
(* about to put its edata back.                                            *)
base_map(t) ==
  LET call == bscall[t] IN
  /\ call.pc = "map"
  /\ \/ /\ base.nmapped < BsMaxBlocks
        /\ base' = [base EXCEPT !.nmapped = @ + 1]
        /\ bscall' = [bscall EXCEPT ![t] =
             [call EXCEPT !.block = base.nmapped + 1,
                          !.size = BlockSize(base.pind_last,
                                             BaseUsize(call.kind, call.r),
                                             BaseAlign(call.kind, call.r)),
                          !.pc = IF bsopt.thp = "auto" THEN "thp"
                                 ELSE "init"]]
     \/ /\ call.kind \in bsopt.fails
        /\ bscall' = [bscall EXCEPT ![t] =
             IF call.kind = "stack"
             THEN [call EXCEPT !.pc = "giveback", !.avail = base.edata_avail]
             ELSE BsIdle]
        /\ UNCHANGED base
  /\ UNCHANGED <<bsopt, edatas>>

(* base_auto_thp_switch, under the mutex: base_get_num_blocks counts the   *)
(* blocks that are linked, and the one that is being added.                *)
base_auto_thp_switch(t) ==
  LET threshold == IF bsopt.a0 THEN BASE_AUTO_THP_THRESHOLD_A0
                   ELSE BASE_AUTO_THP_THRESHOLD
      switch == ~base.auto_thp_switched /\ num_blocks + 1 = threshold
      touched(b) == BsCeil(base.sizes[b] - edatas[<<b, 0>>].len, BsHugepage)
                      \div BsHugepage
  IN  /\ bscall[t].pc = "thp"
      /\ base' = IF switch
                 THEN [base EXCEPT
                         !.auto_thp_switched = TRUE,
                         !.huge = @ \cup BlockIds \cup {bscall[t].block},
                         !.n_thp = @ + SumBlocks(touched, base.blocks)]
                 ELSE IF base.auto_thp_switched
                 THEN [base EXCEPT !.huge = @ \cup {bscall[t].block}]
                 ELSE base
      /\ bscall' = [bscall EXCEPT ![t].pc = "init"]
      /\ UNCHANGED <<bsopt, edatas>>

(* The rest of base_block_alloc, still without the mutex: the block gets   *)
(* the serial number that is next.                                         *)
base_edata_init(t) ==
  LET call == bscall[t] IN
  /\ call.pc = "init"
  /\ base' = [base EXCEPT !.pind_last = BsPsz2ind(call.size)]
  /\ bscall' = [bscall EXCEPT ![t] =
                  [call EXCEPT !.pc = "link", !.sn = base.extent_sn_next]]
  /\ UNCHANGED <<bsopt, edatas>>

Grow(f, x, y) == [z \in DOMAIN f \cup {x} |-> IF z = x THEN y ELSE f[z]]

(* base_extent_alloc after the mutex is taken again, and the allocation    *)
(* from the new block.                                                     *)
base_extent_alloc(t) ==
  LET call == bscall[t]
      thp == \/ bsopt.thp = "always"
             \/ bsopt.thp = "auto" /\ base.auto_thp_switched
      e == <<call.block, 0>>
      linked == [base EXCEPT
        !.extent_sn_next = call.sn + 1,
        !.blocks = <<call.block>> \o @,
        !.sizes = Grow(@, call.block, call.size),
        !.huge = @ \cup IF bsopt.thp = "always" THEN {call.block} ELSE {},
        !.allocated = @ + BsHeader,
        !.resident = @ + BsCeil(BsHeader, BsPage),
        !.mapped = @ + call.size,
        !.n_thp = @ + IF thp THEN 1 ELSE 0]
      ed == Grow(edatas, e, [block |-> call.block, start |-> BsHeader,
                             len |-> call.size - BsHeader, sn |-> call.sn,
                             reused |-> FALSE])
  IN  /\ call.pc = "link"
      /\ Served(t, call, Cut(linked, ed, e, BaseUsize(call.kind, call.r),
                             BaseAlign(call.kind, call.r)))
      /\ UNCHANGED bsopt

(* The way out of b0_alloc_tcache_stack without memory: edata_avail_insert *)
(* does not hold the mutex, and what it read of the heap may be stale.     *)
b0_alloc_gives_up(t) ==
  LET call == bscall[t] IN
  /\ call.pc = "giveback"
  /\ base' = [base EXCEPT !.edata_avail = call.avail \cup {call.edata}]
  /\ bscall' = [bscall EXCEPT ![t] = BsIdle]
  /\ UNCHANGED <<bsopt, edatas>>

(* Operators named X_<bug> are X with a bug that the properties must       *)
(* detect.                                                                 *)
b0_dalloc_tcache_stack_dirty(t) ==
  /\ bscall[t] = BsIdle
  /\ \E a \in base.live :
       /\ a.kind = "stack"
       /\ base' = [base EXCEPT !.live = @ \ {a}, !.avail = @ \cup {a.owner}]
  /\ UNCHANGED <<bsopt, edatas, bscall>>

(* b0_dalloc_tcache_stack: the stack is zeroed and becomes free again. *)
b0_dalloc_tcache_stack(t) ==
  /\ bscall[t] = BsIdle
  /\ \E a \in base.live :
       /\ a.kind = "stack"
       /\ LET e == edatas[a.owner] IN
          base' = [base EXCEPT
                     !.live = @ \ {a},
                     !.dirty = @ \ Quanta(e.block, e.start, e.len),
                     !.avail = @ \cup {a.owner}]
  /\ UNCHANGED <<bsopt, edatas, bscall>>

(* base_delete, of an arena that is destroyed: nobody uses it any more. *)
base_delete ==
  /\ ~bsopt.a0 /\ \A t \in BsThreads : bscall[t] = BsIdle
  /\ base' = [base EXCEPT !.blocks = <<>>, !.avail = {}, !.edata_avail = {},
                          !.live = {}, !.dirty = {}, !.deleted = TRUE]
  /\ UNCHANGED <<bsopt, edatas, bscall>>

-----------------------------------------------------------------------------
(* base_new. *)
BsInit ==
  /\ bsopt \in BsOptions
  /\ LET size == BlockSize(0, BsBaseSize, 1)
         always == bsopt.thp = "always"
         at == BsCeil(BsHeader, 2)
         e == <<1, 0>>
         fresh == [blocks |-> <<1>>, sizes |-> (1 :> size), nmapped |-> 1,
                   huge |-> IF always THEN {1} ELSE {},
                   pind_last |-> BsPsz2ind(size), extent_sn_next |-> 1,
                   auto_thp_switched |-> FALSE, avail |-> {},
                   edata_avail |-> {}, live |-> {}, dirty |-> {},
                   allocated |-> BsHeader,
                   resident |-> BsCeil(BsHeader, BsPage), mapped |-> size,
                   n_thp |-> IF always THEN 1 ELSE 0,
                   edata_allocated |-> 0, rtree_allocated |-> 0,
                   deleted |-> FALSE]
         ed == e :> [block |-> 1, start |-> BsHeader, len |-> size - BsHeader,
                     sn |-> 0, reused |-> FALSE]
         cut == Cut(fresh, ed, e, BsCeil(BsBaseSize, 2), 2)
     IN  /\ base = [cut.base EXCEPT
                      !.live = {[region |-> cut.ret, kind |-> "base",
                                 owner |-> BsNone]},
                      !.dirty = Quanta(1, cut.ret.start, cut.ret.len)]
         /\ edatas = cut.edatas
  /\ bscall = [t \in BsThreads |-> BsIdle]

BsNext ==
  /\ ~base.deleted
  /\ \/ \E t \in bsopt.threads :
          \/ BaseAlloc(t) \/ b0_alloc_tcache_stack(t) \/ BaseGoOn(t)
          \/ BaseCount(t) \/ base_map(t) \/ base_auto_thp_switch(t)
          \/ base_edata_init(t) \/ base_extent_alloc(t)
          \/ b0_alloc_gives_up(t) \/ b0_dalloc_tcache_stack(t)
     \/ base_delete

-----------------------------------------------------------------------------
(* Memory that base hands out is part of a block and of nothing else: the  *)
(* live regions, the free ends of blocks and the freed stacks share no     *)
(* quantum, with each other or with the headers; an edata manages one      *)
(* thing at a time; and base_alloc returns zeroed memory although stacks   *)
(* are reused.  The statistics satisfy what base_stats_get asserts         *)
(* although some are counted without the mutex.  (Threads that drop the    *)
(* mutex in base_extent_alloc and come back to a changed base.)            *)
Pieces == {<<a.region.block, a.region.start, a.region.len>> : a \in base.live}
            \cup {<<edatas[e].block, edatas[e].start, edatas[e].len>> :
                    e \in base.avail}
            \cup {<<b, 0, BsHeader>> : b \in BlockIds}
BaseSound ==
  /\ \A p, q \in Pieces :
       p # q => p[1] # q[1] \/ p[2] + p[3] <= q[2] \/ q[2] + q[3] <= p[2]
  /\ \A p \in Pieces : /\ p[1] \in BlockIds /\ p[3] > 0
                       /\ p[2] + p[3] <= base.sizes[p[1]]
  /\ \A a, b \in base.live :
       a # b /\ a.kind = "stack" /\ b.kind = "stack" => a.owner # b.owner
  /\ \A a \in base.live : a.owner \notin base.avail \cup base.edata_avail
  /\ base.avail \cap base.edata_avail = {}
  /\ \A e \in base.avail :
       base.dirty \cap Quanta(edatas[e].block, edatas[e].start,
                              edatas[e].len) = {}
  /\ base.edata_allocated + base.rtree_allocated <= base.allocated
  /\ base.allocated <= base.resident /\ base.resident <= base.mapped
  /\ base.n_thp * BsHugepage <= base.mapped

(* "a0 switches to thp on the 5th block", the other arenas on the second   *)
(* (base.c:13-17, where base_auto_thp_switch counts the blocks).           *)
BaseSwitches ==
  LET threshold == IF bsopt.a0 THEN BASE_AUTO_THP_THRESHOLD_A0
                   ELSE BASE_AUTO_THP_THRESHOLD
  IN  bsopt.thp = "auto" /\ num_blocks >= threshold => base.auto_thp_switched
=============================================================================
