------------------------------- MODULE Entry -------------------------------
(***************************************************************************)
(* The public allocation functions of src/jemalloc.c: how a request        *)
(* becomes a usable size, an error or an object, how an object is resized, *)
(* and which size class a sized deallocation works out.  The arenas below  *)
(* are a choice: they fail, or give an address that suits the request.     *)
(*                                                                         *)
(* ent.obj is the object the caller owns (usize = 0: none), ent.last the   *)
(* request made last and what came of it.                                  *)
(***************************************************************************)
EXTENDS Sizes

CONSTANTS
  SIZEOF_PTR, CACHELINE,
  EntRequests,   \* requests that allocate: [fn, num, size, alignment]
  EntResizes,    \* requests that resize: [fn, size, extra, alignment]
  EntOptions     \* [pad, disabled, prof, xmalloc, zero_realloc]

VARIABLE ent

NoObj == [size |-> 0, alignment |-> 0, usize |-> 0, slab |-> FALSE, addr |-> 0]
EntOwned == ent.obj.usize # 0

(* static_opts of the functions; the others have the defaults. *)
StaticOpts(fn) ==
  [may_overflow |-> fn = "calloc",
   bump |-> fn \in {"posix_memalign", "aligned_alloc", "memalign"},
   null_out |-> fn # "posix_memalign",
   set_errno |-> fn \in {"malloc", "aligned_alloc", "calloc", "realloc"},
   min_alignment |-> CASE fn = "posix_memalign" -> SIZEOF_PTR
                       [] fn \in {"aligned_alloc", "memalign"} -> 1
                       [] fn \in {"valloc", "pvalloc"} -> PAGE
                       [] OTHER -> 0]

-----------------------------------------------------------------------------
(* Sizes. *)

(* Operators named X_<bug> are X with a bug that the properties must detect. *)
compute_size_with_overflow_low(may_overflow, num, item) ==
  [size |-> Wrap(item * num),
   over |-> Wrap(item * num) = 0 /\ num # 0 /\ item # 0]

compute_size_with_overflow(may_overflow, num, item) ==
  LET size == Wrap(item * num)
      half == 2 ^ (WordBits \div 2)
  IN  IF ~may_overflow THEN [size |-> item, over |-> FALSE]
      ELSE [size |-> size,
            over |-> IF size = 0 THEN num # 0 /\ item # 0
                     ELSE /\ num >= half \/ item >= half
                          /\ size \div item # num]

(* The usable size, and whether it is out of range. *)
aligned_usize_get(opt, size, alignment, bump) ==
  IF alignment = 0 THEN sz_s2u(opt.disabled, size)
  ELSE sz_sa2u(opt.disabled, opt.pad, IF bump /\ size = 0 THEN 1 ELSE size,
               alignment)
OutOfRange(usize) == usize = 0 \/ usize > SC_LARGE_MAXCLASS

sz_can_use_slab(usize) == usize <= SC_SMALL_MAXCLASS
PowerOf2(a) == a \in {2 ^ i : i \in 0 .. WordBits - 1}

(* Addresses an arena may give: a region of a slab, which starts on a      *)
(* page; or a page of the alignment, at a random cache line of it when     *)
(* large allocations are padded (arena_cache_oblivious_randomize).         *)
Addresses(opt, usize, alignment, slab) ==
  LET line == CACHELINE * ((alignment + CACHELINE - 1) \div CACHELINE)
  IN  IF slab THEN {PAGE + i * usize : i \in {0, 1, 3}}
      ELSE IF alignment > PAGE THEN {3 * alignment}
      ELSE IF opt.pad = 0 \/ alignment = PAGE THEN {3 * PAGE}
      ELSE {3 * PAGE, 3 * PAGE + IF line = 0 THEN CACHELINE ELSE line}

prof_sample_align(opt, usize, alignment) ==
  IF alignment < PAGE /\ (sz_can_use_slab(usize) \/ opt.pad # 0)
  THEN PAGE ELSE alignment

(* The objects imalloc_no_sample and imalloc_sample make; a sampled small  *)
(* one is promoted to pages of its own and keeps its usable size.          *)
imalloc_no_sample(opt, size, alignment, usize) ==
  {[size |-> size, alignment |-> alignment, usize |-> usize,
    slab |-> sz_can_use_slab(usize), addr |-> addr] :
     addr \in Addresses(opt, usize, alignment, sz_can_use_slab(usize))}
imalloc_sample(opt, size, alignment, usize) ==
  LET a == prof_sample_align(opt, usize, alignment)
      bumped == IF sz_can_use_slab(usize)
                THEN sz_sa2u(opt.disabled, opt.pad, usize, a) ELSE usize
  IN  {[size |-> size, alignment |-> alignment, usize |-> usize,
        slab |-> FALSE, addr |-> addr] :
         addr \in Addresses(opt, bumped, a, FALSE)}

NewObjects(opt, size, alignment, usize) ==
  imalloc_no_sample(opt, size, alignment, usize)
    \cup IF opt.prof THEN imalloc_sample(opt, size, alignment, usize) ELSE {}

-----------------------------------------------------------------------------
(* Allocation. *)

\* An arena that fails is a lack of memory to the caller, too.
Fails(err, null_out, set_errno) ==
  [err |-> IF ent.opt.xmalloc THEN "abort" ELSE err,
   result |-> IF null_out THEN "null" ELSE "kept",
   errno |-> IF ~set_errno THEN "kept"
             ELSE IF err = "arena" THEN "ENOMEM" ELSE err]
Succeeds == [err |-> "ok", result |-> "ptr", errno |-> "kept"]

(* Every function sets its static and dynamic options, and calls this. *)
imalloc_body(r) ==
  LET so == StaticOpts(r.fn)
      item == IF r.fn = "pvalloc" THEN PAGE_CEILING(r.size) ELSE r.size
      bad == \/ r.alignment < so.min_alignment
             \/ r.alignment # 0 /\ ~PowerOf2(r.alignment)
      Fail(err) ==
        ent' = [ent EXCEPT !.last =
                  [req |-> r, out |-> Fails(err, so.null_out, so.set_errno)]]
  IN  \E s \in {compute_size_with_overflow(so.may_overflow, r.num, item)} :
        IF s.over THEN Fail("ENOMEM")
        ELSE IF bad THEN Fail("EINVAL")
        ELSE \E usize \in {aligned_usize_get(ent.opt, s.size, r.alignment,
                                            so.bump)} :
               IF OutOfRange(usize) THEN Fail("ENOMEM")
               ELSE \/ Fail("arena")
                    \/ \E obj \in NewObjects(ent.opt, s.size, r.alignment,
                                            usize) :
                         ent' = [ent EXCEPT !.obj = obj,
                                   !.last = [req |-> r, out |-> Succeeds]]

Allocate ==
  /\ ent.last.req.fn = "none"
  /\ \E r \in EntRequests : imalloc_body(r)

-----------------------------------------------------------------------------
(* Reallocation. *)

Aligned(addr, alignment) == alignment = 0 \/ addr % alignment = 0

(* The sizes an object may have after arena_ralloc_no_move; old when it    *)
(* cannot be resized in place.  Large extents grow and shrink or do not.   *)
arena_ralloc_no_move(opt, oldsize, size, extra) ==
  LET usize_min == sz_s2u(opt.disabled, size)
      usize_max == sz_s2u(opt.disabled, size + extra)
  IN  IF size > SC_LARGE_MAXCLASS THEN [done |-> FALSE, sizes |-> {oldsize}]
      ELSE IF oldsize <= SC_SMALL_MAXCLASS /\ usize_min <= SC_SMALL_MAXCLASS
      THEN [done |-> ~(/\ \/ usize_max > SC_SMALL_MAXCLASS
                          \/ sz_size2index(usize_max) # sz_size2index(oldsize)
                       /\ size > oldsize \/ usize_max < oldsize),
            sizes |-> {oldsize}]
      ELSE IF oldsize >= SC_LARGE_MINCLASS /\ usize_max >= SC_LARGE_MINCLASS
      THEN [done |-> oldsize \in usize_min .. usize_max,
            sizes |-> {oldsize}
              \cup (IF usize_max > oldsize
                    THEN {usize_max} \cup (IF usize_min > oldsize
                                           THEN {usize_min} ELSE {})
                    ELSE {usize_max})]
      ELSE [done |-> FALSE, sizes |-> {oldsize}]

(* iralloct: in place, or a new object that replaces the old one. *)
iralloct(opt, old, size, alignment, usize) ==
  NewObjects(opt, size, alignment, usize)
    \cup {[old EXCEPT !.size = size, !.alignment = alignment, !.usize = usize] :
            place \in {p \in {arena_ralloc_no_move(opt, old.usize, usize, 0)} :
                         /\ Aligned(old.addr, alignment)
                         /\ usize \in p.sizes
                         /\ sz_can_use_slab(usize) => p.done}}

do_rallocx(r, size, is_realloc) ==
  LET Keeps(err) ==
        ent' = [ent EXCEPT !.last =
                  [req |-> r, out |-> Fails(err, TRUE, is_realloc)]]
  IN  \E usize \in {aligned_usize_get(ent.opt, size, r.alignment, FALSE)} :
        IF OutOfRange(usize) THEN Keeps("ENOMEM")
        ELSE \/ Keeps("arena")
             \/ \E obj \in iralloct(ent.opt, ent.obj, size, r.alignment, usize) :
                  ent' = [ent EXCEPT !.obj = obj,
                                     !.last = [req |-> r, out |-> Succeeds]]

do_realloc_nonnull_zero(r) ==
  CASE ent.opt.zero_realloc = "alloc" -> do_rallocx(r, 1, TRUE)
    [] ent.opt.zero_realloc = "free" ->
         ent' = [ent EXCEPT !.obj = NoObj, !.last =
                   [req |-> r, out |-> [Succeeds EXCEPT !.result = "null"]]]
    [] OTHER ->
         ent' = [ent EXCEPT !.last =
                   [req |-> r, out |-> Fails("abort", TRUE, FALSE)]]

je_realloc(r) ==
  IF r.size # 0 THEN do_rallocx(r, r.size, TRUE)
  ELSE do_realloc_nonnull_zero(r)

je_xallocx(r) ==
  LET extra == IF SC_LARGE_MAXCLASS - r.size < r.extra
               THEN SC_LARGE_MAXCLASS - r.size ELSE r.extra
      sizes == IF r.size > SC_LARGE_MAXCLASS \/ ~Aligned(ent.obj.addr, r.alignment)
               THEN {ent.obj.usize}
               ELSE arena_ralloc_no_move(ent.opt, ent.obj.usize, r.size, extra).sizes
  IN  \E usize \in sizes :
        ent' = [ent EXCEPT
                  !.obj = IF usize = ent.obj.usize THEN @
                          ELSE [@ EXCEPT !.usize = usize, !.size = usize,
                                         !.alignment = 0],
                  !.last = [req |-> r, out |-> Succeeds]]

Resize ==
  /\ EntOwned /\ ent.last.out.err # "abort"
  /\ \E r \in EntResizes :
       \/ r.fn = "realloc" /\ je_realloc(r)
       \/ r.fn = "rallocx" /\ do_rallocx(r, r.size, FALSE)
       \/ r.fn = "xallocx" /\ je_xallocx(r)

-----------------------------------------------------------------------------
(* Deallocation: the size class and the kind of memory each path believes  *)
(* the object to have.                                                     *)

inallocx_unaligned(opt, size, alignment) ==
  aligned_usize_get(opt, size, 0, FALSE)

inallocx(opt, size, alignment) ==
  aligned_usize_get(opt, size, alignment, FALSE)

je_nallocx(opt, size, alignment) ==
  LET usize == inallocx(opt, size, alignment)
  IN  IF usize > SC_LARGE_MAXCLASS THEN 0 ELSE usize

Trusted(usize) ==
  LET szind == sz_size2index(usize) IN [szind |-> szind, slab |-> szind < SC_NBINS]
LookedUp(obj) == [szind |-> sz_size2index(obj.usize), slab |-> obj.slab]

prof_sample_aligned(addr) == addr % PAGE = 0

isfree(opt, obj, usize) ==
  IF prof_sample_aligned(obj.addr) /\ opt.prof THEN LookedUp(obj)
  ELSE Trusted(usize)

(* free_fastpath with a size, else sdallocx_default. *)
je_sdallocx_impl(opt, obj, size, alignment) ==
  IF alignment = 0 /\ size <= SC_LOOKUP_MAXCLASS
       /\ ~prof_sample_aligned(obj.addr)
  THEN [szind |-> sz_size2index_usize_fastpath(size).ind, slab |-> TRUE]
  ELSE isfree(opt, obj, inallocx(opt, size, alignment))

je_free_aligned_sized(opt, obj, alignment, size) ==
  je_sdallocx_impl(opt, obj, size, IF alignment <= 1 THEN 0
                                   ELSE 2 ^ lg_floor(alignment))

NoCallYet == [req |-> [fn |-> "none"], out |-> Succeeds]

(* The caller is done with the object or with the error, and starts over. *)
Forget ==
  /\ ent.last.req.fn # "none" /\ ent.last.out.err # "abort"
  /\ ent' = [ent EXCEPT !.obj = NoObj, !.last = NoCallYet]

EntInit ==
  \E opt \in EntOptions : ent = [opt |-> opt, obj |-> NoObj, last |-> NoCallYet]
EntNext == Allocate \/ Resize \/ Forget

-----------------------------------------------------------------------------
(* What the caller can rely on. *)

EntLast == ent.last
Asked == EntLast.req.num * EntLast.req.size

(* An allocation succeeds with room for what was asked, computed without   *)
(* overflow, at an address with the alignment asked for; it is refused     *)
(* only for a size or an alignment that is out of range or an alignment    *)
(* that is not allowed, and then leaves errno and the result as its        *)
(* function promises.  (valloc and pvalloc of an empty size ignore the     *)
(* alignment.)                                                             *)
AllocationHonest ==
  (~(EntLast.req.fn \in {"none", "realloc", "rallocx", "xallocx"})) =>
    /\ EntOwned =>
         /\ ent.obj.usize >= Asked
         /\ Aligned(ent.obj.addr, EntLast.req.alignment)
         /\ EntLast.req.fn = "mallocx" =>
              ent.obj.usize = je_nallocx(ent.opt, Asked, EntLast.req.alignment)
    /\ EntLast.out.err = "ENOMEM" =>
         Asked > SC_LARGE_MAXCLASS \/ EntLast.req.alignment > SC_LARGE_MAXCLASS
           \/ (EntLast.req.fn = "pvalloc" /\ Asked + PAGE > SC_LARGE_MAXCLASS)
    /\ EntLast.out.err = "EINVAL" =>
         /\ ~PowerOf2(EntLast.req.alignment) \/ EntLast.req.alignment < SIZEOF_PTR
    /\ EntLast.req.fn = "posix_memalign" => EntLast.out.errno = "kept"
    /\ EntLast.out.result = "null" => ~EntOwned

(* A reallocation that succeeds has room for the request at its alignment, *)
(* in place or not; it is refused only for what is out of range.           *)
ResizeHonest ==
  /\ (EntLast.req.fn \in {"realloc", "rallocx"} /\ EntOwned /\ EntLast.out.err = "ok") =>
       /\ ent.obj.usize >= EntLast.req.size
       /\ Aligned(ent.obj.addr, EntLast.req.alignment)
  /\ (EntLast.req.fn \in {"realloc", "rallocx"} /\ EntLast.out.err = "ENOMEM") =>
       EntLast.req.size > SC_LARGE_MAXCLASS
         \/ EntLast.req.alignment > SC_LARGE_MAXCLASS

(* A sized deallocation with any size from the one requested to the real   *)
(* one, and the alignment requested, reaches the bin or the extent that    *)
(* the object is in, whether or not it is sampled.                         *)
SizedFreeExact ==
  (EntOwned /\ ent.obj.size > 0) =>
    \A size \in {ent.obj.size, ent.obj.usize} :
      LET a == ent.obj.alignment IN
      /\ je_sdallocx_impl(ent.opt, ent.obj, size, a) = LookedUp(ent.obj)
      /\ je_free_aligned_sized(ent.opt, ent.obj, a, size) = LookedUp(ent.obj)

EntryHonest == AllocationHonest /\ ResizeHonest /\ SizedFreeExact
=============================================================================
