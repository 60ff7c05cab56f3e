------------------------------- MODULE Sizes -------------------------------
(***************************************************************************)
(* The size classes: their table (src/sc.c), the macros that restate it    *)
(* (include/jemalloc/internal/sc.h), the lookup tables (src/sz.c), the     *)
(* conversions between sizes and indices (include/jemalloc/internal/sz.h)  *)
(* and the division by a class size (src/div.c).  A size_t has the width   *)
(* of BitUtil's words, so every shift and sum wraps around as in the code. *)
(* The table has the index 0 of the code at 0.                             *)
(*                                                                         *)
(* sz.size is the request of the moment, sz.pad and sz.disabled the        *)
(* options read by the conversions, sz.pgs the pages of each bin's slab;   *)
(* tab holds the tables that boot fills and nothing changes.               *)
(***************************************************************************)
EXTENDS BitUtil, FiniteSets
LOCAL INSTANCE Bitwise

CONSTANTS LG_PAGE, LG_QUANTUM, SC_LG_TINY_MIN, SC_LG_NGROUP,
          SC_LG_MAX_LOOKUP, SzRequests, SlabUpdates

VARIABLES sz, tab

PAGE == 2 ^ LG_PAGE
SC_NGROUP == 2 ^ SC_LG_NGROUP

(* The compile-time constants. *)
SC_NTINY == LG_QUANTUM - SC_LG_TINY_MIN
SC_LG_TINY_MAXCLASS ==
  IF LG_QUANTUM > SC_LG_TINY_MIN THEN LG_QUANTUM - 1 ELSE -1
SC_LG_BASE_MAX == WordBits - 2
SC_NREGULAR ==
  SC_NGROUP * (SC_LG_BASE_MAX - (LG_QUANTUM + SC_LG_NGROUP) + 1) - 1
SC_NSIZES == SC_NTINY + SC_NGROUP + SC_NREGULAR
SC_NPSIZES ==
  SC_NGROUP + (SC_LG_BASE_MAX - (LG_PAGE + SC_LG_NGROUP)) * SC_NGROUP
    + SC_NGROUP - 1
SC_NBINS == SC_NTINY + SC_NGROUP + SC_NGROUP * (LG_PAGE - LG_QUANTUM) - 1
SC_LOOKUP_MAXCLASS == 2 ^ SC_LG_MAX_LOOKUP
SC_SMALL_MAXCLASS ==
  2 ^ (LG_PAGE + SC_LG_NGROUP - 1) + (SC_NGROUP - 1) * 2 ^ (LG_PAGE - 1)
SC_LARGE_MINCLASS == 2 ^ (LG_PAGE + SC_LG_NGROUP)
SC_LARGE_MAXCLASS == 7 * 2 ^ (WordBits - 4)
USIZE_GROW_SLOW_THRESHOLD == 2 ^ (SC_LG_NGROUP + LG_PAGE + 1)
SC_LG_SLAB_MAXREGS == LG_PAGE - SC_LG_TINY_MIN
BITMAP_BITS ==
  2 ^ (IF SC_LG_SLAB_MAXREGS > LG_CEIL(SC_NSIZES)
       THEN SC_LG_SLAB_MAXREGS ELSE LG_CEIL(SC_NSIZES))

-----------------------------------------------------------------------------
(* The table. *)

reg_size_compute(lg_base, lg_delta, ndelta) ==
  2 ^ lg_base + ndelta * 2 ^ lg_delta

(* The first multiple of the page that holds whole regions. *)
slab_size(reg_size) ==
  CHOOSE n \in 1 .. 2 * SC_NGROUP :
    /\ (n * PAGE) % reg_size = 0
    /\ \A m \in 1 .. n - 1 : (m * PAGE) % reg_size # 0

size_class(lg_base, lg_delta, ndelta) ==
  LET size == reg_size_compute(lg_base, lg_delta, ndelta)
      bin == size < 2 ^ (LG_PAGE + SC_LG_NGROUP)
  IN  [lg_base |-> lg_base, lg_delta |-> lg_delta, ndelta |-> ndelta,
       psz |-> size % PAGE = 0, bin |-> bin,
       pgs |-> IF bin THEN slab_size(size) ELSE 0,
       lookup |-> size <= 2 ^ SC_LG_MAX_LOOKUP]

(* The class with index i: tiny classes, the pseudo group (whose first     *)
(* class has an encoding of its own after tiny classes), regular groups.   *)
ScOf(i) ==
  LET p == i - SC_NTINY
      group == (p - SC_NGROUP) \div SC_NGROUP
  IN  CASE i < SC_NTINY ->
             size_class(SC_LG_TINY_MIN + i,
                        SC_LG_TINY_MIN + (IF i = 0 THEN 0 ELSE i - 1), 0)
        [] p = 0 /\ SC_NTINY # 0 ->
             size_class(LG_QUANTUM - 1, LG_QUANTUM - 1, 1)
        [] p \in 0 .. SC_NGROUP - 1 /\ ~(p = 0 /\ SC_NTINY # 0) ->
             size_class(LG_QUANTUM, LG_QUANTUM, p)
        [] OTHER ->
             size_class(LG_QUANTUM + SC_LG_NGROUP + group, LG_QUANTUM + group,
                        1 + (p % SC_NGROUP))

(* The groups go on below the last bit but one, the last one class short. *)
NSizes ==
  Cardinality({i \in 0 .. SC_NGROUP * WordBits :
                 \/ ScOf(i).lg_base < WordBits - 2
                 \/ /\ ScOf(i).lg_base = WordBits - 2
                    /\ ScOf(i).ndelta <= SC_NGROUP - 1})

sc_boot == [i \in 0 .. NSizes - 1 |-> ScOf(i)]
SizeOf(c) == reg_size_compute(c.lg_base, c.lg_delta, c.ndelta)

size_classes(sc) ==
  LET MaxSize(S) == SizeOf(sc[CHOOSE i \in S : \A j \in S : j <= i])
      bins == {i \in DOMAIN sc : sc[i].bin}
  IN  [nsizes |-> NSizes, nbins |-> Cardinality(bins),
       npsizes |-> Cardinality({i \in DOMAIN sc : sc[i].psz}),
       lookup_maxclass |-> MaxSize({i \in DOMAIN sc : sc[i].lookup}),
       small_maxclass |-> MaxSize(bins),
       large_minclass |->
         2 ^ (1 + sc[CHOOSE i \in bins : \A j \in bins : j <= i].lg_base),
       large_maxclass |-> MaxSize(DOMAIN sc)]

-----------------------------------------------------------------------------
(* The lookup tables, filled at boot. *)

PageClass(sc, n) ==
  CHOOSE i \in DOMAIN sc :
    sc[i].psz /\ Cardinality({j \in 0 .. i - 1 : sc[j].psz}) = n

sz_boot_pind2sz_tab(sc, classes) ==
  [p \in 0 .. SC_NPSIZES |->
     IF p < classes.npsizes THEN SizeOf(sc[PageClass(sc, p)])
     ELSE classes.large_maxclass + PAGE]

sz_boot_index2size_tab(sc) == [i \in 0 .. SC_NSIZES - 1 |-> SizeOf(sc[i])]

TinyUnits(size) ==
  Right(Wrap(size + 2 ^ SC_LG_TINY_MIN - 1), SC_LG_TINY_MIN)

sz_boot_size2index_tab(sc) ==
  [d \in 0 .. Right(SC_LOOKUP_MAXCLASS, SC_LG_TINY_MIN) |->
     CHOOSE i \in DOMAIN sc :
       /\ d <= TinyUnits(SizeOf(sc[i]))
       /\ \A j \in 0 .. i - 1 : TinyUnits(SizeOf(sc[j])) < d]

sz_boot ==
  LET sc == sc_boot
      classes == size_classes(sc)
  IN  tab = [sc |-> sc, classes |-> classes,
             pind2sz |-> sz_boot_pind2sz_tab(sc, classes),
             index2size |-> sz_boot_index2size_tab(sc),
             size2index |-> sz_boot_size2index_tab(sc)]

(* The option slab_sizes: clamp the wish to what holds a region and what   *)
(* the slab's bitmap can address.                                          *)
sc_data_update_sc_slab_size(reg_size, pgs_guess) ==
  LET min_pgs == (reg_size \div PAGE) + IF reg_size % PAGE # 0 THEN 1 ELSE 0
      max_pgs == Wrap(BITMAP_BITS * reg_size) \div PAGE
  IN  IF pgs_guess < min_pgs THEN min_pgs
      ELSE IF pgs_guess > max_pgs THEN max_pgs ELSE pgs_guess

sc_data_update_slab_size(pgs, begin, end, wish) ==
  [i \in DOMAIN pgs |->
     IF begin <= SizeOf(tab.sc[i]) /\ SizeOf(tab.sc[i]) <= end
     THEN sc_data_update_sc_slab_size(SizeOf(tab.sc[i]), wish)
     ELSE pgs[i]]

-----------------------------------------------------------------------------
(* Conversions. *)

PAGE_CEILING(s) == Wrap(s + PAGE - 1) - (Wrap(s + PAGE - 1) % PAGE)

(* Operators named X_<bug> are X with a bug that the properties must detect. *)
sz_psz2ind_exact(psz) ==
  IF psz > SC_LARGE_MAXCLASS THEN SC_NPSIZES
  ELSE LET x == lg_ceil(psz)
           off == IF x < SC_LG_NGROUP + LG_PAGE THEN 0
                  ELSE x - (SC_LG_NGROUP + LG_PAGE)
           lg_delta == IF off = 0 THEN LG_PAGE ELSE LG_PAGE + (off - 1)
       IN  off * SC_NGROUP + (Right(psz, lg_delta) % SC_NGROUP)

sz_psz2ind(psz) ==
  IF psz > SC_LARGE_MAXCLASS THEN SC_NPSIZES
  ELSE LET x == lg_ceil(psz)
           off == IF x < SC_LG_NGROUP + LG_PAGE THEN 0
                  ELSE x - (SC_LG_NGROUP + LG_PAGE)
           lg_delta == IF off = 0 THEN LG_PAGE ELSE LG_PAGE + (off - 1)
       IN  off * SC_NGROUP + (Right(psz - 1, lg_delta) % SC_NGROUP)

sz_pind2sz_compute(pind) ==
  IF pind = SC_NPSIZES THEN SC_LARGE_MAXCLASS + PAGE
  ELSE LET grp == pind \div SC_NGROUP
           mod == pind % SC_NGROUP
           grp_size == IF grp = 0 THEN 0
                       ELSE 2 ^ (LG_PAGE + (SC_LG_NGROUP - 1) + grp)
           shift == IF grp = 0 THEN 1 ELSE grp
       IN  grp_size + (mod + 1) * 2 ^ (shift + (LG_PAGE - 1))

sz_pind2sz(pind) == tab.pind2sz[pind]

(* lg of the distance between classes around size, at least lg_least. *)
LgDelta(size, lg_least) ==
  LET x == lg_floor(Wrap(2 * size - 1))
  IN  IF x < SC_LG_NGROUP + lg_least + 1 THEN lg_least
      ELSE x - SC_LG_NGROUP - 1

RoundUp(size, lg_delta) ==
  LET up == Wrap(size + 2 ^ lg_delta - 1) IN up - (up % 2 ^ lg_delta)

sz_psz2u(psz) ==
  IF psz > SC_LARGE_MAXCLASS THEN SC_LARGE_MAXCLASS + PAGE
  ELSE RoundUp(psz, LgDelta(psz, LG_PAGE))

sz_size2index_compute(size) ==
  CASE size > SC_LARGE_MAXCLASS -> SC_NSIZES
    [] size = 0 -> 0
    [] size # 0 /\ SC_NTINY # 0 /\ size <= 2 ^ SC_LG_TINY_MAXCLASS ->
         LET lg_tmin == SC_LG_TINY_MAXCLASS - SC_NTINY + 1
             lg_up == lg_floor(pow2_ceil(size))
         IN  IF lg_up < lg_tmin THEN 0 ELSE lg_up - lg_tmin
    [] OTHER ->
         LET x == lg_floor(Wrap(2 * size - 1))
             shift == IF x < SC_LG_NGROUP + LG_QUANTUM THEN 0
                      ELSE x - (SC_LG_NGROUP + LG_QUANTUM)
         IN  SC_NTINY + shift * SC_NGROUP
               + (Right(size - 1, LgDelta(size, LG_QUANTUM)) % SC_NGROUP)

sz_size2index_lookup(size) == tab.size2index[TinyUnits(size)]

sz_size2index(size) ==
  IF size <= SC_LOOKUP_MAXCLASS THEN sz_size2index_lookup(size)
  ELSE sz_size2index_compute(size)

sz_index2size_compute(index) ==
  IF index < SC_NTINY
  THEN 2 ^ (SC_LG_TINY_MAXCLASS - SC_NTINY + 1 + index)
  ELSE LET grp == (index - SC_NTINY) \div SC_NGROUP
           mod == (index - SC_NTINY) % SC_NGROUP
           grp_size == IF grp = 0 THEN 0
                       ELSE 2 ^ (LG_QUANTUM + (SC_LG_NGROUP - 1) + grp)
           shift == IF grp = 0 THEN 1 ELSE grp
       IN  grp_size + (mod + 1) * 2 ^ (shift + (LG_QUANTUM - 1))

sz_index2size(index) == tab.index2size[index]

sz_size2index_usize_fastpath(size) ==
  LET ind == sz_size2index_lookup(size)
  IN  [ind |-> ind, usize |-> tab.index2size[ind]]

sz_s2u_compute_using_delta(size) ==
  LET lg_delta == LgDelta(size, LG_QUANTUM)
  IN  IF size > SC_LARGE_MAXCLASS \/ Wrap(size + 2 ^ lg_delta - 1) < size
      THEN 0
      ELSE RoundUp(size, lg_delta)

sz_s2u_compute(disabled, request) ==
  LET size == IF request = 0 THEN 1 ELSE request
      lg_tmin == SC_LG_TINY_MAXCLASS - SC_NTINY + 1
      lg_up == lg_floor(pow2_ceil(size))
  IN  IF request > SC_LARGE_MAXCLASS THEN 0
      ELSE IF SC_NTINY > 0 /\ size <= 2 ^ SC_LG_TINY_MAXCLASS
      THEN 2 ^ (IF lg_up < lg_tmin THEN lg_tmin ELSE lg_up)
      ELSE IF size <= SC_SMALL_MAXCLASS \/ ~disabled
      THEN sz_s2u_compute_using_delta(size)
      ELSE IF Wrap(size + PAGE - 1) < size THEN 0 ELSE PAGE_CEILING(size)

sz_s2u(disabled, size) ==
  IF size <= SC_LOOKUP_MAXCLASS
  THEN sz_index2size(sz_size2index_lookup(size))
  ELSE sz_s2u_compute(disabled, size)

(* 0 when the request cannot be met. *)
sz_sa2u(disabled, pad, size, alignment) ==
  LET rounded == Wrap(size + alignment - 1)
      try_small == size <= SC_SMALL_MAXCLASS /\ alignment <= PAGE
      small == sz_s2u(disabled, rounded - (rounded % alignment))
      large == IF size <= SC_LARGE_MINCLASS THEN SC_LARGE_MINCLASS
               ELSE sz_s2u(disabled, size)
      span == Wrap(large + pad + PAGE_CEILING(alignment) - PAGE)
  IN  IF alignment = 0 THEN 0
      ELSE IF try_small /\ rounded < size THEN 0
      ELSE IF try_small /\ small < SC_LARGE_MINCLASS THEN small
      ELSE IF \/ alignment > SC_LARGE_MAXCLASS
              \/ size > SC_LARGE_MINCLASS /\ large < size
              \/ span < large
      THEN 0
      ELSE large

sz_psz_quantize_floor(pad, size) ==
  LET pind == sz_psz2ind(Wrap(size - pad + 1))
  IN  IF pind = 0 THEN size ELSE sz_pind2sz(pind - 1) + pad

sz_psz_quantize_ceil(pad, size) ==
  LET ret == sz_psz_quantize_floor(pad, size)
  IN  IF ret < size THEN sz_pind2sz(sz_psz2ind(Wrap(ret - pad + 1))) + pad
      ELSE ret

(* Division by multiplication, on words of half the width of a product. *)
div_init(d) ==
  LET two_to_k == 2 ^ (WordBits \div 2)
  IN  (two_to_k \div d) + IF two_to_k % d # 0 THEN 1 ELSE 0
div_compute(magic, n) == (n * magic) \div 2 ^ (WordBits \div 2)

-----------------------------------------------------------------------------

SzInit ==
  \E size \in SzRequests, pad \in {0, PAGE}, disabled \in BOOLEAN :
    sz = [size |-> size, pad |-> pad, disabled |-> disabled,
          pgs |-> [i \in 0 .. SC_NBINS - 1 |-> tab.sc[i].pgs]]

UpdateSlabSizes ==
  \E u \in SlabUpdates :
    sz' = [sz EXCEPT !.pgs =
             sc_data_update_slab_size(@, u.begin, u.end, u.pgs)]

SzNext == UpdateSlabSizes

-----------------------------------------------------------------------------
(* What the conversions must answer, from the set of class sizes alone. *)

ClassSizes == {tab.index2size[i] : i \in DOMAIN tab.index2size}
PageClassSizes == {c \in ClassSizes : c % PAGE = 0}
LeastAbove(S, x) == CHOOSE c \in S : c >= x /\ \A d \in S : d >= x => c <= d
Rank(S, c) == Cardinality({d \in S : d < c})
Usize(size) ==
  IF sz.disabled /\ size > SC_SMALL_MAXCLASS
  THEN PAGE * ((size + PAGE - 1) \div PAGE)
  ELSE LeastAbove(ClassSizes, size)

(* The macros, the table and the lookup tables describe the same classes. *)
TablesAgree ==
  /\ tab.classes.nsizes = SC_NSIZES
  /\ tab.classes.nbins = SC_NBINS
  /\ tab.classes.npsizes = SC_NPSIZES
  /\ tab.classes.lookup_maxclass = SC_LOOKUP_MAXCLASS
  /\ tab.classes.small_maxclass = SC_SMALL_MAXCLASS
  /\ tab.classes.large_minclass = SC_LARGE_MINCLASS
  /\ tab.classes.large_maxclass = SC_LARGE_MAXCLASS
  /\ \A i \in 0 .. SC_NSIZES - 1 :
       /\ sz_index2size_compute(i) = tab.index2size[i]
       /\ sz_size2index(tab.index2size[i]) = i
  /\ \A p \in 0 .. SC_NPSIZES : sz_pind2sz_compute(p) = tab.pind2sz[p]

ClassAgrees ==
  LET size == sz.size IN
  IF size > SC_LARGE_MAXCLASS
  THEN sz_size2index(size) = SC_NSIZES /\ sz_s2u(sz.disabled, size) = 0
  ELSE LET c == LeastAbove(ClassSizes, size) IN
       /\ sz_size2index(size) = Rank(ClassSizes, c)
       /\ sz_size2index_compute(size) = Rank(ClassSizes, c)
       /\ sz_s2u(sz.disabled, size) = Usize(size)
       /\ sz_s2u_compute(sz.disabled, size) = Usize(size)
       /\ size <= SC_LOOKUP_MAXCLASS =>
            sz_size2index_usize_fastpath(size) =
              [ind |-> Rank(ClassSizes, c), usize |-> c]

(* An aligned request gets a usable size that holds it: the size of a slab *)
(* region that is a multiple of the alignment, or a large size whose       *)
(* mapping with the alignment's slack does not wrap around.                *)
AlignedAgrees ==
  \A a \in {2 ^ i : i \in 0 .. WordBits - 1} :
    LET u == sz_sa2u(sz.disabled, sz.pad, sz.size, a) IN
    sz.size # 0 =>
      IF u = 0
      THEN sz.size > SC_LARGE_MAXCLASS \/ a > SC_LARGE_MAXCLASS
      ELSE /\ u >= sz.size
           /\ u < SC_LARGE_MINCLASS => u \in ClassSizes /\ u % a = 0
           /\ u >= SC_LARGE_MINCLASS =>
                /\ u % PAGE = 0
                /\ u + sz.pad + a < 2 ^ WordBits

(* A run of pages is quantized to the page classes around it. *)
PagesAgree ==
  LET c == LeastAbove(PageClassSizes, sz.size)
      run == PAGE * sz.size + sz.pad
      Fits == {d + sz.pad : d \in {d \in PageClassSizes : d + sz.pad <= run}}
  IN  /\ sz.size \in 1 .. SC_LARGE_MAXCLASS =>
           /\ sz_psz2ind(sz.size) = Rank(PageClassSizes, c)
           /\ sz_psz2u(sz.size) = c
           /\ sz_pind2sz(sz_psz2ind(sz.size)) = c
      /\ sz.size > 0 /\ run - sz.pad <= SC_LARGE_MAXCLASS =>
           /\ sz_psz_quantize_floor(sz.pad, run) =
                CHOOSE f \in Fits : \A g \in Fits : g <= f
           /\ sz_psz_quantize_ceil(sz.pad, run) =
                LeastAbove({d + sz.pad : d \in PageClassSizes}, run)

(* Every slab holds a region and no more regions than its bitmap, and the  *)
(* multiplication finds the index of each of them.                         *)
SlabsAgree ==
  \A i \in DOMAIN sz.pgs :
    LET reg == SizeOf(tab.sc[i])
        nregs == (sz.pgs[i] * PAGE) \div reg
    IN  /\ nregs \in 1 .. BITMAP_BITS
        /\ \A n \in 0 .. nregs - 1 :
             n * reg < 2 ^ (WordBits \div 2) =>
               div_compute(div_init(reg), n * reg) = n

(* The tables, macros and conversions of the size classes agree with each  *)
(* other and with the set of class sizes for every request, up to the      *)
(* largest word, whatever the options; slabs fit their bitmaps.            *)
SizesAgree ==
  TablesAgree /\ ClassAgrees /\ AlignedAgrees /\ PagesAgree /\ SlabsAgree
=============================================================================
