------------------------------ MODULE CacheBin ------------------------------
(***************************************************************************)
(* One cache bin of a thread cache (cache_bin.h, cache_bin.c) and the      *)
(* targets that adapt its size (tcache_ncached_target.h).                  *)
(*                                                                         *)
(* The stack grows down: slots[head .. empty) are cached pointers, and the *)
(* slots from the low bound up to full are stashed ones.  Only the head is *)
(* a whole address; the other positions keep only its low bits, so that    *)
(* every distance is computed modulo LowBits.  Addresses are counted in    *)
(* slots, not in bytes.  Slots that are neither cached nor stashed are     *)
(* dead memory and read as NoPtr.                                          *)
(***************************************************************************)
EXTENDS Bin

CONSTANTS
    LowBits,    \* 2^16 / sizeof(void *): the addresses that low bits tell apart
    NoPtr

ASSUME CacheBinAssumption == LowBits \in Nat \ {0}

\* cap is the number of slots of the stack; it is 0 in a disabled bin, whose
\* ncached_max is kept for a later reboot of the tcache.
cache_bin_init(max, cap, empty) ==
    [slots |-> [i \in 0 .. cap - 1 |-> NoPtr], head |-> cap,
     low_water |-> empty, full |-> (empty - cap) % LowBits, empty |-> empty,
     max |-> max, nrequests |-> 0]

Cap(cb) == Cardinality(DOMAIN cb.slots)
cache_bin_disabled(cb) == Cap(cb) = 0

\* The low bits of the address of slot i.
Bits(cb, i) == (cb.empty - Cap(cb) + i) % LowBits

cache_bin_diff(earlier, later) == (later - earlier) % LowBits

ncached(cb) == cache_bin_diff(Bits(cb, cb.head), cb.empty)

cache_bin_empty_position_get(cb) == cb.head + ncached(cb)

cache_bin_low_bits_low_bound_get(cb) == (cb.empty - cb.max) % LowBits
cache_bin_low_bound_get(cb) == cache_bin_empty_position_get(cb) - cb.max

nstashed(cb) == cache_bin_diff(cache_bin_low_bits_low_bound_get(cb), cb.full)

cache_bin_low_water_get(cb) == cache_bin_diff(cb.low_water, cb.empty)

\* The cached pointers from the head down, and the stashed ones.
Cached(cb) == [i \in 1 .. ncached(cb) |-> cb.slots[cb.head + i - 1]]
Stashed(cb) ==
    IF cache_bin_disabled(cb) THEN << >>
    ELSE [i \in 1 .. nstashed(cb) |-> cb.slots[cache_bin_low_bound_get(cb) + i - 1]]

\* Forgets what dead slots hold.
Clean(cb) ==
    [cb EXCEPT !.slots = [i \in DOMAIN @ |->
        IF i >= cb.head \/ i < nstashed(cb) THEN @[i] ELSE NoPtr]]

-----------------------------------------------------------------------------

(* Operators named X_<bug> are X with a bug that the properties must detect. *)

cache_bin_low_water_set(cb) == [cb EXCEPT !.low_water = Bits(cb, cb.head)]

cache_bin_low_water_adjust_forgotten(cb) == cb

cache_bin_low_water_adjust(cb) ==
    IF ncached(cb) < cache_bin_low_water_get(cb)
    THEN cache_bin_low_water_set(cb) ELSE cb

CanAlloc(cb) == Bits(cb, cb.head) # cb.low_water \/ Bits(cb, cb.head) # cb.empty

\* What cache_bin_alloc returns, and what it leaves.
cache_bin_alloc_ret(cb) == cb.slots[cb.head]
cache_bin_alloc(cb) ==
    IF Bits(cb, cb.head) # cb.low_water
    THEN Clean([cb EXCEPT !.head = @ + 1])
    ELSE Clean([cb EXCEPT !.head = @ + 1, !.low_water = Bits(cb, cb.head + 1)])

cache_bin_full(cb) == Bits(cb, cb.head) = cb.full

cache_bin_dalloc_easy(cb, p) ==
    [cb EXCEPT !.head = @ - 1, !.slots[cb.head - 1] = p]

cache_bin_stash(cb, p) ==
    [cb EXCEPT !.slots[cb.head - cache_bin_diff(cb.full, Bits(cb, cb.head))] = p,
               !.full = (@ + 1) % LowBits]

\* Filling writes into the slots below the empty position; arr is where the
\* next batch starts and how many pointers are intended.
cache_bin_init_ptr_array_for_fill(cb, nfill) ==
    [ptr |-> cache_bin_empty_position_get(cb) - nfill, n |-> nfill]

cache_bin_finish_fill_unmoved(cb, arr, nfilled) ==
    Clean([cb EXCEPT !.head = cache_bin_empty_position_get(cb) - nfilled, !.nrequests = 0])

cache_bin_finish_fill(cb, arr, nfilled) ==
    LET empty == cache_bin_empty_position_get(cb)
        moved == [i \in DOMAIN cb.slots |->
                    IF i \in empty - nfilled .. empty - 1
                    THEN cb.slots[i - arr.n + nfilled] ELSE cb.slots[i]]
    IN  Clean([cb EXCEPT !.slots = IF nfilled < arr.n THEN moved ELSE @,
                         !.head = empty - nfilled, !.nrequests = 0])

\* The pointers at the bottom of the stack, which a flush returns.
cache_bin_init_ptr_array_for_flush(cb, nflush) ==
    SubSeq(Cached(cb), ncached(cb) - nflush + 1, ncached(cb))

cache_bin_finish_flush_recount(cb, nflushed) ==
    LET moved == [i \in DOMAIN cb.slots |->
                    IF i >= cb.head + nflushed THEN cb.slots[i - nflushed]
                    ELSE cb.slots[i]]
    IN  Clean(cache_bin_low_water_adjust(
            [cb EXCEPT !.slots = moved, !.head = @ + nflushed]))

cache_bin_finish_flush(cb, nflushed) ==
    LET moved == [i \in DOMAIN cb.slots |->
                    IF i >= cb.head + nflushed THEN cb.slots[i - nflushed]
                    ELSE cb.slots[i]]
    IN  Clean(cache_bin_low_water_adjust(
            [cb EXCEPT !.slots = moved, !.head = @ + nflushed, !.nrequests = 0]))

cache_bin_finish_flush_stashed(cb) ==
    Clean([cb EXCEPT !.full = Bits(cb, cache_bin_low_bound_get(cb)),
                     !.nrequests = 0])

-----------------------------------------------------------------------------

AtLeast(n, m) == IF n < m THEN m ELSE n
AtMost(n, m) == IF n > m THEN m ELSE n

tcache_ncached_target_min(max) == AtMost(max, 2)

tcache_ncached_target_max(max) ==
    AtLeast(max \div 2, tcache_ncached_target_min(max))

tcache_ncached_fill_after_refill(nfill, max) ==
    AtMost(2 * nfill, tcache_ncached_target_max(max))

tcache_ncached_fill_after_underuse(nfill, max) ==
    AtLeast(nfill \div 2, tcache_ncached_target_min(max))

tcache_ncached_retain_after_refill(nretain, nfilled, max) ==
    AtLeast(nretain, IF nfilled > max \div 2 THEN max ELSE 2 * nfilled)

tcache_ncached_retain_after_gc(n, low_water, max) ==
    LET used == n - low_water
        headroom == AtLeast(used \div 4, 1)
    IN  IF used = 0 THEN tcache_ncached_target_min(max)
        ELSE IF used > max - headroom THEN max
        ELSE used + headroom

tcache_ncached_retain_after_overflow(nretain, max) ==
    AtLeast(nretain \div 2, tcache_ncached_target_min(max))

\* Leaves room for the deallocation that detected the overflow.
tcache_ncached_flush_remain(nretain, max) == AtMost(nretain, max - 1)
=============================================================================
