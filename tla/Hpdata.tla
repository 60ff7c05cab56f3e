------------------------------- MODULE Hpdata -------------------------------
(***************************************************************************)
(* The metadata of a page slab (hpdata_t): a hugepage-sized region whose   *)
(* pages are active or not, and touched or not.  Sets of page indices take *)
(* the place of the bitmaps; the counters and the longest free range,      *)
(* which the code maintains incrementally beside the bitmaps, are fields   *)
(* of their own here too, so that they can be compared with the sets.      *)
(*                                                                         *)
(* The operators are pure: each maps an hpdata to the hpdata after the     *)
(* function of hpdata.c of the same name.                                  *)
(***************************************************************************)
EXTENDS Integers, Sequences, FiniteSets, FiniteSetsExt, SequencesExt

VARIABLE opt        \* the configuration, a record that never changes

HPages == opt.pages     \* HUGEPAGE_PAGES

Indices == 0 .. HPages - 1

Hpdata == [age : Nat, longest : 0 .. HPages, nactive : 0 .. HPages,
           ntouched : 0 .. HPages, active : SUBSET Indices,
           touched : SUBSET Indices, huge : BOOLEAN, alloc_allowed : BOOLEAN,
           in_alloc : BOOLEAN, purge_allowed : BOOLEAN,
           hugify_allowed : BOOLEAN, in_hugify : BOOLEAN,
           mid_purge : BOOLEAN, mid_hugify : BOOLEAN, updating : BOOLEAN,
           purged_when_empty_and_huge : BOOLEAN]

(* Operators named X_<bug> are X with a bug that the properties must detect. *)

hpdata_init(age, is_huge) ==
    [age |-> age, longest |-> HPages, nactive |-> 0,
     ntouched |-> IF is_huge THEN HPages ELSE 0, active |-> {},
     touched |-> IF is_huge THEN Indices ELSE {}, huge |-> is_huge,
     alloc_allowed |-> TRUE, in_alloc |-> FALSE, purge_allowed |-> FALSE,
     hugify_allowed |-> FALSE, in_hugify |-> FALSE, mid_purge |-> FALSE,
     mid_hugify |-> FALSE, updating |-> FALSE,
     purged_when_empty_and_huge |-> FALSE]

hpdata_changing_state_get(h) == h.mid_purge \/ h.mid_hugify
hpdata_ndirty_get(h) == h.ntouched - h.nactive
hpdata_nretained_get(h) == HPages - h.ntouched
hpdata_empty(h) == h.nactive = 0
hpdata_full(h) == h.nactive = HPages

Run(begin, len) == begin .. begin + len - 1

\* The maximal runs of unset bits, as << begin, length >> (fb_urange_iter).
URanges(set) ==
    {r \in Indices \X (1 .. HPages) :
        /\ r[1] + r[2] <= HPages
        /\ Run(r[1], r[2]) \cap set = {}
        /\ r[1] = 0 \/ r[1] - 1 \in set
        /\ r[1] + r[2] = HPages \/ r[1] + r[2] \in set}

Longest(ranges) == Max({0} \union {r[2] : r \in ranges})

\* Where allocations of n pages fit: every free range is carved up from its
\* start, and longest_len is what is left of the ranges before it.
Offsets(h, n) ==
    LET free == URanges(h.active) IN
    UNION {{[index |-> r[1] + i * n, len_before |-> r[2] - i * n,
             longest_len |-> Longest({<< q[1], q[2] % n >> :
                                        q \in {x \in free : x[1] < r[1]}})] :
              i \in 0 .. (r[2] \div n) - 1} : r \in free}

\* First fit: the first max_nallocs of them.
hpdata_find_alloc_offsets(h, n, max_nallocs) ==
    LET all == Offsets(h, n) IN
    SubSeq(SetToSortSeq(all, LAMBDA x, y : x.index < y.index), 1,
           IF max_nallocs < Cardinality(all) THEN max_nallocs ELSE Cardinality(all))

hpdata_reserve_alloc_offset_touched_forgotten(h, n, offset) ==
    LET new == Run(offset.index, n) IN
    [h EXCEPT !.active = @ \union new, !.nactive = @ + n,
              !.ntouched = @ + Cardinality(new \ h.touched)]

hpdata_reserve_alloc_offset(h, n, offset) ==
    LET new == Run(offset.index, n) IN
    [h EXCEPT !.active = @ \union new, !.nactive = @ + n,
              !.touched = @ \union new,
              !.ntouched = @ + Cardinality(new \ h.touched)]

hpdata_post_reserve_alloc_offsets_rest_ignored(h, n, offsets) ==
    LET last == offsets[Len(offsets)] IN
    IF offsets = << >> \/ Max({offsets[i].len_before : i \in DOMAIN offsets}) < h.longest
    THEN h
    ELSE [h EXCEPT !.longest = Max({last.longest_len, last.len_before - n})]

\* The longest free range after allocations at offsets, the successful ones:
\* unless one of them used up a longest range nothing changed; otherwise the
\* ranges behind the last one are the only ones not yet looked at.
hpdata_post_reserve_alloc_offsets(h, n, offsets) ==
    LET last == offsets[Len(offsets)]
        rest == {r \in URanges(h.active) : r[1] >= last.index + last.len_before}
    IN IF offsets = << >> \/ Max({offsets[i].len_before : i \in DOMAIN offsets}) < h.longest
       THEN h
       ELSE [h EXCEPT !.longest = Max({last.longest_len, last.len_before - n,
                                       Longest(rest)})]

\* The freed pages and the free pages around them may form a longer range.
hpdata_unreserve(h, begin, n) ==
    LET left == h.active \ Run(begin, n)
        around == {r \in URanges(left) : begin \in Run(r[1], r[2])}
    IN [h EXCEPT !.active = left, !.nactive = @ - n,
                 !.longest = Max({@, Longest(around)})]

\* What hpdata_purge_begin collects: in every run of inactive pages, everything
\* from the first to the last dirty page, the clean ones between them included.
hpdata_purge_begin(h) ==
    LET dirty == h.touched \ h.active
        runs == {r \in URanges(h.active) : Run(r[1], r[2]) \cap dirty # {}}
        span(r) == LET d == Run(r[1], r[2]) \cap dirty IN Min(d) .. Max(d)
    IN [to_purge |-> UNION {span(r) : r \in runs},
        ndirty |-> hpdata_ndirty_get(h), nranges |-> Cardinality(runs)]

hpdata_purge_end(h, purge) ==
    [h EXCEPT !.touched = @ \ purge.to_purge, !.ntouched = @ - purge.ndirty]

hpdata_hugify(h) == [h EXCEPT !.huge = TRUE, !.touched = Indices,
                              !.ntouched = HPages]

hpdata_dehugify(h) == [h EXCEPT !.huge = FALSE]

\* hpdata_consistent: the counters and the longest free range that are kept
\* beside the bitmaps are those of the bitmaps, and the flags agree.
hpdata_consistent(h) ==
    /\ h.longest = Longest(URanges(h.active))
    /\ h.nactive = Cardinality(h.active)
    /\ h.ntouched = Cardinality(h.touched)
    /\ h.nactive <= h.ntouched
    /\ h.huge => h.ntouched = HPages
    /\ hpdata_changing_state_get(h) => ~h.purge_allowed /\ ~h.hugify_allowed
    /\ h.hugify_allowed = h.in_hugify
=============================================================================
