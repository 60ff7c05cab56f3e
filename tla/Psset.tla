-------------------------------- MODULE Psset -------------------------------
(***************************************************************************)
(* The set of page slabs of an HPA shard (psset_t).  A slab that may serve *)
(* allocations is in one of the heaps, by the size class of its longest    *)
(* free range, or in the list of empty slabs; one that may be purged is in *)
(* a purge list, by how much there is to gain; one that may be hugified is *)
(* in the hugify list.                                                     *)
(*                                                                         *)
(* A psset is a record that also holds the hpdata of its slabs.  The       *)
(* operators are pure and map a psset to the psset after the function of   *)
(* psset.c of the same name; all of them run under the shard's mutex.  A   *)
(* heap is a set, since its order is that of the ages, and the bitmaps of  *)
(* non-empty heaps and purge lists are read off the heaps and lists.       *)
(***************************************************************************)
EXTENDS Hpdata

Slabs == 1 .. opt.slabs     \* the hugepage-sized regions, by their place
PszClasses == opt.classes   \* the page size classes, in pages, up to HPages
Classless == opt.classless  \* sz_large_size_classes_disabled()

\* sz_psz2ind of a size rounded down, and up, to a size class.
FloorInd(n) == Cardinality({c \in PszClasses : c <= n}) - 1
CeilInd(n) == Cardinality({c \in PszClasses : c < n})

NAllocBins == Cardinality(PszClasses)
HeapInds == 0 .. NAllocBins - 1

\* Purge lists: two per size class, and the last two for empty slabs.
NPurgeLists == 2 * NAllocBins + 2
PurgeInds == 0 .. NPurgeLists - 1

\* The statistics: of all slabs, and by fullness and hugeness.
NoStats == [npageslabs |-> 0, nactive |-> 0, ndirty |-> 0]
EmptySlabs == -1
FullSlabs == -2
Fullness == HeapInds \union {EmptySlabs, FullSlabs}

psset_init ==
    [hp |-> [s \in Slabs |-> hpdata_init(0, FALSE)], members |-> {},
     heap |-> [i \in HeapInds |-> {}], empty |-> << >>,
     to_purge |-> [i \in PurgeInds |-> << >>], to_hugify |-> << >>,
     merged |-> NoStats,
     bin |-> [k \in Fullness \X BOOLEAN |-> NoStats]]

Without(seq, x) == SelectSeq(seq, LAMBDA y : y # x)

-----------------------------------------------------------------------------

(* Operators named X_<bug> are X with a bug that the properties must detect. *)

psset_hpdata_heap_index(h) == FloorInd(h.longest)

StatsKey(h) ==
    << IF hpdata_empty(h) THEN EmptySlabs ELSE IF hpdata_full(h) THEN FullSlabs
       ELSE psset_hpdata_heap_index(h), h.huge >>

psset_slab_stats_insert_remove(p, s, mul) ==
    LET h == p.hp[s]
        plus(st) == [npageslabs |-> st.npageslabs + mul,
                     nactive |-> st.nactive + mul * h.nactive,
                     ndirty |-> st.ndirty + mul * hpdata_ndirty_get(h)]
    IN [p EXCEPT !.merged = plus(@), !.bin[StatsKey(h)] = plus(@)]

psset_stats_insert(p, s) == psset_slab_stats_insert_remove(p, s, 1)
psset_stats_remove(p, s) == psset_slab_stats_insert_remove(p, s, -1)

\* Empty slabs are kept last in, first out; full ones are not kept at all.
psset_alloc_container_insert(p, s) ==
    LET h == p.hp[s]
        q == [p EXCEPT !.hp[s].in_alloc = TRUE]
    IN IF hpdata_empty(h) THEN [q EXCEPT !.empty = << s >> \o @]
       ELSE IF hpdata_full(h) THEN q
       ELSE [q EXCEPT !.heap[psset_hpdata_heap_index(h)] = @ \union {s}]

psset_alloc_container_remove(p, s) ==
    LET h == p.hp[s]
        q == [p EXCEPT !.hp[s].in_alloc = FALSE]
    IN IF hpdata_empty(h) THEN [q EXCEPT !.empty = Without(@, s)]
       ELSE IF hpdata_full(h) THEN q
       ELSE [q EXCEPT !.heap[psset_hpdata_heap_index(h)] = @ \ {s}]

psset_purge_list_ind(h) ==
    IF hpdata_empty(h) THEN NPurgeLists - (IF h.huge THEN 1 ELSE 2)
    ELSE 2 * FloorInd(hpdata_ndirty_get(h)) + (IF h.huge THEN 0 ELSE 1)

psset_maybe_remove_purge_list(p, s) ==
    IF p.hp[s].purge_allowed
    THEN [p EXCEPT !.to_purge[psset_purge_list_ind(p.hp[s])] = Without(@, s)]
    ELSE p

psset_maybe_insert_purge_list(p, s) ==
    IF p.hp[s].purge_allowed
    THEN [p EXCEPT !.to_purge[psset_purge_list_ind(p.hp[s])] = Append(@, s)]
    ELSE p

\* Presence in the hugify list is only brought up to date at the end of an
\* update, to keep the list first in, first out.
HugifyListUpdate(p, s) ==
    LET h == p.hp[s] IN
    IF h.hugify_allowed = h.in_hugify THEN p
    ELSE [p EXCEPT !.hp[s].in_hugify = h.hugify_allowed,
                   !.to_hugify = IF h.hugify_allowed THEN Append(@, s)
                                 ELSE Without(@, s)]

psset_update_begin_impl(p, s, retained) ==
    LET q == psset_stats_remove([p EXCEPT !.hp[s].updating = TRUE], s)
        r == IF q.hp[s].in_alloc /\ ~retained
             THEN psset_alloc_container_remove(q, s) ELSE q
    IN psset_maybe_remove_purge_list(r, s)

psset_update_end_impl(p, s, retained) ==
    LET q == psset_stats_insert([p EXCEPT !.hp[s].updating = FALSE], s)
        r == IF q.hp[s].alloc_allowed /\ ~retained
             THEN psset_alloc_container_insert(q, s) ELSE q
    IN HugifyListUpdate(psset_maybe_insert_purge_list(r, s), s)

psset_update_begin(p, s) == psset_update_begin_impl(p, s, FALSE)
psset_update_end(p, s) == psset_update_end_impl(p, s, FALSE)

\* An update by an allocation or a deallocation leaves a slab that is in a
\* heap there ...
AllocUpdate(h) ==
    [retained |-> h.in_alloc /\ ~hpdata_empty(h) /\ ~hpdata_full(h),
     age |-> h.age, ind |-> psset_hpdata_heap_index(h)]

psset_alloc_update_begin(p, s) ==
    psset_update_begin_impl(p, s, AllocUpdate(p.hp[s]).retained)

\* ... unless, at the end of the update, it belongs elsewhere.
psset_alloc_update_end(p, s, u) ==
    LET h == p.hp[s]
        moves == /\ u.retained
                 /\ \/ ~h.alloc_allowed \/ hpdata_empty(h) \/ hpdata_full(h)
                    \/ h.age # u.age \/ psset_hpdata_heap_index(h) # u.ind
        q == IF moves THEN [p EXCEPT !.heap[u.ind] = @ \ {s},
                                     !.hp[s].in_alloc = FALSE]
             ELSE p
    IN psset_update_end_impl(q, s, u.retained /\ ~moves)

\* The set of slabs that may be picked for n pages: the oldest slab of the
\* first heap whose slabs surely fit, or else the last slab that became empty.
\* Without large size classes the heap below is searched first, in any order.
Oldest(p, S) == {s \in S : \A x \in S : p.hp[s].age <= p.hp[x].age}

psset_pick_alloc_floor(p, n) ==
    LET heaps == {i \in HeapInds : i >= FloorInd(n) /\ p.heap[i] # {}} IN
    IF heaps # {} THEN Oldest(p, p.heap[Min(heaps)])
    ELSE IF p.empty # << >> THEN {Head(p.empty)}
    ELSE {}

psset_pick_alloc(p, n) ==
    LET heaps == {i \in HeapInds : i >= CeilInd(n) /\ p.heap[i] # {}}
        below == IF Classless /\ FloorInd(n) < CeilInd(n)
                 THEN {s \in p.heap[FloorInd(n)] : p.hp[s].longest >= n} ELSE {}
    IN IF below # {} THEN below
       ELSE IF heaps # {} THEN Oldest(p, p.heap[Min(heaps)])
       ELSE IF p.empty # << >> THEN {Head(p.empty)}
       ELSE {}

\* A set of one slab, or the empty set.
psset_pick_purge(p) ==
    LET lists == {i \in PurgeInds : p.to_purge[i] # << >>} IN
    IF lists = {} THEN {} ELSE {Head(p.to_purge[Max(lists)])}

psset_pick_hugify(p) == IF p.to_hugify = << >> THEN {} ELSE {Head(p.to_hugify)}

psset_insert_not_listed(p, s, h) ==
    LET q == [p EXCEPT !.hp[s] = h, !.members = @ \union {s}] IN
    HugifyListUpdate(psset_maybe_insert_purge_list(psset_stats_insert(q, s), s), s)

psset_insert(p, s, h) ==
    LET q == [p EXCEPT !.hp[s] = h, !.members = @ \union {s}]
        r == psset_stats_insert(q, s)
    IN HugifyListUpdate(psset_maybe_insert_purge_list(
           IF h.alloc_allowed THEN psset_alloc_container_insert(r, s) ELSE r, s), s)

psset_remove(p, s) ==
    LET q == psset_stats_remove(p, s)
        r == IF q.hp[s].in_alloc THEN psset_alloc_container_remove(q, s) ELSE q
        x == psset_maybe_remove_purge_list(r, s)
    IN [x EXCEPT !.members = @ \ {s}, !.to_hugify = Without(@, s),
                 !.hp[s].in_hugify = FALSE]
=============================================================================
