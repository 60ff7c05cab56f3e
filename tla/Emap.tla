-------------------------------- MODULE Emap --------------------------------
(***************************************************************************)
(* Extent descriptors (edata_t) and the radix tree leaves that map the     *)
(* first and the last page of every extent to its descriptor (emap_t).     *)
(*                                                                         *)
(* The operators of this module are pure: each returns the leaf writes, in *)
(* program order, that the function of emap.c of the same name performs.   *)
(* The modules that use them perform the writes one at a time, because a   *)
(* leaf is one atomic word and two leaves are not: a thread that holds the *)
(* lock of another ecache may look at a leaf between any two writes.       *)
(*                                                                         *)
(* One arena and one page allocator (PAC) are modelled, so the pai and     *)
(* arena_ind comparisons of extent_can_acquire_neighbor hold throughout;   *)
(* szind and slab are of no interest to this layer and are left out.       *)
(***************************************************************************)
EXTENDS Integers, Sequences

CONSTANTS
    NPages,     \* the pages 1 .. NPages are the whole address space
    Edatas,     \* the extent descriptors that base_alloc_edata can supply
    NULL

ASSUME EmapAssumption == NPages \in Nat \ {0} /\ NULL \notin Edatas

Pages == 1 .. NPages

\* The states of an extent that is cached in an ecache of that state.
Ecaches == {"dirty", "muzzy", "retained", "pinned"}

ExtentStates == Ecaches \union {"active", "merging"}

Edata == [base : Pages, size : Pages, state : ExtentStates,
          head : BOOLEAN, pinned : BOOLEAN, zeroed : BOOLEAN,
          committed : BOOLEAN]

LastPage(d) == d.base + d.size - 1
PastPage(d) == d.base + d.size
PagesOf(d) == d.base .. LastPage(d)

Leaf == [edata : Edatas \union {NULL}, state : ExtentStates, head : BOOLEAN]

\* A cleared leaf: state 0 is extent_state_active.
NoLeaf == [edata |-> NULL, state |-> "active", head |-> FALSE]

LeafOf(e, d) == [edata |-> e, state |-> d.state, head |-> d.head]

Write(p, leaf) == [page |-> p, leaf |-> leaf]

-----------------------------------------------------------------------------

(* Operators named X_<bug> are X with a bug that the properties must detect. *)

\* d is the descriptor with its new state already set.
emap_update_edata_state(e, d) ==
    IF d.size = 1
    THEN << Write(d.base, LeafOf(e, d)) >>
    ELSE << Write(d.base, LeafOf(e, d)), Write(LastPage(d), LeafOf(e, d)) >>

emap_rtree_write_acquired(a, b, leaf) == << Write(a, leaf), Write(b, leaf) >>

emap_register_boundary(e, d) ==
    emap_rtree_write_acquired(d.base, LastPage(d), LeafOf(e, d))

emap_deregister_boundary(d) ==
    emap_rtree_write_acquired(d.base, LastPage(d), NoLeaf)

\* The boundaries of the lead, then those of the trail.
emap_split_commit(lead, d, trail, dt) ==
    emap_register_boundary(lead, d) \o emap_register_boundary(trail, dt)

emap_merge_commit_last_forgotten(lead, old, dt, d) ==
    << Write(LastPage(old), NoLeaf), Write(dt.base, NoLeaf),
       Write(d.base, LeafOf(lead, d)) >>

\* lead had descriptor old before the merge and has d after it.
emap_merge_commit(lead, old, dt, d) ==
    << Write(LastPage(old), NoLeaf), Write(dt.base, NoLeaf) >>
        \o emap_rtree_write_acquired(d.base, LastPage(dt), LeafOf(lead, d))

\* The page whose leaf is consulted to find a neighbour.
NeighborPage(d, forward) == IF forward THEN PastPage(d) ELSE d.base - 1

extent_can_acquire_neighbor_any_state(d, leaf, nd, state, forward, expanding) ==
    /\ leaf.edata # NULL
    /\ IF forward THEN ~leaf.head ELSE ~d.head
    /\ expanding \/ d.committed = nd.committed
    /\ d.pinned = nd.pinned

\* May the extent d acquire the neighbour that leaf describes?  nd is the
\* neighbour's descriptor, which is only read once the leaf's state matched.
extent_can_acquire_neighbor(d, leaf, nd, state, forward, expanding) ==
    /\ leaf.edata # NULL
    /\ IF forward THEN ~leaf.head ELSE ~d.head
    /\ leaf.state = state
    /\ expanding \/ d.committed = nd.committed
    /\ d.pinned = nd.pinned

SplitTrail_short(d, n) == [d EXCEPT !.base = @ + n, !.size = @ - n - 1,
                                    !.head = FALSE]
\* The two halves of extent_split_impl.
SplitLead(d, n) == [d EXCEPT !.size = n]
SplitTrail(d, n) == [d EXCEPT !.base = @ + n, !.size = @ - n, !.head = FALSE]

Merged_lead_zeroed(d, dt) == [d EXCEPT !.state = "active", !.size = @ + dt.size]

\* extent_merge_impl: what the lead becomes.
Merged(d, dt) == [d EXCEPT !.state = "active", !.size = @ + dt.size,
                           !.zeroed = @ /\ dt.zeroed]
=============================================================================
