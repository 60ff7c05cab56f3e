------------------------------- MODULE MCPac --------------------------------
(* Instances of Pac for TLC. *)
EXTENDS Pac

Symmetry == Permutations(Edatas) \union Permutations(Threads)

\* curpages grows without bound when batched splits fail over and over; one
\* address space over what is mapped is enough to tell.
BoundedCounters == {stats.curpages, stats.pac_mapped} \subseteq -NPages .. 2 * NPages

Default == [retain |-> TRUE, muzzy |-> FALSE, batched |-> FALSE, oversize |-> 9,
            growInit |-> 2, growLimit |-> 3, hooks |-> {}, pages |-> 3,
            edatas |-> 3, sizes |-> {1, 2}, aligns |-> {1}, zeros |-> {FALSE},
            limits |-> {0}]

\* One page requests on three pages: splits, merges and decay of neighbours.
Neighbours == [Default EXCEPT !.sizes = {1}]

\* Without opt_retain memory is unmapped and mapped again; the hook may refuse
\* to unmap it, when it is retained after all.
Unmapping == [Default EXCEPT !.retain = FALSE, !.muzzy = TRUE, !.pages = 2,
                             !.zeros = {TRUE},
                             !.hooks = {"dalloc_fails"}]

\* All requests, with hooks that decommit and that fail to commit and purge.
Purging == [Default EXCEPT !.muzzy = TRUE, !.batched = TRUE, !.oversize = 3,
                           !.aligns = {1, 2}, !.zeros = {TRUE},
                           !.hooks = {"decommits", "commit_fails",
                                      "purge_lazy_fails", "purge_forced_fails"}]

\* Hooks that return pinned memory, and refuse to merge or to map.
Pinning == [Default EXCEPT !.hooks = {"pins", "merge_fails", "alloc_fails"}]

\* Too few descriptors: every split may fail.
Starved == [Default EXCEPT !.muzzy = TRUE, !.batched = TRUE, !.growLimit = 4,
                           !.pages = 4, !.edatas = 2, !.aligns = {1, 2}]

\* The split of a fresh mapping fails after its lead was split off.
Exhausted == [Starved EXCEPT !.batched = FALSE, !.muzzy = FALSE, !.growInit = 3,
                             !.sizes = {1}, !.aligns = {2}]

ThreadOptions == {Neighbours, Unmapping}
FaultOptions == {Purging, Pinning, Starved, Exhausted}
SalvageOptions == {[Starved EXCEPT !.batched = FALSE, !.growInit = 3]}

(***************************************************************************)
(* The leaves of the emap are those of the extents, but for the writes a   *)
(* thread still has to make, and whatever a reader finds through them when *)
(* it tries to acquire a neighbour is a neighbour it may have (emap.c).    *)
(***************************************************************************)
EmapSound == EmapExact /\ AcquireSafe

(***************************************************************************)
(* Under failing hooks and with too few descriptors: what pac_alloc        *)
(* returns is what was asked for, memory said to be zero is zero, pinned   *)
(* memory never mixes with other memory, and no two extents share a page   *)
(* (extent_recycle, extent_grow_retained, pac_dalloc).                     *)
(***************************************************************************)
AllocSound == TypeOK /\ OneOwner /\ AllocHonest /\ ZeroedHonest /\ PinnedApart
=============================================================================
