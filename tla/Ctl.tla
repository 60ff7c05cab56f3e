-------------------------------- MODULE Ctl --------------------------------
(*
The mallctl interface (ctl.c): the tree of names and its two encodings, names and
MIBs, and the statistics snapshot that "epoch" refreshes, summed over the arenas
and kept for the arenas that were destroyed.  Every handler runs under ctl_mtx
and is one action; the races of arena creation and destruction with the threads
that use the arenas are modelled in Background.

The tree is a part of the real one with a leaf, a named and an indexed child of
every sort.  An arena's statistics are one of each kind: nmalloc, a count that only
grows, and curregs, a gauge that is empty once the arena is reset.
Operators named X_<bug> are X with a bug that the properties must detect.
*)
EXTENDS Naturals, Sequences, SequencesExt, FiniteSets, FiniteSetsExt, Functions, TLC

CONSTANTS
    CtNames,        \* names looked up, sequences of elements
    CtAuto,         \* automatic arenas: indices below it
    CtMaxArenas,    \* bound: arena indices
    CtMaxAllocs,    \* bound: allocations
    CTL_MAX_DEPTH

VARIABLE ct     \* [narenas, live, snap, destroyed, total, gone, fresh]

ALL == 4096         \* MALLCTL_ARENAS_ALL
DESTROYED == 4097   \* MALLCTL_ARENAS_DESTROYED
NoArena == [nmalloc |-> 0, curregs |-> 0]

-----------------------------------------------------------------------------
(* The tree: named children in order, the node below an indexed one, leaves. *)
NamedKids(node) ==
    CASE node = "root" -> << "version", "epoch", "arena", "arenas", "stats" >>
      [] node = "arenas" -> << "narenas", "create" >>
      [] node = "arena.i" -> << "initialized", "destroy" >>
      [] node = "stats" -> << "allocated", "arenas" >>
      [] node = "stats.arenas.i" -> << "nmalloc", "curregs" >>
      [] OTHER -> << >>
NodeBelow(node, name) ==
    CASE node = "stats" /\ name = "arenas" -> "stats.arenas"
      [] name \in {"arena", "arenas", "stats"} -> name
      [] OTHER -> "leaf"
IsIndexed(node) == node \in {"arena", "stats.arenas"}
IsLeaf(node) == node = "leaf"

(* malloc_strtoumax of an element; {} when it is no number. *)
Index(elm) == CASE elm = "0" -> {0} [] elm = "1" -> {1} [] elm = "2" -> {2}
                [] elm = "3" -> {3} [] elm = "4096" -> {ALL} [] elm = "4097" -> {DESTROYED}
                [] OTHER -> {}
Numerals == {"0", "1", "2", "3", "4096", "4097"}

ctl_arena_ind_is_deprecated_all(i) == i = ct.narenas

(* arenas_i2a_impl with compat and validate: the snapshot an index names. *)
arenas_i2a(i) ==
    CASE i \in {ALL, DESTROYED} -> {i}
      [] ctl_arena_ind_is_deprecated_all(i) -> {ALL}
      [] i > ct.narenas -> {}
      [] OTHER -> {i}

ctl_arenas_i_verify(i) == arenas_i2a(i) = {} \/ \E a \in arenas_i2a(i) : ~ct.snap[a].init

(* The index callbacks: the node below, or "NULL". *)
arena_i_index(i) ==
    IF i \in {ALL, DESTROYED} \/ i <= ct.narenas THEN "arena.i" ELSE "NULL"
stats_arenas_i_index(i) == IF ctl_arenas_i_verify(i) THEN "NULL" ELSE "stats.arenas.i"
IndexCallback(node, i) ==
    IF node = "arena" THEN arena_i_index(i) ELSE stats_arenas_i_index(i)

Position(s, x) == {j \in DOMAIN s : s[j] = x}

(* One element of ctl_lookup. *)
LookupStep(acc, elm) ==
    LET i == IF IsIndexed(acc.node) THEN Index(elm)
             ELSE {j - 1 : j \in Position(NamedKids(acc.node), elm)}
        to(j) == IF IsIndexed(acc.node) THEN IndexCallback(acc.node, j)
                 ELSE NodeBelow(acc.node, NamedKids(acc.node)[j + 1])
    IN  IF acc.ret # "ok" \/ IsLeaf(acc.node) \/ i = {} \/ \E j \in i : to(j) = "NULL"
        THEN [acc EXCEPT !.ret = "ENOENT"]
        ELSE [ret |-> "ok", node |-> to(CHOOSE j \in i : TRUE),
              mib |-> Append(acc.mib, CHOOSE j \in i : TRUE)]

RECURSIVE LookupFrom(_, _)
LookupFrom(acc, name) ==
    IF name = << >> THEN acc ELSE LookupFrom(LookupStep(acc, Head(name)), Tail(name))

(* ctl_lookup: at most depth elements are translated, but no name goes past a leaf. *)
ctl_lookup(start, name, depth) ==
    LET r == LookupFrom([ret |-> "ok", node |-> start, mib |-> << >>],
                        SubSeq(name, 1, Min({depth, Len(name)})))
    IN  IF name = << >> \/ Head(name) = "" \/ (IsLeaf(r.node) /\ Len(name) > depth)
        THEN [r EXCEPT !.ret = "ENOENT"] ELSE r

MibStep_unchecked(acc, j) ==
    IF acc.ret # "ok" THEN acc
    ELSE [acc EXCEPT !.node = IF IsIndexed(acc.node)
                              THEN IF acc.node = "arena" THEN "arena.i" ELSE "stats.arenas.i"
                              ELSE NodeBelow(acc.node, NamedKids(acc.node)[j + 1])]

MibStep(acc, j) ==
    IF acc.ret # "ok" THEN acc
    ELSE IF \/ IsIndexed(acc.node) /\ IndexCallback(acc.node, j) = "NULL"
            \/ ~IsIndexed(acc.node) /\ Len(NamedKids(acc.node)) <= j
         THEN [acc EXCEPT !.ret = "ENOENT"]
         ELSE [acc EXCEPT !.node = IF IsIndexed(acc.node) THEN IndexCallback(acc.node, j)
                                   ELSE NodeBelow(acc.node, NamedKids(acc.node)[j + 1])]

RECURSIVE MibFrom(_, _)
MibFrom(acc, mib) == IF mib = << >> THEN acc ELSE MibFrom(MibStep(acc, Head(mib)), Tail(mib))

ctl_lookupbymib(mib) == MibFrom([ret |-> "ok", node |-> "root"], mib)

(* What the four entry points reach: a handler ("leaf" and its MIB) or ENOENT. *)
Handler(ret, node, mib) == IF ret = "ok" /\ IsLeaf(node) THEN mib ELSE << "ENOENT" >>

ctl_byname(name) ==
    LET r == ctl_lookup("root", name, CTL_MAX_DEPTH) IN Handler(r.ret, r.node, r.mib)
ctl_nametomib(name, len) == ctl_lookup("root", name, len)
ctl_bymib(mib) == LET r == ctl_lookupbymib(mib) IN Handler(r.ret, r.node, mib)
ctl_mibnametomib(mib, name, len) ==
    LET r == ctl_lookupbymib(mib)
        l == ctl_lookup(r.node, name, len - Len(mib))
    IN  IF r.ret # "ok" \/ IsLeaf(r.node) THEN [ret |-> "ENOENT", node |-> "root", mib |-> mib]
        ELSE [l EXCEPT !.mib = mib \o @]
ctl_bymibname(mib, name, len) ==
    LET r == ctl_mibnametomib(mib, name, len) IN Handler(r.ret, r.node, r.mib)

-----------------------------------------------------------------------------
(* The snapshot. *)
ctl_arena_clear(s) == [s EXCEPT !.nmalloc = 0, !.curregs = 0]

(* ctl_arena_stats_amerge and ctl_arena_stats_sdmerge: the gauges of a destroyed
   arena are left out of the sum. *)
ctl_arena_stats_amerge(s, a) ==
    [s EXCEPT !.nmalloc = @ + a.nmalloc, !.curregs = @ + a.curregs]
ctl_arena_stats_sdmerge(sd, a, destroyed) ==
    [sd EXCEPT !.nmalloc = @ + a.nmalloc,
               !.curregs = IF destroyed THEN @ ELSE @ + a.curregs]

ctl_arena_refresh(snap, arena, sum, i, destroyed) ==
    LET mine == ctl_arena_stats_amerge(ctl_arena_clear(snap[i]), arena)
    IN  [snap EXCEPT ![i] = mine, ![sum] = ctl_arena_stats_sdmerge(@, mine, destroyed)]

IsLive(i) == i \in DOMAIN ct.live

RefreshOne(snap, i) ==
    LET s == [snap EXCEPT ![i].init = IsLive(i)]
    IN  IF IsLive(i) THEN ctl_arena_refresh(s, ct.live[i], ALL, i, FALSE) ELSE s

(* The arenas from i on. *)
RECURSIVE RefreshFrom(_, _)
RefreshFrom(snap, i) ==
    IF i = ct.narenas THEN snap ELSE RefreshFrom(RefreshOne(snap, i), i + 1)

ctl_refresh_uncleared == RefreshFrom(ct.snap, 0)

ctl_refresh == RefreshFrom([ct.snap EXCEPT ![ALL] = ctl_arena_clear(@)], 0)

epoch_ctl == ct' = [ct EXCEPT !.snap = ctl_refresh, !.fresh = TRUE]

(* ctl_arena_init: the last destroyed index, or a new one.  When arena_init fails
   an index taken from the list does not go back. *)
NewIndex == IF ct.destroyed # << >> THEN Last(ct.destroyed) ELSE ct.narenas
Remaining == IF ct.destroyed # << >> THEN Front(ct.destroyed) ELSE << >>
EmptySnap == NoArena @@ [init |-> FALSE]

arenas_create_ctl ==
    /\ NewIndex < CtMaxArenas
    /\ ct' = [ct EXCEPT
         !.destroyed = Remaining,
         !.snap = IF NewIndex \in DOMAIN @ THEN @ ELSE @ @@ (NewIndex :> EmptySnap),
         !.live = @ @@ (NewIndex :> NoArena),
         !.narenas = IF NewIndex = ct.narenas THEN @ + 1 ELSE @,
         !.fresh = FALSE]

CreateFails ==
    /\ NewIndex < CtMaxArenas
    /\ ct.destroyed # << >>
    /\ ct' = [ct EXCEPT !.destroyed = Remaining]

(* arena_i_destroy_ctl: reset, merge into the destroyed sum, destroy, remember
   the index. *)
arena_i_destroy_ctl == \E i \in DOMAIN ct.live :
    /\ i >= CtAuto
    /\ LET arena == [ct.live[i] EXCEPT !.curregs = 0]
           snap == [ctl_arena_refresh(ct.snap, arena, DESTROYED, i, TRUE)
                      EXCEPT ![DESTROYED].init = TRUE, ![i].init = FALSE]
       IN  ct' = [ct EXCEPT
             !.snap = snap, !.live = Restrict(@, DOMAIN @ \ {i}),
             !.destroyed = Append(@, i), !.gone = @ + arena.nmalloc, !.fresh = FALSE]

(* The arenas at work, and an automatic arena coming to be. *)
ArenaAllocates == \E i \in DOMAIN ct.live :
    /\ ct.total < CtMaxAllocs
    /\ ct' = [ct EXCEPT !.live[i].nmalloc = @ + 1, !.live[i].curregs = @ + 1,
                        !.total = @ + 1, !.fresh = FALSE]

ArenaFrees == \E i \in DOMAIN ct.live :
    /\ ct.live[i].curregs > 0
    /\ ct' = [ct EXCEPT !.live[i].curregs = @ - 1, !.fresh = FALSE]

AutoArenaInit == \E i \in 0 .. CtAuto - 1 :
    /\ ~IsLive(i)
    /\ ct' = [ct EXCEPT !.live = @ @@ (i :> NoArena), !.fresh = FALSE]

(* ctl_init, with arena 0 alone initialised. *)
CtInit ==
    ct = [narenas |-> CtAuto, live |-> (0 :> NoArena),
          snap |-> (ALL :> (NoArena @@ [init |-> TRUE])) @@ (DESTROYED :> EmptySnap)
                   @@ [i \in 0 .. CtAuto - 1 |-> NoArena @@ [init |-> i = 0]],
          destroyed |-> << >>, total |-> 0, gone |-> 0, fresh |-> TRUE]

CtNext == \/ epoch_ctl \/ arenas_create_ctl \/ CreateFails \/ arena_i_destroy_ctl
          \/ ArenaAllocates \/ ArenaFrees \/ AutoArenaInit
-----------------------------------------------------------------------------
(* A name and the MIB made from it, whole or in two parts at any element, reach the
   same handler with the same MIB, or none of them reaches one; so does a MIB whose
   index was replaced, as the manual has it used, and the name with that index (ctl_byname,
   ctl_bymib, ctl_mibnametomib, ctl_bymibname).  No lookup reads a count: the
   states before the first allocation have every shape of the arenas. *)
LookupsAgree ==
    ct.total = 0 => \A name \in CtNames :
      LET whole == ctl_nametomib(name, CTL_MAX_DEPTH) IN
      /\ whole.ret = "ok" => /\ ctl_lookupbymib(whole.mib).node = whole.node
                             /\ ctl_bymib(whole.mib) = ctl_byname(name)
                             /\ \A k \in DOMAIN name, e \in Numerals :
                                  name[k] \in Numerals =>
                                    \A i \in Index(e) : ctl_bymib([whole.mib EXCEPT ![k] = i])
                                      = ctl_byname([name EXCEPT ![k] = e])
      /\ \A k \in 1 .. Len(name) - 1 :
           LET part == ctl_nametomib(SubSeq(name, 1, k), CTL_MAX_DEPTH)
               rest == SubSeq(name, k + 1, Len(name))
           IN  /\ part.ret # "ok" => whole.ret # "ok"
               /\ part.ret = "ok" /\ Head(rest) # "" =>
                    /\ ctl_mibnametomib(part.mib, rest, CTL_MAX_DEPTH).ret = whole.ret
                    /\ ctl_bymibname(part.mib, rest, CTL_MAX_DEPTH) = ctl_byname(name)

RECURSIVE LiveRegs(_)
LiveRegs(S) ==
    IF S = {} THEN 0
    ELSE LET i == CHOOSE i \in S : TRUE IN ct.live[i].curregs + LiveRegs(S \ {i})

(* A fresh snapshot adds up: the sum over the arenas and the destroyed ones count
   every allocation ever made once, and the live regions; an index used again
   starts from nothing; the destroyed arenas hold no regions; an index waiting to
   be used again has no arena (ctl_refresh, ctl_arena_stats_sdmerge,
   arena_i_destroy_ctl, ctl_arena_init). *)
StatsAddUp ==
    /\ ct.snap[DESTROYED].nmalloc = ct.gone /\ ct.snap[DESTROYED].curregs = 0
    /\ IsInjective(ct.destroyed)
    /\ \A k \in DOMAIN ct.destroyed : /\ ct.destroyed[k] \in CtAuto .. ct.narenas - 1
                                      /\ ~IsLive(ct.destroyed[k])
    /\ DOMAIN ct.live \subseteq 0 .. ct.narenas - 1
    /\ ct.fresh =>
         /\ ct.snap[ALL].nmalloc + ct.snap[DESTROYED].nmalloc = ct.total
         /\ ct.snap[ALL].curregs = LiveRegs(DOMAIN ct.live)
         /\ \A i \in 0 .. ct.narenas - 1 :
              /\ ct.snap[i].init = IsLive(i)
              /\ IsLive(i) => ct.snap[i].nmalloc = ct.live[i].nmalloc
=============================================================================
