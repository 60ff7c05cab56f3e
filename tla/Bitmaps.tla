------------------------------ MODULE Bitmaps ------------------------------
(***************************************************************************)
(* The two bitmaps: bitmap.h with bitmap.c, which find the free regions of *)
(* a slab and the nonempty size classes, and fb.h, the flat bitmaps of the *)
(* huge page metadata.                                                     *)
(*                                                                         *)
(* A group (a word) is the set of its set bits, LG_BITMAP_GROUP_NBITS and  *)
(* FB_GROUP_BITS are small.  bitmap.h stores its bits inverted: a 1 in a   *)
(* group is an unset bit.  bm is one bitmap with its layout, in the tree   *)
(* form or not; fb and fb2 are two flat bitmaps of FbBits bits.            *)
(***************************************************************************)
EXTENDS Integers, Sequences, FiniteSets

CONSTANTS LG_BITMAP_GROUP_NBITS, BitmapSizes, FB_GROUP_BITS, FbBits

ASSUME BitmapsAssumption == /\ LG_BITMAP_GROUP_NBITS \in Nat \ {0}
                            /\ BitmapSizes \subseteq Nat \ {0}
                            /\ FB_GROUP_BITS \in Nat \ {0}
                            /\ FbBits \in Nat \ {0}

VARIABLES bm, fb, fb2
bmvars == <<bm, fb, fb2>>

BITMAP_GROUP_NBITS == 2 ^ LG_BITMAP_GROUP_NBITS
AllOnes == 0 .. BITMAP_GROUP_NBITS - 1

ffs_lu(g) == CHOOSE i \in g : \A j \in g : i <= j
fls_lu(g) == CHOOSE i \in g : \A j \in g : i >= j

-----------------------------------------------------------------------------
(* bitmap.h *)

BITMAP_BITS2GROUPS(nbits) ==
  (nbits + BITMAP_GROUP_NBITS - 1) \div BITMAP_GROUP_NBITS

(* Groups of each level, the bottom one first, up to a single group.  The  *)
(* linear form has the bottom level only.                                  *)
RECURSIVE LevelGroups(_)
LevelGroups(nbits) ==
  LET groups == BITMAP_BITS2GROUPS(nbits)
  IN  <<groups>> \o IF groups > 1 THEN LevelGroups(groups) ELSE <<>>

RECURSIVE Offsets(_, _)
Offsets(groups, offset) ==
  IF groups = <<>> THEN <<offset>>
  ELSE <<offset>> \o Offsets(Tail(groups), offset + Head(groups))

(* struct bitmap_info_s; group_offset[l + 1] is levels[l].group_offset. *)
bitmap_info_init(nbits, tree) ==
  LET groups == IF tree THEN LevelGroups(nbits)
                        ELSE <<BITMAP_BITS2GROUPS(nbits)>>
  IN  [nbits |-> nbits, tree |-> tree, nlevels |-> Len(groups),
       group_offset |-> Offsets(groups, 0)]

bitmap_info_ngroups(info) == info.group_offset[info.nlevels + 1]

(* The last group of each level has no bits past the end of the level. *)
bitmap_init(info, fill) ==
  LET used(g) == \* how many bits the group g, of level l, stands for
        LET l == CHOOSE l \in 1 .. info.nlevels :
                   /\ info.group_offset[l] <= g
                   /\ g < info.group_offset[l + 1]
            count == IF l = 1 THEN info.nbits
                     ELSE info.group_offset[l] - info.group_offset[l - 1]
            extra == (BITMAP_GROUP_NBITS - (count % BITMAP_GROUP_NBITS))
                       % BITMAP_GROUP_NBITS
        IN  IF g = info.group_offset[l + 1] - 1
            THEN BITMAP_GROUP_NBITS - extra ELSE BITMAP_GROUP_NBITS
  IN  [g \in 0 .. bitmap_info_ngroups(info) - 1 |->
         IF fill THEN {} ELSE 0 .. used(g) - 1]

GroupOf(bit) == bit \div BITMAP_GROUP_NBITS
BitIn(bit) == bit % BITMAP_GROUP_NBITS

bitmap_full(b) ==
  IF b.info.tree THEN b.map[bitmap_info_ngroups(b.info) - 1] = {}
  ELSE \A g \in DOMAIN b.map : b.map[g] = {}

bitmap_get(b, bit) == BitIn(bit) \notin b.map[GroupOf(bit)]

(* Bit goff of level l (from 1) changes because the group below it became  *)
(* or is no longer full; on up while this group does too.                  *)
RECURSIVE SetAbove(_, _, _)
SetAbove(b, l, bit) ==
  LET g == b.info.group_offset[l] + GroupOf(bit)
      s == [b EXCEPT !.map[g] = @ \ {BitIn(bit)}]
  IN  IF l > b.info.nlevels THEN b
      ELSE IF s.map[g] # {} THEN s
      ELSE SetAbove(s, l + 1, GroupOf(bit))

RECURSIVE UnsetAbove(_, _, _)
UnsetAbove(b, l, bit) ==
  LET g == b.info.group_offset[l] + GroupOf(bit)
      s == [b EXCEPT !.map[g] = @ \cup {BitIn(bit)}]
  IN  IF l > b.info.nlevels THEN b
      ELSE IF b.map[g] # {} THEN s
      ELSE UnsetAbove(s, l + 1, GroupOf(bit))

bitmap_group_set(b, goff, g) ==
  LET s == [b EXCEPT !.map[goff] = g]
  IN  IF b.info.tree /\ g = {} THEN SetAbove(s, 2, goff) ELSE s

bitmap_set(b, bit) ==
  bitmap_group_set(b, GroupOf(bit), b.map[GroupOf(bit)] \ {BitIn(bit)})

(* Operators named X_<bug> are X with a bug that the properties must       *)
(* detect.  Here a group that is no longer full is not reported above.     *)
bitmap_unset_below(b, bit) ==
  [b EXCEPT !.map[GroupOf(bit)] = @ \cup {BitIn(bit)}]

bitmap_unset(b, bit) ==
  LET g == b.map[GroupOf(bit)]
      s == [b EXCEPT !.map[GroupOf(bit)] = g \cup {BitIn(bit)}]
  IN  IF b.info.tree /\ g = {} THEN UnsetAbove(s, 2, GroupOf(bit)) ELSE s

(* Down the tree from level l, where bit is the first bit of the group; a  *)
(* group without a bit from min_bit on sends the search to its sibling.    *)
RECURSIVE FfuTree(_, _, _, _)
FfuTree(b, l, bit, min_bit) ==
  LET per_bit == BITMAP_GROUP_NBITS ^ (l - 1)
      per_group == per_bit * BITMAP_GROUP_NBITS
      group == b.map[b.info.group_offset[l] + bit \div per_group]
      nmask == (IF min_bit > bit THEN min_bit - bit ELSE 0) \div per_bit
      masked == {i \in group : i >= nmask}
      sib_base == bit + per_group
  IN  IF l = 0 THEN bit
      ELSE IF masked # {}
      THEN FfuTree(b, l - 1, bit + ffs_lu(masked) * per_bit, min_bit)
      ELSE IF group = {} \/ sib_base >= b.info.nbits THEN b.info.nbits
      ELSE FfuTree(b, b.info.nlevels, 0, sib_base)

RECURSIVE FfuLinear(_, _, _)
FfuLinear(b, i, g) ==
  IF g # {} THEN i * BITMAP_GROUP_NBITS + ffs_lu(g)
  ELSE IF i + 1 >= bitmap_info_ngroups(b.info) THEN b.info.nbits
  ELSE FfuLinear(b, i + 1, b.map[i + 1])

bitmap_ffu(b, min_bit) ==
  IF b.info.tree THEN FfuTree(b, b.info.nlevels, 0, min_bit)
  ELSE FfuLinear(b, GroupOf(min_bit),
                 {i \in b.map[GroupOf(min_bit)] : i >= BitIn(min_bit)})

RECURSIVE FirstUnsetTree(_, _, _)
FirstUnsetTree(b, l, at) ==
  IF l = 0 THEN at
  ELSE FirstUnsetTree(b, l - 1, at * BITMAP_GROUP_NBITS +
                        ffs_lu(b.map[b.info.group_offset[l] + at]))

RECURSIVE FirstGroupFrom(_, _)
FirstGroupFrom(b, g) == IF b.map[g] # {} THEN g ELSE FirstGroupFrom(b, g + 1)

FirstUnset(b) ==
  IF b.info.tree THEN FirstUnsetTree(b, b.info.nlevels, 0)
  ELSE LET g == FirstGroupFrom(b, 0)
       IN  g * BITMAP_GROUP_NBITS + ffs_lu(b.map[g])

bitmap_sfu(b) == bitmap_set(b, FirstUnset(b))

(* The groups before goff are full. *)
RECURSIVE FfuGroupTree(_, _, _)
FfuGroupTree(b, l, goff) ==
  IF l = 1 THEN goff
  ELSE FfuGroupTree(b, l - 1, goff * BITMAP_GROUP_NBITS +
                      ffs_lu(b.map[b.info.group_offset[l] + goff]))

bitmap_ffu_group(b, goff) ==
  IF b.info.tree THEN FfuGroupTree(b, b.info.nlevels, 0)
  ELSE FirstGroupFrom(b, goff)

BitmapInit ==
  \E nbits \in BitmapSizes, tree, fill \in BOOLEAN :
    LET info == bitmap_info_init(nbits, tree)
    IN  bm = [info |-> info, map |-> bitmap_init(info, fill)]

BitmapNext ==
  /\ \/ \E bit \in 0 .. bm.info.nbits - 1 :
          \/ ~bitmap_get(bm, bit) /\ bm' = bitmap_set(bm, bit)
          \/ bitmap_get(bm, bit) /\ bm' = bitmap_unset(bm, bit)
     \/ ~bitmap_full(bm) /\ bm' = bitmap_sfu(bm)
     \/ \E g \in 0 .. BITMAP_BITS2GROUPS(bm.info.nbits) - 1 :
          \E left \in SUBSET bm.map[g] : bm' = bitmap_group_set(bm, g, left)
  /\ UNCHANGED <<fb, fb2>>

-----------------------------------------------------------------------------
(* fb.h *)

FbGroups == 0 .. FbBits \div FB_GROUP_BITS
                   + (IF FbBits % FB_GROUP_BITS = 0 THEN 0 ELSE 1) - 1
FbAll == 0 .. FB_GROUP_BITS - 1

fb_init == [g \in FbGroups |-> {}]
fb_empty(f) == \A g \in FbGroups : f[g] = {}

fb_full(f) ==
  LET trailing == FbBits % FB_GROUP_BITS
      last == CHOOSE g \in FbGroups : \A h \in FbGroups : h <= g
  IN  /\ \A g \in FbGroups : trailing = 0 \/ g # last => f[g] = FbAll
      /\ trailing # 0 => f[last] = 0 .. trailing - 1

fb_get(f, bit) == bit % FB_GROUP_BITS \in f[bit \div FB_GROUP_BITS]

fb_set(f, bit) ==
  [f EXCEPT ![bit \div FB_GROUP_BITS] = @ \cup {bit % FB_GROUP_BITS}]

fb_unset(f, bit) ==
  [f EXCEPT ![bit \div FB_GROUP_BITS] = @ \ {bit % FB_GROUP_BITS}]

(* The masks that fb_visit_impl gives its visitor: the first group from    *)
(* start on, whole groups, and what is left over.                          *)
RECURSIVE VisitRest(_, _)
VisitRest(group_ind, cnt) ==
  IF cnt = 0 THEN {}
  ELSE IF cnt > FB_GROUP_BITS
  THEN {<<group_ind, FbAll>>} \cup VisitRest(group_ind + 1, cnt - FB_GROUP_BITS)
  ELSE {<<group_ind, 0 .. cnt - 1>>}

fb_visit_impl(start, cnt) ==
  LET first == start \div FB_GROUP_BITS
      bit == start % FB_GROUP_BITS
      first_group_cnt == IF bit + cnt > FB_GROUP_BITS
                         THEN FB_GROUP_BITS - bit ELSE cnt
  IN  {<<first, bit .. bit + first_group_cnt - 1>>}
        \cup VisitRest(first + 1, cnt - first_group_cnt)

Mask(g, start, cnt) ==
  UNION {v[2] : v \in {w \in fb_visit_impl(start, cnt) : w[1] = g}}

fb_set_range(f, start, cnt) ==
  [g \in FbGroups |-> f[g] \cup Mask(g, start, cnt)]
fb_unset_range(f, start, cnt) ==
  [g \in FbGroups |-> f[g] \ Mask(g, start, cnt)]

RECURSIVE SumCounts(_, _, _)
SumCounts(f, visits, sum) ==
  IF visits = {} THEN sum
  ELSE LET v == CHOOSE v \in visits : TRUE
       IN  SumCounts(f, visits \ {v}, sum + Cardinality(f[v[1]] \cap v[2]))

fb_scount(f, start, cnt) == SumCounts(f, fb_visit_impl(start, cnt), 0)
fb_ucount(f, start, cnt) == cnt - fb_scount(f, start, cnt)

Matching(f, g, val) == IF val THEN f[g] ELSE FbAll \ f[g]

(* group is what is left of group_ind; on to its neighbours. *)
RECURSIVE FindFrom(_, _, _, _, _)
FindFrom(f, group_ind, group, val, forward) ==
  LET next == IF forward THEN group_ind + 1 ELSE group_ind - 1
      bit == IF forward THEN ffs_lu(group) ELSE fls_lu(group)
      pos == group_ind * FB_GROUP_BITS + bit
  IN  IF group # {}
      THEN IF forward /\ ~val /\ pos > FbBits THEN FbBits ELSE pos
      ELSE IF next \notin FbGroups
      THEN IF forward THEN FbBits ELSE -1
      ELSE FindFrom(f, next, Matching(f, next, val), val, forward)

fb_find_impl(f, start, val, forward) ==
  LET g == start \div FB_GROUP_BITS
      bit == start % FB_GROUP_BITS
  IN  FindFrom(f, g, {i \in Matching(f, g, val) :
                        IF forward THEN i >= bit ELSE i <= bit}, val, forward)

(* No range, or its first bit and its length. *)
fb_iter_range_impl(f, start, val, forward) ==
  LET begin == fb_find_impl(f, start, val, forward)
      end == fb_find_impl(f, begin, ~val, forward)
  IN  IF begin = IF forward THEN FbBits ELSE -1 THEN <<>>
      ELSE IF forward THEN <<begin, end - begin>>
      ELSE <<end + 1, begin - end>>

RECURSIVE LongestFrom(_, _, _, _)
LongestFrom(f, begin, val, longest) ==
  IF begin >= FbBits THEN longest
  ELSE LET r == fb_iter_range_impl(f, begin, val, TRUE)
       IN  IF r = <<>> THEN longest
           ELSE LongestFrom(f, r[1] + r[2], val,
                            IF r[2] > longest THEN r[2] ELSE longest)

fb_range_longest_impl(f, val) == LongestFrom(f, 0, val, 0)

fb_bit_and(f, h) == [g \in FbGroups |-> f[g] \cap h[g]]
fb_bit_or(f, h) == [g \in FbGroups |-> f[g] \cup h[g]]
fb_bit_not(f) == [g \in FbGroups |-> FbAll \ f[g]]

FbInit == fb = fb_init /\ fb2 = fb_init

FbNext ==
  /\ \/ \E bit \in 0 .. FbBits - 1 :
          /\ fb' \in {fb_set(fb, bit), fb_unset(fb, bit)}
          /\ UNCHANGED fb2
     \/ \E start \in 0 .. FbBits - 1 : \E cnt \in 1 .. FbBits - start :
          /\ fb' \in {fb_set_range(fb, start, cnt),
                      fb_unset_range(fb, start, cnt)}
          /\ UNCHANGED fb2
     \/ fb' = fb2 /\ fb2' = fb
     \/ fb' \in {fb_bit_and(fb, fb2), fb_bit_or(fb, fb2)} /\ UNCHANGED fb2
     \/ fb' = fb_bit_and(fb_bit_not(fb), fb2) /\ UNCHANGED fb2
  /\ UNCHANGED bm

-----------------------------------------------------------------------------
(* Properties. *)

FirstFrom(S, from, none) ==
  LET T == {i \in S : i >= from}
  IN  IF T = {} THEN none ELSE CHOOSE i \in T : \A j \in T : i <= j
LastUpTo(S, to) ==
  LET T == {i \in S : i <= to}
  IN  IF T = {} THEN -1 ELSE CHOOSE i \in T : \A j \in T : i >= j

(* Whatever was set and unset before, each search of a bitmap finds the    *)
(* first unset bit there is: no summary of bitmap.h's tree is stale.       *)
BitmapAnswers ==
  LET n == bm.info.nbits
      unset == {i \in 0 .. n - 1 : ~bitmap_get(bm, i)}
  IN  /\ bitmap_full(bm) = (unset = {})
      /\ \A min_bit \in 0 .. n - 1 :
           bitmap_ffu(bm, min_bit) = FirstFrom(unset, min_bit, n)
      /\ unset # {} =>
           LET first == FirstFrom(unset, 0, n)
           IN  /\ FirstUnset(bm) = first
               /\ \A goff \in 0 .. GroupOf(first) :
                    bitmap_ffu_group(bm, goff) = GroupOf(first)

RangeOf(S, from, forward) ==
  LET T == {i \in 0 .. FbBits - 1 : i \notin S}
      begin == IF forward THEN FirstFrom(S, from, FbBits) ELSE LastUpTo(S, from)
  IN  IF begin \in {FbBits, -1} THEN <<>>
      ELSE IF forward THEN <<begin, FirstFrom(T, begin, FbBits) - begin>>
      ELSE <<LastUpTo(T, begin) + 1, begin - LastUpTo(T, begin)>>

(* Every search, count and range of a flat bitmap answers as the set of    *)
(* its bits would, at the group boundaries and in the last, partial group, *)
(* and a range operation changes the bits of its range and no other.       *)
FbAnswers ==
  LET All == 0 .. FbBits - 1
      Of(f) == {i \in All : fb_get(f, i)}
      S == Of(fb)
      U == All \ S
  IN  /\ fb_empty(fb) = (S = {})
      /\ fb_full(fb) = (S = All)
      /\ \A i \in All :
           /\ fb_find_impl(fb, i, TRUE, TRUE) = FirstFrom(S, i, FbBits)
           /\ fb_find_impl(fb, i, FALSE, TRUE) = FirstFrom(U, i, FbBits)
           /\ fb_find_impl(fb, i, TRUE, FALSE) = LastUpTo(S, i)
           /\ fb_find_impl(fb, i, FALSE, FALSE) = LastUpTo(U, i)
           /\ \A forward \in BOOLEAN :
                /\ fb_iter_range_impl(fb, i, TRUE, forward)
                     = RangeOf(S, i, forward)
                /\ fb_iter_range_impl(fb, i, FALSE, forward)
                     = RangeOf(U, i, forward)
           /\ \A cnt \in 1 .. FbBits - i :
                LET range == i .. i + cnt - 1
                IN  /\ fb_scount(fb, i, cnt) = Cardinality(S \cap range)
                    /\ fb_ucount(fb, i, cnt) = Cardinality(U \cap range)
                    /\ Of(fb_set_range(fb, i, cnt)) = S \cup range
                    /\ Of(fb_unset_range(fb, i, cnt)) = S \ range
      /\ \A val \in BOOLEAN :
           \A len \in 1 .. FbBits :
             (fb_range_longest_impl(fb, val) >= len) <=>
               \E i \in 0 .. FbBits - len :
                 i .. i + len - 1 \subseteq IF val THEN S ELSE U
=============================================================================
