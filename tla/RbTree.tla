------------------------------- MODULE RbTree -------------------------------
(***************************************************************************)
(* The left-leaning 2-3 red-black tree that rb_gen() and                   *)
(* rb_summarized_gen() generate (include/jemalloc/internal/rb.h).          *)
(*                                                                         *)
(* Nodes are the numbers 1..RbNodes and a_cmp compares them as numbers, so *)
(* a node is its own key; Nil (0) is NULL.  tree is what the pointers say: *)
(* the root and, for every node, its children, its color and its summary.  *)
(* A node's own contents are whether it is special; the summary that       *)
(* a_summarize keeps is whether the subtree of a node holds a special one. *)
(* a_summarize may report more changes than there are: with RbPrecise it   *)
(* reports a change when the summary changed, as the example in rb.h does, *)
(* and without when the node's children changed too, as test/unit/rb.c.    *)
(* The links of a node outside the tree are never read before              *)
(* rbt_node_new() sets them; the model clears them when the node leaves.   *)
(***************************************************************************)
EXTENDS Integers, Sequences, FiniteSets

CONSTANTS RbNodes, RbPrecise

ASSUME RbNodesAssumption == RbNodes \in Nat \ {0}

VARIABLE tree

Nil == 0
RbNode == 1 .. RbNodes

(* struct rb_node and struct rb_tree. *)
Trees == [root : 0 .. RbNodes, left : [RbNode -> 0 .. RbNodes],
          right : [RbNode -> 0 .. RbNodes], red : [RbNode -> BOOLEAN],
          summary : [RbNode -> [lchild : 0 .. RbNodes, rchild : 0 .. RbNodes,
                                special : BOOLEAN]],
          special : SUBSET RbNode]

NoSummary == [lchild |-> Nil, rchild |-> Nil, special |-> FALSE]

rb_new == [root |-> Nil, left |-> [n \in RbNode |-> Nil],
           right |-> [n \in RbNode |-> Nil], red |-> [n \in RbNode |-> FALSE],
           summary |-> [n \in RbNode |-> NoSummary], special |-> {}]

(* A color is only read of a node that is not NULL. *)
IsRed(t, n) == n # Nil /\ t.red[n]
Summary(t, n) == n # Nil /\ t.summary[n].special

rbtn_left_set(t, n, c) == [t EXCEPT !.left[n] = c]
rbtn_right_set(t, n, c) == [t EXCEPT !.right[n] = c]
rbtn_color_set(t, n, red) == [t EXCEPT !.red[n] = red]

rbt_node_new(t, n) ==
  [t EXCEPT !.left[n] = Nil, !.right[n] = Nil, !.red[n] = TRUE]

(* The rotations; the new root of the subtree is the old child. *)
rbtn_rotate_left(t, n) ==
  LET r == t.right[n]
  IN  rbtn_left_set(rbtn_right_set(t, n, t.left[r]), r, n)

rbtn_rotate_right(t, n) ==
  LET l == t.left[n]
  IN  rbtn_right_set(rbtn_left_set(t, n, t.right[l]), l, n)

RECURSIVE rbtn_first(_, _)
rbtn_first(t, n) ==
  IF n = Nil \/ t.left[n] = Nil THEN n ELSE rbtn_first(t, t.left[n])

RECURSIVE rbtn_last(_, _)
rbtn_last(t, n) ==
  IF n = Nil \/ t.right[n] = Nil THEN n ELSE rbtn_last(t, t.right[n])

-----------------------------------------------------------------------------
(* Summaries.  A path is a sequence of [node, cmp]: the nodes from the     *)
(* root, and on which side of each the next one is.                        *)

SummaryOf(t, n) ==
  [lchild |-> IF RbPrecise THEN Nil ELSE t.left[n],
   rchild |-> IF RbPrecise THEN Nil ELSE t.right[n],
   special |-> n \in t.special \/ Summary(t, t.left[n])
                                \/ Summary(t, t.right[n])]

a_summarize(t, n) == [t EXCEPT !.summary[n] = SummaryOf(t, n)]

(* From path[last] up to path[first], until a summary does not change. *)
RECURSIVE summarize_range(_, _, _, _)
summarize_range(t, path, first, last) ==
  IF last < first THEN t
  ELSE LET n == path[last].node
           s == a_summarize(t, n)
       IN  IF s = t THEN t ELSE summarize_range(s, path, first, last - 1)

(* swap = 0 means that no node was swapped with its successor. *)
summarize_swapped_range(t, path, last, swap) ==
  IF swap = 0 \/ last <= swap
  THEN summarize_range(t, path, 1, last)
  ELSE LET below == summarize_range(t, path, swap + 1, last)
           at == a_summarize(below, path[swap].node)
       IN  summarize_range(at, path, 1, swap - 1)

-----------------------------------------------------------------------------
(* Searches. *)

RECURSIVE SearchFrom(_, _, _)
SearchFrom(t, n, key) ==
  IF n = Nil \/ n = key THEN n
  ELSE SearchFrom(t, IF key < n THEN t.left[n] ELSE t.right[n], key)

rb_search(t, key) == SearchFrom(t, t.root, key)

(* The bound found so far is ret. *)
RECURSIVE NsearchFrom(_, _, _, _)
NsearchFrom(t, n, key, ret) ==
  IF n = Nil THEN ret
  ELSE IF key < n THEN NsearchFrom(t, t.left[n], key, n)
  ELSE IF key > n THEN NsearchFrom(t, t.right[n], key, ret)
  ELSE n

rb_nsearch(t, key) == NsearchFrom(t, t.root, key, Nil)

RECURSIVE PsearchFrom(_, _, _, _)
PsearchFrom(t, n, key, ret) ==
  IF n = Nil THEN ret
  ELSE IF key < n THEN PsearchFrom(t, t.left[n], key, ret)
  ELSE IF key > n THEN PsearchFrom(t, t.right[n], key, n)
  ELSE n

rb_psearch(t, key) == PsearchFrom(t, t.root, key, Nil)

(* Down from the root to n, keeping the last ancestor on the other side. *)
RECURSIVE NextAbove(_, _, _, _)
NextAbove(t, n, above, ret) ==
  IF n < above THEN NextAbove(t, n, t.left[above], above)
  ELSE IF n > above THEN NextAbove(t, n, t.right[above], ret)
  ELSE ret

rb_next(t, n) == IF t.right[n] # Nil THEN rbtn_first(t, t.right[n])
              ELSE NextAbove(t, n, t.root, Nil)

RECURSIVE PrevAbove(_, _, _, _)
PrevAbove(t, n, above, ret) ==
  IF n < above THEN PrevAbove(t, n, t.left[above], ret)
  ELSE IF n > above THEN PrevAbove(t, n, t.right[above], above)
  ELSE ret

rb_prev(t, n) == IF t.left[n] # Nil THEN rbtn_last(t, t.left[n])
              ELSE PrevAbove(t, n, t.root, Nil)

-----------------------------------------------------------------------------
(* Insertion. *)

(* The path from n down to key, or to where key would hang. *)
RECURSIVE Wind(_, _, _)
Wind(t, n, key) ==
  IF n = Nil THEN <<>>
  ELSE IF key = n THEN <<[node |-> n, cmp |-> 0]>>
  ELSE IF key < n
       THEN <<[node |-> n, cmp |-> -1]>> \o Wind(t, t.left[n], key)
       ELSE <<[node |-> n, cmp |-> 1]>> \o Wind(t, t.right[n], key)

(* One step of the unwinding: child becomes the child of path[i].  top is  *)
(* the root of the subtree afterwards; done means nothing above changes.   *)
InsertLeft(t, path, i, child) ==
  LET n == path[i].node
      t1 == rbtn_left_set(t, n, child)
      leftleft == t1.left[child]
  IN  IF ~IsRed(t1, child)
      THEN [t |-> summarize_range(t1, path, 1, i), top |-> n, done |-> TRUE]
      ELSE IF IsRed(t1, leftleft)
      THEN \* Fix up 4-node.
           LET t2 == rbtn_rotate_right(rbtn_color_set(t1, leftleft, FALSE), n)
           IN  [t |-> a_summarize(a_summarize(t2, n), child), top |-> child,
                done |-> FALSE]
      ELSE [t |-> a_summarize(t1, n), top |-> n, done |-> FALSE]

InsertRight(t, path, i, child) ==
  LET n == path[i].node
      t1 == rbtn_right_set(t, n, child)
      left == t1.left[n]
  IN  IF ~IsRed(t1, child)
      THEN [t |-> summarize_range(t1, path, 1, i), top |-> n, done |-> TRUE]
      ELSE IF IsRed(t1, left)
      THEN \* Split 4-node.
           LET t2 == [t1 EXCEPT !.red[left] = FALSE, !.red[child] = FALSE,
                                !.red[n] = TRUE]
           IN  [t |-> a_summarize(t2, n), top |-> n, done |-> FALSE]
      ELSE \* Lean left.
           LET t2 == rbtn_rotate_left(t1, n)
               t3 == [t2 EXCEPT !.red[child] = t1.red[n], !.red[n] = TRUE]
           IN  [t |-> a_summarize(a_summarize(t3, n), child), top |-> child,
                done |-> FALSE]

RECURSIVE InsertUnwind(_, _, _, _)
InsertUnwind(t, path, i, child) ==
  IF i = 0 THEN rbtn_color_set([t EXCEPT !.root = child], child, FALSE)
  ELSE LET s == IF path[i].cmp < 0 THEN InsertLeft(t, path, i, child)
                                   ELSE InsertRight(t, path, i, child)
       IN  IF s.done THEN s.t ELSE InsertUnwind(s.t, path, i - 1, s.top)

rb_insert(t, n) ==
  LET path == Wind(t, t.root, n)
  IN  InsertUnwind(a_summarize(rbt_node_new(t, n), n), path, Len(path), n)

-----------------------------------------------------------------------------
(* Removal. *)

RECURSIVE LeftSpine(_, _)
LeftSpine(t, n) ==
  IF n = Nil THEN <<>>
  ELSE <<[node |-> n, cmp |-> -1]>> \o LeftSpine(t, t.left[n])

(* Make top the child that path[i] was. *)
Attach(t, path, i, top) ==
  IF i = 1 THEN [t EXCEPT !.root = top]
  ELSE IF path[i - 1].cmp < 0 THEN rbtn_left_set(t, path[i - 1].node, top)
  ELSE rbtn_right_set(t, path[i - 1].node, top)

(* Balance restored below path[i], whose subtree now has the root top. *)
Restored(t, path, i, top, swap) ==
  summarize_swapped_range(Attach(t, path, i, top), path, i - 1, swap)

(* The node of a double rotation: right's left child becomes the root. *)
RotateRightLeft(t, n) ==
  LET right == t.right[n]
      rightleft == t.left[right]
      t1 == rbtn_right_set(rbtn_rotate_right(t, right), n, rightleft)
      t2 == rbtn_rotate_left(t1, n)
  IN  a_summarize(a_summarize(a_summarize(t2, n), right), rightleft)

RotateLeftSummarized(t, n) ==
  LET right == t.right[n]
  IN  a_summarize(a_summarize(rbtn_rotate_left(t, n), n), right)

RotateRightSummarized(t, n) ==
  LET left == t.left[n]
  IN  a_summarize(a_summarize(rbtn_rotate_right(t, n), n), left)

(* path[i].left has become shorter.  The result is the tree, and the root  *)
(* of a subtree that is still too short, or Nil when balance is restored.  *)
RemoveLeft(t, path, i, child, swap) ==
  LET n == path[i].node
      t1 == rbtn_left_set(t, n, child)
      right == t1.right[n]
      rightleft == t1.left[right]
  IN  IF IsRed(t1, n) /\ IsRed(t1, rightleft)
      THEN [t |-> Restored(RotateRightLeft(rbtn_color_set(t1, n, FALSE), n),
                           path, i, rightleft, swap), done |-> TRUE,
            top |-> Nil]
      ELSE IF IsRed(t1, n)
      THEN [t |-> Restored(RotateLeftSummarized(t1, n), path, i, right, swap),
            done |-> TRUE, top |-> Nil]
      ELSE IF IsRed(t1, rightleft)
      THEN [t |-> Restored(
                    RotateRightLeft(rbtn_color_set(t1, rightleft, FALSE), n),
                    path, i, rightleft, swap), done |-> TRUE, top |-> Nil]
      ELSE [t |-> RotateLeftSummarized(rbtn_color_set(t1, n, TRUE), n),
            done |-> FALSE, top |-> right]

(* path[i].right has become shorter; path[i].left is red. *)
RemoveRightRedLeft(t, path, i, swap) ==
  LET n == path[i].node
      left == t.left[n]
      leftright == t.right[left]
      leftrightleft == t.left[leftright]
  IN  IF IsRed(t, leftrightleft)
      THEN LET t1 == rbtn_rotate_right(
                       rbtn_color_set(t, leftrightleft, FALSE), n)
               t2 == rbtn_right_set(rbtn_rotate_right(t1, n), left, leftright)
               t3 == rbtn_rotate_left(t2, left)
               t4 == a_summarize(a_summarize(a_summarize(t3, n), left),
                                 leftright)
           IN  Restored(t4, path, i, leftright, swap)
      ELSE LET t1 == RotateRightSummarized(
                       [t EXCEPT !.red[leftright] = TRUE,
                                 !.red[left] = FALSE], n)
           IN  Restored(t1, path, i, left, swap)

RemoveRight(t, path, i, child, swap) ==
  LET n == path[i].node
      t1 == rbtn_right_set(t, n, child)
      left == t1.left[n]
      leftleft == t1.left[left]
  IN  IF IsRed(t1, left)
      THEN [t |-> RemoveRightRedLeft(t1, path, i, swap), done |-> TRUE,
            top |-> Nil]
      ELSE IF IsRed(t1, n) /\ IsRed(t1, leftleft)
      THEN [t |-> Restored(RotateRightSummarized(
                     [t1 EXCEPT !.red[n] = FALSE, !.red[left] = TRUE,
                                !.red[leftleft] = FALSE], n),
                     path, i, left, swap), done |-> TRUE, top |-> Nil]
      ELSE IF IsRed(t1, n)
      THEN [t |-> summarize_swapped_range(
                     [t1 EXCEPT !.red[left] = TRUE, !.red[n] = FALSE],
                     path, i, swap), done |-> TRUE, top |-> Nil]
      ELSE IF IsRed(t1, leftleft)
      THEN [t |-> Restored(RotateRightSummarized(
                     rbtn_color_set(t1, leftleft, FALSE), n),
                     path, i, left, swap), done |-> TRUE, top |-> Nil]
      ELSE [t |-> a_summarize(rbtn_color_set(t1, left, TRUE), n),
            done |-> FALSE, top |-> n]

RECURSIVE RemoveUnwind(_, _, _, _, _)
RemoveUnwind(t, path, i, child, swap) ==
  IF i = 0 THEN [t EXCEPT !.root = child]
  ELSE LET s == IF path[i].cmp < 0
                THEN RemoveLeft(t, path, i, child, swap)
                ELSE RemoveRight(t, path, i, child, swap)
       IN  IF s.done THEN s.t ELSE RemoveUnwind(s.t, path, i - 1, s.top, swap)

(* The successor takes n's place, links and color; n takes its place at    *)
(* the end of the path, with its color.                                    *)
SwapWithSuccessor(t, path, at) ==
  LET n == path[at].node
      succ == path[Len(path)].node
      t1 == [t EXCEPT !.red[succ] = t.red[n], !.left[succ] = t.left[n],
                      !.right[succ] = t.right[n], !.red[n] = t.red[succ]]
  IN  [t |-> Attach(t1, path, at, succ),
       path |-> [path EXCEPT ![at].node = succ, ![Len(path)].node = n]]

(* n is the last node of the path and has no right child. *)
Prune(t, path, n, swap) ==
  LET end == Len(path)
      left == t.left[n]
  IN  IF swap = 0 /\ left # Nil
      THEN Restored(rbtn_color_set(t, left, FALSE), path, end, left, swap)
      ELSE IF swap = 0 /\ end = 1 THEN [t EXCEPT !.root = Nil]
      ELSE IF IsRed(t, n)
      THEN summarize_swapped_range(
             rbtn_left_set(t, path[end - 1].node, Nil), path, end - 1, swap)
      ELSE RemoveUnwind(t, path, end - 1, Nil, swap)

Unlinked(t, n) ==
  [t EXCEPT !.left[n] = Nil, !.right[n] = Nil, !.red[n] = FALSE,
            !.summary[n] = NoSummary]

rb_remove(t, n) ==
  LET down == Wind(t, t.root, n)
      at == Len(down)
      path == [down EXCEPT ![at].cmp = 1] \o LeftSpine(t, t.right[n])
      s == SwapWithSuccessor(t, path, at)
  IN  Unlinked(IF Len(path) > at THEN Prune(s.t, s.path, n, at)
                                 ELSE Prune(t, path, n, 0), n)

(* The node's contents changed: its own summary and those above it. *)
update_summaries(t, n) ==
  LET path == Wind(t, t.root, n) IN summarize_range(t, path, 1, Len(path))

-----------------------------------------------------------------------------
(* Iteration.  The result is the nodes the callback saw, in order, and the *)
(* node it returned; the callback here returns a node when it is stop.     *)

Visit(n, stop) == [seen |-> <<n>>, ret |-> IF n = stop THEN n ELSE Nil]
NoVisit == [seen |-> <<>>, ret |-> Nil]

(* Go on with b unless a's callback has returned a node. *)
Then(a, b) == IF a.ret # Nil THEN a
              ELSE [seen |-> a.seen \o b.seen, ret |-> b.ret]

RECURSIVE iter_recurse(_, _, _)
iter_recurse(t, n, stop) ==
  IF n = Nil THEN NoVisit
  ELSE Then(Then(iter_recurse(t, t.left[n], stop), Visit(n, stop)),
            iter_recurse(t, t.right[n], stop))

RECURSIVE iter_start(_, _, _, _)
iter_start(t, start, n, stop) ==
  IF start < n
  THEN Then(Then(iter_start(t, start, t.left[n], stop), Visit(n, stop)),
            iter_recurse(t, t.right[n], stop))
  ELSE IF start > n THEN iter_start(t, start, t.right[n], stop)
  ELSE Then(Visit(n, stop), iter_recurse(t, t.right[n], stop))

rb_iter(t, start, stop) ==
  IF start # Nil THEN iter_start(t, start, t.root, stop)
                 ELSE iter_recurse(t, t.root, stop)

RECURSIVE reverse_iter_recurse(_, _, _)
reverse_iter_recurse(t, n, stop) ==
  IF n = Nil THEN NoVisit
  ELSE Then(Then(reverse_iter_recurse(t, t.right[n], stop), Visit(n, stop)),
            reverse_iter_recurse(t, t.left[n], stop))

RECURSIVE reverse_iter_start(_, _, _, _)
reverse_iter_start(t, start, n, stop) ==
  IF start > n
  THEN Then(Then(reverse_iter_start(t, start, t.right[n], stop),
                 Visit(n, stop)),
            reverse_iter_recurse(t, t.left[n], stop))
  ELSE IF start < n THEN reverse_iter_start(t, start, t.left[n], stop)
  ELSE Then(Visit(n, stop), reverse_iter_recurse(t, t.left[n], stop))

rb_reverse_iter(t, start, stop) ==
  IF start # Nil THEN reverse_iter_start(t, start, t.root, stop)
                 ELSE reverse_iter_recurse(t, t.root, stop)

(* The order in which destroy hands the nodes to its callback. *)
RECURSIVE destroy_recurse(_, _)
destroy_recurse(t, n) ==
  IF n = Nil THEN <<>>
  ELSE destroy_recurse(t, t.left[n]) \o destroy_recurse(t, t.right[n])
       \o <<n>>

-----------------------------------------------------------------------------
(* The filtered interface: filter_node accepts the special nodes, and      *)
(* filter_subtree reads the summary.                                       *)

filter_node(t, n) == n \in t.special
filter_subtree(t, n) == Summary(t, n)

empty_filtered(t) == ~filter_subtree(t, t.root)

RECURSIVE first_filtered_from_node(_, _)
first_filtered_from_node(t, n) ==
  IF filter_subtree(t, t.left[n]) THEN first_filtered_from_node(t, t.left[n])
  ELSE IF filter_node(t, n) THEN n
  ELSE first_filtered_from_node(t, t.right[n])

first_filtered(t) ==
  IF empty_filtered(t) THEN Nil ELSE first_filtered_from_node(t, t.root)

RECURSIVE last_filtered_from_node(_, _)
last_filtered_from_node(t, n) ==
  IF filter_subtree(t, t.right[n]) THEN last_filtered_from_node(t, t.right[n])
  ELSE IF filter_node(t, n) THEN n
  ELSE last_filtered_from_node(t, t.left[n])

last_filtered(t) ==
  IF empty_filtered(t) THEN Nil ELSE last_filtered_from_node(t, t.root)

(* A bound is a node, or a subtree to search, or nothing. *)
NoBound == [node |-> Nil, subtree |-> Nil]
(* Operators named X_<bug> are X with a bug that the properties must detect. *)
NodeOrSubtree_subtree_first(t, n, side, bound) ==
  IF filter_subtree(t, side) THEN [node |-> Nil, subtree |-> side]
  ELSE IF filter_node(t, n) THEN [node |-> n, subtree |-> Nil]
  ELSE bound

NodeOrSubtree(t, n, side, bound) ==
  IF filter_node(t, n) THEN [node |-> n, subtree |-> Nil]
  ELSE IF filter_subtree(t, side) THEN [node |-> Nil, subtree |-> side]
  ELSE bound

SubtreeOr(t, side, bound) ==
  IF filter_subtree(t, side) THEN [node |-> Nil, subtree |-> side] ELSE bound

RECURSIVE BoundsFrom(_, _, _, _, _, _)
BoundsFrom(t, n, key, include_subtree, nextbound, prevbound) ==
  IF ~filter_subtree(t, n)
  THEN [ret |-> Nil, nextbound |-> nextbound, prevbound |-> prevbound]
  ELSE IF key < n
  THEN BoundsFrom(t, t.left[n], key, include_subtree,
                  NodeOrSubtree(t, n, t.right[n], nextbound), prevbound)
  ELSE IF key > n
  THEN BoundsFrom(t, t.right[n], key, include_subtree, nextbound,
                  NodeOrSubtree(t, n, t.left[n], prevbound))
  ELSE IF filter_node(t, n)
  THEN [ret |-> n, nextbound |-> nextbound, prevbound |-> prevbound]
  ELSE IF include_subtree
  THEN [ret |-> Nil, nextbound |-> SubtreeOr(t, t.right[n], nextbound),
        prevbound |-> SubtreeOr(t, t.left[n], prevbound)]
  ELSE [ret |-> Nil, nextbound |-> nextbound, prevbound |-> prevbound]

search_with_filter_bounds(t, key, include_subtree) ==
  BoundsFrom(t, t.root, key, include_subtree, NoBound, NoBound)

FirstOfBound(t, bound) ==
  IF bound.node # Nil THEN bound.node
  ELSE IF bound.subtree # Nil THEN first_filtered_from_node(t, bound.subtree)
  ELSE Nil

LastOfBound(t, bound) ==
  IF bound.node # Nil THEN bound.node
  ELSE IF bound.subtree # Nil THEN last_filtered_from_node(t, bound.subtree)
  ELSE Nil

next_filtered(t, n) ==
  IF filter_subtree(t, t.right[n])
  THEN first_filtered_from_node(t, t.right[n])
  ELSE FirstOfBound(t, search_with_filter_bounds(t, n, FALSE).nextbound)

prev_filtered(t, n) ==
  IF filter_subtree(t, t.left[n])
  THEN last_filtered_from_node(t, t.left[n])
  ELSE LastOfBound(t, search_with_filter_bounds(t, n, FALSE).prevbound)

search_filtered(t, key) == search_with_filter_bounds(t, key, FALSE).ret

nsearch_filtered(t, key) ==
  LET b == search_with_filter_bounds(t, key, TRUE)
  IN  IF b.ret # Nil THEN b.ret ELSE FirstOfBound(t, b.nextbound)

psearch_filtered(t, key) ==
  LET b == search_with_filter_bounds(t, key, TRUE)
  IN  IF b.ret # Nil THEN b.ret ELSE LastOfBound(t, b.prevbound)

VisitFiltered(t, n, stop) == IF filter_node(t, n) THEN Visit(n, stop) ELSE NoVisit

RECURSIVE iter_recurse_filtered(_, _, _)
iter_recurse_filtered(t, n, stop) ==
  IF ~filter_subtree(t, n) THEN NoVisit
  ELSE Then(Then(iter_recurse_filtered(t, t.left[n], stop),
                 VisitFiltered(t, n, stop)),
            iter_recurse_filtered(t, t.right[n], stop))

RECURSIVE iter_start_filtered(_, _, _, _)
iter_start_filtered(t, start, n, stop) ==
  IF ~filter_subtree(t, n) THEN NoVisit
  ELSE IF start < n
  THEN Then(Then(iter_start_filtered(t, start, t.left[n], stop),
                 VisitFiltered(t, n, stop)),
            iter_recurse_filtered(t, t.right[n], stop))
  ELSE IF start > n THEN iter_start_filtered(t, start, t.right[n], stop)
  ELSE Then(VisitFiltered(t, n, stop), iter_recurse_filtered(t, t.right[n], stop))

iter_filtered(t, start, stop) ==
  IF start # Nil THEN iter_start_filtered(t, start, t.root, stop)
                 ELSE iter_recurse_filtered(t, t.root, stop)

RECURSIVE reverse_iter_recurse_filtered(_, _, _)
reverse_iter_recurse_filtered(t, n, stop) ==
  IF ~filter_subtree(t, n) THEN NoVisit
  ELSE Then(Then(reverse_iter_recurse_filtered(t, t.right[n], stop),
                 VisitFiltered(t, n, stop)),
            reverse_iter_recurse_filtered(t, t.left[n], stop))

RECURSIVE reverse_iter_start_filtered(_, _, _, _)
reverse_iter_start_filtered(t, start, n, stop) ==
  IF ~filter_subtree(t, n) THEN NoVisit
  ELSE IF start > n
  THEN Then(Then(reverse_iter_start_filtered(t, start, t.right[n], stop),
                 VisitFiltered(t, n, stop)),
            reverse_iter_recurse_filtered(t, t.left[n], stop))
  ELSE IF start < n
  THEN reverse_iter_start_filtered(t, start, t.left[n], stop)
  ELSE Then(VisitFiltered(t, n, stop),
            reverse_iter_recurse_filtered(t, t.left[n], stop))

reverse_iter_filtered(t, start, stop) ==
  IF start # Nil THEN reverse_iter_start_filtered(t, start, t.root, stop)
                 ELSE reverse_iter_recurse_filtered(t, t.root, stop)

-----------------------------------------------------------------------------
(* The operations. *)

RECURSIVE Below(_, _)
Below(t, n) == IF n = Nil THEN {}
               ELSE {n} \cup Below(t, t.left[n]) \cup Below(t, t.right[n])

Members == Below(tree, tree.root)

RbInit == tree = rb_new

RbInsert(n) == n \notin Members /\ tree' = rb_insert(tree, n)

RbRemove(n) == n \in Members /\ tree' = rb_remove(tree, n)

(* The contents of a node change; the caller updates the summaries when    *)
(* the node is in a tree.                                                  *)
RbChange(n) ==
  LET changed == [tree EXCEPT !.special = IF n \in @ THEN @ \ {n}
                                                     ELSE @ \cup {n}]
  IN  tree' = IF n \in Members THEN update_summaries(changed, n) ELSE changed

RbDestroy ==
  /\ tree.root # Nil
  /\ tree' = [rb_new EXCEPT !.special = tree.special]

RbNext == \/ \E n \in RbNode : RbInsert(n) \/ RbRemove(n) \/ RbChange(n)
          \/ RbDestroy

-----------------------------------------------------------------------------
(* Properties. *)

RECURSIVE BlackHeight(_, _)
BlackHeight(t, n) ==
  IF n = Nil THEN 0
  ELSE BlackHeight(t, t.left[n]) + IF t.red[n] THEN 0 ELSE 1

(* Every path from a node to a leaf has as many black nodes, red nodes lean *)
(* left and never follow one another, and keys are in search order: what    *)
(* rb.h's remove relies on when it dereferences siblings without a test.    *)
RbShape ==
  /\ ~IsRed(tree, tree.root)
  /\ \A n \in Members :
       LET left == tree.left[n]
           right == tree.right[n]
       IN  /\ ~IsRed(tree, right)
           /\ IsRed(tree, n) => ~IsRed(tree, left)
           /\ BlackHeight(tree, left) = BlackHeight(tree, right)
           /\ \A m \in Below(tree, left) : m < n
           /\ \A m \in Below(tree, right) : n < m

Least(S) == IF S = {} THEN Nil ELSE CHOOSE n \in S : \A m \in S : n <= m
Greatest(S) == IF S = {} THEN Nil ELSE CHOOSE n \in S : \A m \in S : n >= m

(* The members of S in order, up to stop. *)
Ascending(S, stop) ==
  LET T == IF stop \in S THEN {n \in S : n <= stop} ELSE S
  IN  [seen |-> [i \in 1 .. Cardinality(T) |->
                  CHOOSE n \in T : Cardinality({m \in T : m <= n}) = i],
       ret |-> IF stop \in S THEN stop ELSE Nil]

Descending(S, stop) ==
  LET T == IF stop \in S THEN {n \in S : n >= stop} ELSE S
  IN  [seen |-> [i \in 1 .. Cardinality(T) |->
                  CHOOSE n \in T : Cardinality({m \in T : m >= n}) = i],
       ret |-> IF stop \in S THEN stop ELSE Nil]

(* Every search, step and iteration of the tree answers as the sorted set  *)
(* of its members would.                                                   *)
RbAnswers ==
  LET M == Members IN
  /\ rbtn_first(tree, tree.root) = Least(M)
  /\ rbtn_last(tree, tree.root) = Greatest(M)
  /\ \A k \in RbNode :
       /\ rb_search(tree, k) = IF k \in M THEN k ELSE Nil
       /\ rb_nsearch(tree, k) = Least({n \in M : n >= k})
       /\ rb_psearch(tree, k) = Greatest({n \in M : n <= k})
       /\ rb_iter(tree, Nil, k) = Ascending(M, k)
       /\ rb_reverse_iter(tree, Nil, k) = Descending(M, k)
  /\ \A n \in M :
       /\ rb_next(tree, n) = Least({m \in M : m > n})
       /\ rb_prev(tree, n) = Greatest({m \in M : m < n})
       /\ rb_iter(tree, n, Nil) = Ascending({m \in M : m >= n}, Nil)
       /\ rb_reverse_iter(tree, n, Nil) = Descending({m \in M : m <= n}, Nil)
  /\ LET order == destroy_recurse(tree, tree.root)
     IN  Len(order) = Cardinality(M) /\ {order[i] : i \in DOMAIN order} = M

(* Summaries are never stale, in spite of the early exits of               *)
(* summarize_range: the filtered interface answers as the sorted set of    *)
(* the special members would.                                              *)
RbFilteredAnswers ==
  LET M == Members
      F == M \cap tree.special
  IN
  /\ \A n \in M : tree.summary[n].special = (Below(tree, n) \cap F # {})
  /\ first_filtered(tree) = Least(F)
  /\ last_filtered(tree) = Greatest(F)
  /\ \A k \in RbNode :
       /\ search_filtered(tree, k) = IF k \in F THEN k ELSE Nil
       /\ nsearch_filtered(tree, k) = Least({n \in F : n >= k})
       /\ psearch_filtered(tree, k) = Greatest({n \in F : n <= k})
       /\ iter_filtered(tree, Nil, k) = Ascending(F, k)
       /\ reverse_iter_filtered(tree, Nil, k) = Descending(F, k)
  /\ \A n \in M :
       /\ next_filtered(tree, n) = Least({m \in F : m > n})
       /\ prev_filtered(tree, n) = Greatest({m \in F : m < n})
       /\ iter_filtered(tree, n, Nil) = Ascending({m \in F : m >= n}, Nil)
       /\ reverse_iter_filtered(tree, n, Nil)
            = Descending({m \in F : m <= n}, Nil)
=============================================================================
