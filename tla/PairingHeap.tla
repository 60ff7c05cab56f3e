---------------------------- MODULE PairingHeap ----------------------------
(***************************************************************************)
(* The pairing heap of include/jemalloc/internal/ph.h, which orders the    *)
(* extents of a size class, the available edata and the slabs of a psset.  *)
(*                                                                         *)
(* Nodes are the numbers 1..PhNodes and cmp compares them as numbers; 0 is *)
(* NULL.  heap is what the pointers say: the root, the three links of      *)
(* every node, and auxcount.  phop is the last call with its result.       *)
(* phn_link_init() sets the links of a node before any is read; the model  *)
(* clears them when the node leaves.  The root's prev is never read: what  *)
(* an earlier merge left in it stays.                                      *)
(***************************************************************************)
EXTENDS Integers, Sequences, FiniteSets

CONSTANTS PhNodes,
          PhMaxAux,         \* bound on auxcount
          max_visit_num, max_queue_size

ASSUME PhAssumption == /\ PhNodes \in Nat \ {0}
                       /\ max_visit_num \in Nat \ {0}
                       /\ max_queue_size \in Nat
                       /\ max_queue_size >= (max_visit_num + 1) \div 2

VARIABLES heap, phop
phvars == <<heap, phop>>

PhNull == 0
PhNode == 1 .. PhNodes
Links == [PhNode -> 0 .. PhNodes]

(* struct ph_s and the struct phn_link_s of every node. *)
Heaps == [root : 0 .. PhNodes, auxcount : 0 .. PhMaxAux,
          prev : Links, next : Links, lchild : Links]

NoLinks == [n \in PhNode |-> PhNull]
ph_new == [root |-> PhNull, auxcount |-> 0,
           prev |-> NoLinks, next |-> NoLinks, lchild |-> NoLinks]

phn_link_init(h, n) ==
  [h EXCEPT !.prev[n] = PhNull, !.next[n] = PhNull, !.lchild[n] = PhNull]
phn_prev_set(h, n, p) == IF n = PhNull THEN h ELSE [h EXCEPT !.prev[n] = p]
phn_next_set(h, n, x) == [h EXCEPT !.next[n] = x]
phn_lchild_set(h, n, c) == [h EXCEPT !.lchild[n] = c]

(* A node that is about to be merged belongs to no list. *)
Detached(h, n) == [h EXCEPT !.prev[n] = PhNull, !.next[n] = PhNull]

(* The lowest set bit, from 0. *)
RECURSIVE ffs_zu(_)
ffs_zu(x) == IF x % 2 = 1 THEN 0 ELSE 1 + ffs_zu(x \div 2)

-----------------------------------------------------------------------------
(* Merging.  A result is the heap and the root of what was merged. *)

(* Operators named X_<bug> are X with a bug that the properties must detect. *)
phn_merge_ordered_no_prev(h, n0, n1) ==
  phn_lchild_set(phn_next_set(phn_prev_set(h, n1, n0), n1, h.lchild[n0]),
                 n0, n1)

phn_merge_ordered(h, n0, n1) ==
  LET child == h.lchild[n0]
  IN  phn_lchild_set(phn_prev_set(phn_next_set(phn_prev_set(h, n1, n0),
                                               n1, child), child, n1), n0, n1)

phn_merge(h, n0, n1) ==
  IF n0 = PhNull THEN [h |-> h, top |-> n1]
  ELSE IF n1 = PhNull THEN [h |-> h, top |-> n0]
  ELSE IF n0 < n1 THEN [h |-> phn_merge_ordered(h, n0, n1), top |-> n0]
  ELSE [h |-> phn_merge_ordered(h, n1, n0), top |-> n1]

(* The single pass over the siblings: merge them in pairs and append each  *)
(* result to the FIFO, whose last element is tail (PhNull: still empty).   *)
RECURSIVE MergePairs(_, _, _, _)
MergePairs(h, n0, head, tail) ==
  IF n0 = PhNull THEN [h |-> h, head |-> head, tail |-> tail]
  ELSE
  LET n1 == h.next[n0]
      rest == IF n1 = PhNull THEN PhNull ELSE h.next[n1]
      m == IF n1 = PhNull THEN [h |-> h, top |-> n0]
           ELSE phn_merge(Detached(Detached(phn_prev_set(h, rest, PhNull),
                                            n0), n1), n0, n1)
  IN  IF tail = PhNull THEN MergePairs(m.h, rest, m.top, m.top)
      ELSE MergePairs(phn_next_set(m.h, tail, m.top), rest, head, m.top)

(* Merge the first two of the FIFO and append the result, until one is     *)
(* left.                                                                   *)
RECURSIVE MergeFifo(_, _, _)
MergeFifo(h, n0, tail) ==
  LET n1 == h.next[n0] IN
  IF n1 = PhNull THEN [h |-> h, top |-> n0]
  ELSE
  LET head == h.next[n1]
      m == phn_merge(phn_next_set(phn_next_set(h, n0, PhNull), n1, PhNull),
                     n0, n1)
  IN  IF head = PhNull THEN m
      ELSE MergeFifo(phn_next_set(m.h, tail, m.top), head, m.top)

phn_merge_siblings(h, n) ==
  IF h.next[n] = PhNull THEN [h |-> h, top |-> n]
  ELSE LET p == MergePairs(h, n, PhNull, PhNull)
       IN  MergeFifo(p.h, p.head, p.tail)

ph_merge_aux(h) ==
  LET n == h.next[h.root]
      reset == [h EXCEPT !.auxcount = 0]
      m == phn_merge_siblings(
             phn_prev_set(Detached(reset, h.root), n, PhNull), n)
  IN  IF n = PhNull THEN reset ELSE phn_merge_ordered(m.h, h.root, m.top)

ph_merge_children(h, n) ==
  IF h.lchild[n] = PhNull THEN [h |-> h, top |-> PhNull]
                          ELSE phn_merge_siblings(h, h.lchild[n])

(* Merge the first two of the aux list and put the result back in front;   *)
(* done says that there is nothing left to merge.                          *)
ph_try_aux_merge_pair(h) ==
  LET n0 == h.next[h.root]
      n1 == IF n0 = PhNull THEN PhNull ELSE h.next[n0]
      next_phn1 == h.next[n1]
      m == phn_merge(Detached(Detached(h, n0), n1), n0, n1)
      back == phn_prev_set(phn_next_set(m.h, m.top, next_phn1),
                           next_phn1, m.top)
  IN  IF n1 = PhNull THEN [h |-> h, done |-> TRUE]
      ELSE [h |-> phn_prev_set(phn_next_set(back, h.root, m.top),
                               m.top, h.root),
            done |-> next_phn1 = PhNull]

RECURSIVE MergeAuxPairs(_, _)
MergeAuxPairs(h, nmerges) ==
  IF nmerges = 0 THEN h
  ELSE LET s == ph_try_aux_merge_pair(h)
       IN  IF s.done THEN s.h ELSE MergeAuxPairs(s.h, nmerges - 1)

-----------------------------------------------------------------------------
(* The calls. *)

ph_first(h) == IF h.root = PhNull THEN h ELSE ph_merge_aux(h)

ph_any(h) == IF h.root # PhNull /\ h.next[h.root] # PhNull
             THEN h.next[h.root] ELSE h.root

ph_insert(h0, n) ==
  LET h == phn_link_init(h0, n)
      root == h.root
      aux == h.next[root]
      linked == phn_next_set(
                  phn_prev_set(phn_prev_set(phn_next_set(h, n, aux), aux, n),
                               n, root), root, n)
  IN  IF root = PhNull THEN [h EXCEPT !.root = n]
      ELSE IF n < root
      THEN [phn_prev_set(phn_lchild_set(h, n, root), root, n)
              EXCEPT !.root = n, !.auxcount = 0]
      ELSE MergeAuxPairs([linked EXCEPT !.auxcount = @ + 1],
                         ffs_zu(h.auxcount + 1))

(* Operators named X_<bug> are X with a bug that the properties must       *)
(* detect.  Here the siblings after a removed node that has children are   *)
(* not linked again.                                                       *)
ph_remove_unlinked(h, n) ==
  LET m == ph_merge_children(h, n)
      prev == h.prev[n]
      next == IF m.top = PhNull THEN h.next[n] ELSE m.top
      back == phn_prev_set(m.h, next, prev)
  IN  IF h.root = n
      THEN LET a == ph_merge_aux(h)
               c == ph_merge_children(a, n)
           IN  phn_link_init([c.h EXCEPT !.root = c.top], n)
      ELSE phn_link_init(IF m.h.lchild[prev] = n
                         THEN phn_lchild_set(back, prev, next)
                         ELSE phn_next_set(back, prev, next), n)

(* The merged children of a removed node go where the node was. *)
ph_remove(h, n) ==
  LET m == ph_merge_children(h, n)
      prev == h.prev[n]
      next == h.next[n]
      placed == IF m.top = PhNull THEN m.h
                ELSE phn_prev_set(phn_next_set(m.h, m.top, next), next, m.top)
      follow == IF m.top = PhNull THEN next ELSE m.top
      back == phn_prev_set(placed, follow, prev)
  IN  IF h.root = n
      THEN LET a == ph_merge_aux(h)
               c == ph_merge_children(a, n)
           IN  phn_link_init([c.h EXCEPT !.root = c.top], n)
      ELSE phn_link_init(IF back.lchild[prev] = n
                         THEN phn_lchild_set(back, prev, follow)
                         ELSE phn_next_set(back, prev, follow), n)

ph_remove_first(h) ==
  LET a == ph_merge_aux(h)
      c == ph_merge_children(a, h.root)
  IN  phn_link_init([c.h EXCEPT !.root = c.top], h.root)

(* The breadth-first queue of an enumeration.  A push into a full queue    *)
(* overwrites the oldest entry, as it does where assertions are off.       *)
ph_enumerate_prepare(h) ==
  [queue |-> [i \in 0 .. max_queue_size - 1 |->
                IF i = 0 THEN h.root ELSE PhNull],
   front |-> 0, rear |-> 1 % max_queue_size, queue_size |-> 1,
   most |-> 1]

ph_enumerate_queue_push(v, n) ==
  IF n = PhNull THEN v
  ELSE [v EXCEPT !.queue[v.rear] = n, !.rear = (@ + 1) % max_queue_size,
                 !.queue_size = @ + 1,
                 !.most = IF v.queue_size + 1 > @ THEN v.queue_size + 1 ELSE @]

ph_enumerate_queue_pop(v) ==
  [v EXCEPT !.front = (@ + 1) % max_queue_size, !.queue_size = @ - 1]

(* The nodes ph_enumerate_next() returns, and the longest queue. *)
RECURSIVE Enumeration(_, _, _)
Enumeration(h, v, seen) ==
  IF v.queue_size = 0 \/ Len(seen) = max_visit_num
  THEN [seen |-> seen, most |-> v.most]
  ELSE LET n == v.queue[v.front]
           pushed == ph_enumerate_queue_push(
                       ph_enumerate_queue_push(ph_enumerate_queue_pop(v),
                                               h.lchild[n]), h.next[n])
       IN  Enumeration(h, pushed, Append(seen, n))

ph_enumerate(h) == Enumeration(h, ph_enumerate_prepare(h), <<>>)

-----------------------------------------------------------------------------
(* A node with its later siblings, and all that is below them. *)
RECURSIVE Hanging(_, _)
Hanging(h, n) == IF n = PhNull THEN {}
                 ELSE {n} \cup Hanging(h, h.next[n]) \cup Hanging(h, h.lchild[n])

PhMembers == Hanging(heap, heap.root)

PhCalled(name, arg, ret) == phop' = [name |-> name, arg |-> arg, ret |-> ret]

PhInit == heap = ph_new /\ phop = [name |-> "new", arg |-> 0, ret |-> <<0>>]

PhInsert(n) ==
  /\ n \notin PhMembers
  /\ heap.auxcount < PhMaxAux
  /\ heap' = ph_insert(heap, n)
  /\ PhCalled("insert", n, <<0>>)

PhRemove(n) ==
  /\ n \in PhMembers
  /\ heap' = ph_remove(heap, n)
  /\ PhCalled("remove", n, <<0>>)

PhFirst ==
  /\ heap' = ph_first(heap)
  /\ PhCalled("first", 0, <<heap'.root>>)

PhRemoveFirst ==
  /\ heap' = IF heap.root = PhNull THEN heap ELSE ph_remove_first(heap)
  /\ PhCalled("remove_first", 0, <<ph_first(heap).root>>)

PhRemoveAny ==
  /\ heap' = IF heap.root = PhNull THEN heap
             ELSE ph_remove(heap, ph_any(heap))
  /\ PhCalled("remove_any", 0, <<ph_any(heap)>>)

PhEnumerate ==
  /\ heap.root # PhNull
  /\ UNCHANGED heap
  /\ PhCalled("enumerate", 0, ph_enumerate(heap).seen)

PhNext == \/ \E n \in PhNode : PhInsert(n) \/ PhRemove(n)
          \/ PhFirst \/ PhRemoveFirst \/ PhRemoveAny \/ PhEnumerate

-----------------------------------------------------------------------------
(* Properties. *)

(* ph.h's lists stay doubly linked through every merge and removal, which  *)
(* ph_remove relies on to find its neighbour through prev, and no node is  *)
(* smaller than the one it hangs under.                                    *)
PhShape ==
  /\ heap.auxcount \in 0 .. PhMaxAux
  /\ \A n \in PhMembers :
       /\ heap.lchild[n] # PhNull => /\ heap.prev[heap.lchild[n]] = n
                                     /\ heap.next[n] # heap.lchild[n]
       /\ heap.next[n] # PhNull => heap.prev[heap.next[n]] = n
       /\ \A m \in Hanging(heap, heap.lchild[n]) : n < m
       /\ n # heap.root => heap.root < n

(* The heap is a priority queue: each call changes the set of members and  *)
(* returns as OrderedSet says, whatever the shape of the heap, and an      *)
(* enumeration never repeats a node or leaves one out before its limit.    *)
Queue == INSTANCE OrderedSet WITH Elements <- PhNode, Visits <- max_visit_num,
                                  set <- PhMembers, op <- phop
PhIsQueue == Queue!Spec

(* "the queue will not overflow before reaching max_visit_num" (ph.h). *)
PhQueueFits ==
  heap.root # PhNull => ph_enumerate(heap).most <= max_queue_size
=============================================================================
