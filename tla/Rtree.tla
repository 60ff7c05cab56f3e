------------------------------- MODULE Rtree -------------------------------
(***************************************************************************)
(* The radix tree of src/rtree.c and include/jemalloc/internal/rtree.h,    *)
(* with the lookup cache each thread keeps.  A key is a page number of     *)
(* RTREE_NSB significant bits.  A node or leaf is named by its level and   *)
(* the key bits that lead to it; rtnodes are those that exist, which are   *)
(* never freed.  A leaf element holds an edata and its metadata, in one    *)
(* word when RtCompact and in two otherwise.                               *)
(*                                                                         *)
(* The owner of an extent is the only one to write its keys, and reads     *)
(* them "dependent": the path is known to be there, so such an operation   *)
(* is one step.  Writes that may create nodes, and reads of arbitrary keys *)
(* ("independent"), go down the tree step by step.  truth is what the last *)
(* finished write of each key stored.  rtkeys are the keys that each       *)
(* thread uses.                                                            *)
(***************************************************************************)
EXTENDS Integers, Sequences, FiniteSets

CONSTANTS RtThreads, RtOptions, RTREE_HEIGHT, RTREE_NSB, RTREE_CTX_NCACHE,
          RTREE_CTX_NCACHE_L2, RtCompact,
          RtMetas,          \* metadata of new extents
          RtStates          \* metadata that a change of state sets

VARIABLES rtkeys, rtleaf, rtnodes, rtctx, rtcall, truth

rtvars == <<rtkeys, rtleaf, rtnodes, rtctx, rtcall, truth>>

RtKeys == UNION {rtkeys[t] : t \in RtThreads}
RTREE_LEAFKEY_INVALID == 1
NoContents == [edata |-> 0, meta |-> 0]
RtNull == <<0, 0>>
Uncached == [leafkey |-> RTREE_LEAFKEY_INVALID, leaf |-> RtNull]

-----------------------------------------------------------------------------
(* Keys. *)

(* Significant bits per level; remainder bits go to the lower levels. *)
rtree_levels ==
  LET n == RTREE_NSB IN
  CASE RTREE_HEIGHT = 1 -> <<n>>
    [] RTREE_HEIGHT = 2 -> <<n \div 2, (n \div 2) + (n % 2)>>
    [] RTREE_HEIGHT = 3 -> <<n \div 3, (n \div 3) + ((n % 3) \div 2),
                             (n \div 3) + (n % 3) - ((n % 3) \div 2)>>

RECURSIVE BitsBelow(_)
BitsBelow(level) ==
  IF level = RTREE_HEIGHT THEN 0
  ELSE rtree_levels[level + 1] + BitsBelow(level + 1)

rtree_leaf_maskbits == rtree_levels[RTREE_HEIGHT]
rtree_leafkey(key) == key - (key % 2 ^ rtree_leaf_maskbits)
rtree_subkey(key, level) ==
  (key \div 2 ^ BitsBelow(level)) % 2 ^ rtree_levels[level]
rtree_cache_direct_map(key) ==
  (key \div 2 ^ rtree_leaf_maskbits) % RTREE_CTX_NCACHE

-----------------------------------------------------------------------------
(* The one-word encoding of a leaf element, for pointers of addr_bits out  *)
(* of ptr_bits bits, whose low bits up to edata_align are free.            *)

Encoded(addr_bits, c) ==
  (c.edata % 2 ^ addr_bits) + c.szind * 2 ^ addr_bits
    + c.state * 4 + (IF c.is_head THEN 2 ELSE 0) + (IF c.slab THEN 1 ELSE 0)

(* Sign-extend the pointer from its last retained bit, drop the metadata. *)
Decoded(ptr_bits, addr_bits, edata_align, bits) ==
  LET low == bits % 2 ^ addr_bits
      negative == low >= 2 ^ (addr_bits - 1)
      extended == low + IF negative THEN 2 ^ ptr_bits - 2 ^ addr_bits ELSE 0
  IN  [edata |-> extended - (extended % edata_align),
       szind |-> bits \div 2 ^ addr_bits,
       state |-> (bits \div 4) % 8,
       is_head |-> (bits \div 2) % 2 = 1, slab |-> bits % 2 = 1]

(* 16-bit words, 10-bit addresses: both address forms of x86_64 that keep  *)
(* the bit above the address, with every metadata, decode to themselves.   *)
EncodingRoundTrips ==
  \A edata \in {32 * i : i \in 0 .. 15} \cup {65536 - 32 * i : i \in 1 .. 16},
     szind \in {0, 1, 40, 63}, state \in 0 .. 7, h, s \in BOOLEAN :
    LET c == [edata |-> edata, szind |-> szind, state |-> state,
              is_head |-> h, slab |-> s]
    IN  Decoded(16, 10, 32, Encoded(10, c)) = c

-----------------------------------------------------------------------------
(* A thread's cache: l1 is direct mapped, l2 ordered by recent use. *)

rtree_ctx_data_init ==
  [l1 |-> [s \in 0 .. RTREE_CTX_NCACHE - 1 |-> Uncached],
   l2 |-> [i \in 1 .. RTREE_CTX_NCACHE_L2 |-> Uncached]]

CachedL1(ctx, key) ==
  ctx.l1[rtree_cache_direct_map(key)].leafkey = rtree_leafkey(key)
L2Hits(ctx, key) == {i \in DOMAIN ctx.l2 :
                       ctx.l2[i].leafkey = rtree_leafkey(key)}

(* Swap a hit in L2 with the slot of L1, one place up. *)
BubbleUp(ctx, key, i) ==
  LET slot == rtree_cache_direct_map(key) IN
  [l1 |-> [ctx.l1 EXCEPT ![slot] = ctx.l2[i]],
   l2 |-> IF i > 1
          THEN [ctx.l2 EXCEPT ![i] = ctx.l2[i - 1], ![i - 1] = ctx.l1[slot]]
          ELSE [ctx.l2 EXCEPT ![1] = ctx.l1[slot]]]

(* Operators named X_<bug> are X with a bug that the properties must       *)
(* detect.  Here the slot keeps the key of the leaf it held before.        *)
CacheFill_old_key(ctx, key, leaf) ==
  LET slot == rtree_cache_direct_map(key) IN
  [l1 |-> [ctx.l1 EXCEPT ![slot].leaf = leaf,
                         ![slot].leafkey =
             IF @ = RTREE_LEAFKEY_INVALID THEN rtree_leafkey(key) ELSE @],
   l2 |-> ctx.l2]

(* A miss: the slot of L1 moves down and the last entry of L2 is lost. *)
CacheFill(ctx, key, leaf) ==
  LET slot == rtree_cache_direct_map(key) IN
  [l1 |-> [ctx.l1 EXCEPT ![slot] =
             [leafkey |-> rtree_leafkey(key), leaf |-> leaf]],
   l2 |-> [i \in DOMAIN ctx.l2 |->
             IF i = 1 THEN ctx.l1[slot] ELSE ctx.l2[i - 1]]]

(* The node of a level on the path of the key; the root always exists. *)
NodeOf(key, level) == <<level, key \div 2 ^ (BitsBelow(level - 1))>>
ChildOf(key, level) ==
  IF NodeOf(key, level + 1) \in rtnodes THEN NodeOf(key, level + 1) ELSE RtNull
LeafOf(key) == ChildOf(key, RTREE_HEIGHT - 1)

(* The lookup: the leaf, and the cache after it. *)
CacheHit(ctx, key) == CachedL1(ctx, key) \/ L2Hits(ctx, key) # {}
rtree_leaf_elm_lookup_cached(ctx, key) ==
  LET slot == rtree_cache_direct_map(key)
      hit == CHOOSE i \in L2Hits(ctx, key) :
               \A j \in L2Hits(ctx, key) : i <= j
  IN  IF CachedL1(ctx, key)
      THEN [leaf |-> ctx.l1[slot].leaf, ctx |-> ctx]
      ELSE [leaf |-> ctx.l2[hit].leaf, ctx |-> BubbleUp(ctx, key, hit)]

rtree_leaf_elm_lookup_dependent(ctx, key) ==
  IF CacheHit(ctx, key) THEN rtree_leaf_elm_lookup_cached(ctx, key)
  ELSE [leaf |-> LeafOf(key), ctx |-> CacheFill(ctx, key, LeafOf(key))]

Sub(key) == rtree_subkey(key, RTREE_HEIGHT)

-----------------------------------------------------------------------------
(* Calls. *)

RtIdle == [pc |-> "idle"]
ZeroedLeaf == [s \in 0 .. 2 ^ rtree_leaf_maskbits - 1 |-> NoContents]

RtInit ==
  /\ rtkeys \in RtOptions
  /\ rtnodes = {NodeOf(0, 1)}
  /\ rtleaf = [n \in {NodeOf(k, RTREE_HEIGHT) : k \in RtKeys} |-> ZeroedLeaf]
  /\ rtctx = [t \in RtThreads |-> rtree_ctx_data_init]
  /\ rtcall = [t \in RtThreads |-> RtIdle]
  /\ truth = [k \in RtKeys |-> NoContents]

(* Nobody is writing the key: the caller may own it. *)
Quiescent(k) ==
  \A u \in RtThreads :
    rtcall[u].pc # "idle" => rtcall[u].op = "read" \/ rtcall[u].key # k

RtStart(t, op, k, c) ==
  LET hit == CacheHit(rtctx[t], k)
      found == rtree_leaf_elm_lookup_cached(rtctx[t], k)
  IN  /\ rtcall[t] = RtIdle
      /\ rtcall' = [rtcall EXCEPT ![t] =
           [pc |-> IF hit THEN "element" ELSE "descend",
            op |-> op, key |-> k, contents |-> c, level |-> 1,
            node |-> IF hit THEN found.leaf ELSE NodeOf(k, 1),
            meta |-> 0, got |-> NoContents, seen |-> {truth[k]}]]
      /\ rtctx' = IF hit THEN [rtctx EXCEPT ![t] = found.ctx] ELSE rtctx
      /\ UNCHANGED <<rtleaf, rtnodes, truth>>

rtree_write(t) ==
  \E k \in rtkeys[t], m \in RtMetas :
    /\ Quiescent(k)
    /\ RtStart(t, "write", k, [edata |-> k, meta |-> m])

rtree_read_independent(t) ==
  \E k \in rtkeys[t] : RtStart(t, "read", k, NoContents)

(* One level down: rtree_child_{node,leaf}_{try,}read. *)
RtDescend(t) ==
  LET call == rtcall[t]
      child == ChildOf(call.key, call.level)
      last == call.level = RTREE_HEIGHT - 1
  IN  /\ call.pc = "descend"
      /\ rtcall' = [rtcall EXCEPT ![t] =
           IF child # RtNull
           THEN [call EXCEPT !.node = child, !.level = @ + 1,
                             !.pc = IF last THEN "element" ELSE "descend"]
           ELSE [call EXCEPT !.pc =
                   IF call.op = "write" THEN "init" ELSE "return"]]
      /\ rtctx' = IF child # RtNull /\ last
                  THEN [rtctx EXCEPT ![t] = CacheFill(@, call.key, child)]
                  ELSE rtctx
      /\ UNCHANGED <<rtleaf, rtnodes, truth>>

(* A fresh, zeroed node or leaf hangs below the node of the call. *)
RtNewChild(t) ==
  LET child == NodeOf(rtcall[t].key, rtcall[t].level + 1)
  IN  /\ rtnodes' = rtnodes \cup {child}
      /\ rtleaf' = IF child \in DOMAIN rtleaf
                   THEN [rtleaf EXCEPT ![child] = ZeroedLeaf] ELSE rtleaf
      /\ rtcall' = [rtcall EXCEPT ![t].pc = "descend"]

(* Here the pointer read before the lock was taken is trusted. *)
rtree_child_init_unchecked(t) ==
  /\ rtcall[t].pc = "init"
  /\ RtNewChild(t)
  /\ UNCHANGED <<rtctx, truth>>

(* Under the init lock: another thread may have been here first, or there  *)
(* may be no memory.                                                       *)
rtree_child_init(t) ==
  LET missing == ChildOf(rtcall[t].key, rtcall[t].level) = RtNull
  IN  /\ rtcall[t].pc = "init"
      /\ \/ missing /\ RtNewChild(t)
         \/ /\ rtcall' = [rtcall EXCEPT ![t].pc =
                            IF missing THEN "failed" ELSE "descend"]
            /\ UNCHANGED <<rtleaf, rtnodes>>
      /\ UNCHANGED <<rtctx, truth>>

(* What a store of key k changes, and who has seen the new contents. *)
Settle(t, k, pc) ==
  /\ truth' = [truth EXCEPT ![k] = rtcall[t].contents]
  /\ rtcall' = [u \in RtThreads |->
       IF u = t THEN [rtcall[t] EXCEPT !.pc = pc]
       ELSE IF rtcall[u].pc # "idle" /\ rtcall[u].key = k
       THEN [rtcall[u] EXCEPT !.seen = @ \cup {rtcall[t].contents}]
       ELSE rtcall[u]]

(* rtree_leaf_elm_write_commit: the metadata first, the edata last. *)
RtStore(t) ==
  LET call == rtcall[t]
      sub == Sub(call.key)
  IN  /\ call.pc \in {"element", "second"}
      /\ call.op = "write"
      /\ \/ /\ call.pc = "element" /\ RtCompact
            /\ rtleaf' = [rtleaf EXCEPT ![call.node][sub] = call.contents]
            /\ Settle(t, call.key, "return")
         \/ /\ call.pc = "element" /\ ~RtCompact
            /\ rtleaf' = [rtleaf EXCEPT ![call.node][sub].meta =
                            call.contents.meta]
            /\ rtcall' = [rtcall EXCEPT ![t].pc = "second"]
            /\ UNCHANGED truth
         \/ /\ call.pc = "second"
            /\ rtleaf' = [rtleaf EXCEPT ![call.node][sub].edata =
                            call.contents.edata]
            /\ Settle(t, call.key, "return")
      /\ UNCHANGED <<rtnodes, rtctx>>

(* rtree_leaf_elm_read: the metadata first, then the edata. *)
RtLoad(t) ==
  LET call == rtcall[t]
      elm == rtleaf[call.node][Sub(call.key)]
  IN  /\ call.pc \in {"element", "second"}
      /\ call.op = "read"
      /\ rtcall' = [rtcall EXCEPT ![t] =
           CASE call.pc = "element" /\ RtCompact ->
                  [call EXCEPT !.pc = "return", !.got = elm]
             [] call.pc = "element" /\ ~RtCompact ->
                  [call EXCEPT !.pc = "second", !.meta = elm.meta]
             [] call.pc = "second" ->
                  [call EXCEPT !.pc = "return",
                     !.got = [edata |-> elm.edata, meta |-> call.meta]]]
      /\ UNCHANGED <<rtleaf, rtnodes, rtctx, truth>>

RtReturn(t) ==
  /\ rtcall[t].pc \in {"return", "failed"}
  /\ rtcall' = [rtcall EXCEPT ![t] = RtIdle]
  /\ UNCHANGED <<rtleaf, rtnodes, rtctx, truth>>

-----------------------------------------------------------------------------
(* Dependent operations of the owner, one step each. *)

Owned(k) == truth[k].edata # 0 /\ Quiescent(k)

(* The contents of several keys change together; readers see each. *)
OwnerStores(t, new) ==
  /\ truth' = [k \in RtKeys |-> IF k \in DOMAIN new THEN new[k] ELSE truth[k]]
  /\ rtcall' = [u \in RtThreads |->
       IF rtcall[u].pc # "idle" /\ rtcall[u].key \in DOMAIN new
       THEN [rtcall[u] EXCEPT !.seen = @ \cup {new[rtcall[u].key]}]
       ELSE rtcall[u]]

(* rtree_read, rtree_metadata_read, and the fast path that stops at L1. *)
rtree_read(t) ==
  \E k \in rtkeys[t] :
    /\ rtcall[t] = RtIdle
    /\ Owned(k)
    /\ rtctx' = [rtctx EXCEPT ![t] =
                   rtree_leaf_elm_lookup_dependent(@, k).ctx]
    /\ UNCHANGED <<rtleaf, rtnodes, rtcall, truth>>

rtree_clear(t) ==
  \E k \in rtkeys[t] :
    LET found == rtree_leaf_elm_lookup_dependent(rtctx[t], k) IN
    /\ rtcall[t] = RtIdle
    /\ Owned(k)
    /\ rtctx' = [rtctx EXCEPT ![t] = found.ctx]
    /\ rtleaf' = [rtleaf EXCEPT ![found.leaf][Sub(k)] = NoContents]
    /\ OwnerStores(t, [j \in {k} |-> NoContents])
    /\ UNCHANGED rtnodes

(* The state of an extent changes at its first and last page. *)
rtree_leaf_elm_state_update(t) ==
  \E k, last \in rtkeys[t], m \in RtStates :
    LET first == rtree_leaf_elm_lookup_dependent(rtctx[t], k)
        second == rtree_leaf_elm_lookup_dependent(first.ctx, last)
        elm == [rtleaf[first.leaf][Sub(k)] EXCEPT !.meta = m]
    IN  /\ rtcall[t] = RtIdle
        /\ k <= last
        /\ Owned(k) /\ Owned(last)
        /\ truth[k].edata = truth[last].edata
        /\ rtctx' = [rtctx EXCEPT ![t] = second.ctx]
        /\ rtleaf' = [rtleaf EXCEPT ![first.leaf][Sub(k)] = elm,
                                    ![second.leaf][Sub(last)] = elm]
        /\ OwnerStores(t, [j \in {k, last} |-> elm])
        /\ UNCHANGED rtnodes

(* rtree_write_range and rtree_clear_range over base .. end: the leaf is   *)
(* looked up again where a new one starts.                                 *)
RECURSIVE RangeWalk(_, _, _, _)
RangeWalk(walk, base, end, c) ==
  LET addr == walk.addr
      again == addr = base \/ addr % 2 ^ rtree_leaf_maskbits = 0
      found == IF again THEN rtree_leaf_elm_lookup_dependent(walk.ctx, addr)
               ELSE [leaf |-> walk.at, ctx |-> walk.ctx]
  IN  IF addr > end THEN walk
      ELSE RangeWalk([addr |-> addr + 1, at |-> found.leaf, ctx |-> found.ctx,
                      leaf |-> [walk.leaf EXCEPT ![found.leaf][Sub(addr)] = c]],
                     base, end, c)

rtree_write_range_impl(t) ==
  \E base, end \in rtkeys[t] :
    LET clearing == truth[base].edata # 0
        c == IF clearing THEN NoContents
             ELSE [edata |-> base, meta |-> CHOOSE m \in RtMetas : TRUE]
        walk == RangeWalk([addr |-> base, at |-> RtNull, ctx |-> rtctx[t],
                           leaf |-> rtleaf], base, end, c)
    IN  /\ rtcall[t] = RtIdle
        /\ base < end /\ base .. end \subseteq RtKeys
        /\ \A k \in base .. end : Quiescent(k) /\ LeafOf(k) # RtNull
        /\ clearing => \A k \in base .. end : Owned(k)
        /\ rtctx' = [rtctx EXCEPT ![t] = walk.ctx]
        /\ rtleaf' = walk.leaf
        /\ OwnerStores(t, [k \in base .. end |-> c])
        /\ UNCHANGED rtnodes

RtNext ==
  /\ UNCHANGED rtkeys
  /\ \E t \in RtThreads :
       \/ rtree_write(t) \/ rtree_read_independent(t)
       \/ RtDescend(t) \/ rtree_child_init(t)
       \/ RtStore(t) \/ RtLoad(t) \/ RtReturn(t)
       \/ rtree_read(t) \/ rtree_clear(t)
       \/ rtree_leaf_elm_state_update(t) \/ rtree_write_range_impl(t)

-----------------------------------------------------------------------------

(* Every lookup, cached or not, leads to the one element of the key, which *)
(* holds what the last write stored: no write is lost to a node that       *)
(* another thread created at the same time, no cache entry goes stale, and *)
(* no leaf is cached twice by a thread.                                    *)
RtAnswers ==
  /\ EncodingRoundTrips
  /\ \A k \in RtKeys :
       /\ LeafOf(k) = RtNull => truth[k] = NoContents
       /\ LeafOf(k) # RtNull /\ Quiescent(k) =>
            rtleaf[LeafOf(k)][Sub(k)] = truth[k]
  /\ \A t \in RtThreads, k \in RtKeys :
       CacheHit(rtctx[t], k) =>
         /\ rtree_leaf_elm_lookup_cached(rtctx[t], k).leaf = LeafOf(k)
         /\ LeafOf(k) # RtNull
         /\ ~(CachedL1(rtctx[t], k) /\ L2Hits(rtctx[t], k) # {})
         /\ Cardinality(L2Hits(rtctx[t], k)) <= 1

(* A read of an arbitrary key that finds an edata finds it with metadata   *)
(* the key had together with that edata at some time during the read.      *)
RtNotTorn ==
  \A t \in RtThreads :
    rtcall[t].pc = "return" /\ rtcall[t].op = "read"
      /\ rtcall[t].got.edata # 0
      => rtcall[t].got \in rtcall[t].seen
=============================================================================
