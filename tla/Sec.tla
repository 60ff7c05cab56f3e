-------------------------------- MODULE Sec ---------------------------------
(***************************************************************************)
(* The small extent cache (sec.c) and the way pac.c and hpa.c use it.      *)
(*                                                                         *)
(* A bin per shard and size class keeps free extents of that size, with    *)
(* counters of the bytes cached and of the pinned bytes among them, and a  *)
(* low-water mark for trimming.  Threads first try the bins of all shards  *)
(* with trylock, from their own shard on, and only then wait for a bin.    *)
(* What does not fit goes back to the allocator behind the cache, which is *)
(* here the set base.  Sizes are in pages, and a size class is its size.   *)
(***************************************************************************)
EXTENDS Integers, Sequences, FiniteSets

CONSTANTS
    Threads,
    NShards,        \* opts.nshards
    NSizes,         \* npsizes
    Extents,
    SizeOf,         \* SizeOf[e]: the size of extent e
    Pinned,         \* the extents that are pinned
    MaxBytes,       \* opts.max_bytes
    MaxFill,        \* at most this many extents are filled after a miss
    Trim,           \* opts.experimental_trim
    Nobody

Shards == 0 .. (NShards - 1)
Sizes == 1 .. NSizes
Bins == Shards \X Sizes
NBins == NShards * NSizes

ASSUME SecAssumption ==
    /\ NShards \in Nat \ {0} /\ NSizes \in Nat \ {0}
    /\ SizeOf \in [Extents -> Sizes]
    /\ Pinned \subseteq Extents
    /\ MaxBytes \in Nat /\ MaxFill \in Nat /\ Trim \in BOOLEAN
    /\ Nobody \notin Threads

VARIABLES
    bins,       \* per bin: freelist, bytes_cur, bytes_pinned_cur, low water
    mtx,        \* per bin: the holder of its mutex, or Nobody
    out,        \* extents in use by the application
    base,       \* extents of the allocator behind the cache
    pick,       \* per thread: its shard, once sec_shard_pick has chosen one
    th          \* per thread: registers

vars == << bins, mtx, out, base, pick, th >>

\* Registers: op, the call under way; size and shard of the request; cur, the
\* shard being tried; n, how many bins were visited; last, whether this is the
\* final, blocking attempt; list, the extents in the hands of the thread.
Call(pc, op, size, shard, list) ==
    [pc |-> pc, op |-> op, size |-> size, shard |-> shard, cur |-> shard,
     n |-> 0, last |-> FALSE, list |-> list]
Idle == Call("idle", "none", 1, 0, << >>)

EmptyBin == [freelist |-> << >>, bytes |-> 0, pinned |-> 0, low |-> 0]

Init ==
    /\ bins = [b \in Bins |-> EmptyBin]
    /\ mtx = [b \in Bins |-> Nobody]
    /\ out = {} /\ base = Extents
    /\ pick = [t \in Threads |-> NShards]
    /\ th = [t \in Threads |-> Idle]

-----------------------------------------------------------------------------
(* What the functions that hold a bin's mutex do to the bin *)

Rng(s) == {s[i] : i \in DOMAIN s}
Least(a, b) == IF a < b THEN a ELSE b

PinnedPages(s, size) == size * Cardinality({i \in DOMAIN s : s[i] \in Pinned})

(* Operators named X_<bug> are X with a bug that the properties must detect. *)

LowWater_stale(low, bytes) == low

LowWater(low, bytes) == IF Trim THEN Least(low, bytes) ELSE low

\* The extent at the head leaves the bin.
sec_bin_alloc_locked(b, size) ==
    [freelist |-> Tail(b.freelist),
     bytes |-> b.bytes - size,
     pinned |-> b.pinned - PinnedPages(SubSeq(b.freelist, 1, 1), size),
     low |-> LowWater(b.low, b.bytes - size)]

\* How many extents of the tail have to go so that bytes drops to target.
Excess(b, size, target) ==
    IF b.bytes <= target THEN 0
    ELSE Least((b.bytes - target + size - 1) \div size, Len(b.freelist))

Drop_pinned_kept(b, size, k) ==
    [b EXCEPT !.freelist = SubSeq(@, 1, Len(@) - k), !.bytes = @ - k * size]

\* The bin without its k coldest extents, and those extents, coldest first.
Drop(b, size, k) ==
    LET keep == Len(b.freelist) - k
        gone == SubSeq(b.freelist, keep + 1, keep + k)
    IN [freelist |-> SubSeq(b.freelist, 1, keep),
        bytes |-> b.bytes - k * size,
        pinned |-> b.pinned - PinnedPages(gone, size),
        low |-> b.low]

Dropped_hot(b, k) == SubSeq(b.freelist, 1, k)

Dropped(b, k) ==
    [i \in 1 .. k |-> b.freelist[Len(b.freelist) + 1 - i]]

\* The extent becomes the head; above MaxBytes, the bin is flushed down to
\* three quarters of it.
Inserted(b, e, size) ==
    [freelist |-> << e >> \o b.freelist,
     bytes |-> b.bytes + size,
     pinned |-> b.pinned + PinnedPages(<< e >>, size),
     low |-> b.low]

DallocExcess(b, size) ==
    IF b.bytes <= MaxBytes THEN 0
    ELSE Excess(b, size, MaxBytes - (MaxBytes \div 4))

sec_bin_dalloc_locked(b, e, size) ==
    LET in == Inserted(b, e, size)
        k == DallocExcess(in, size)
        d == Drop(in, size, k)
    IN IF in.bytes <= MaxBytes THEN in
       ELSE [d EXCEPT !.low = LowWater(@, d.bytes)]

FillCount_all(b, list, size) == Len(list)

\* sec_fill: how many of the extents of list the bin takes.
FillCount(b, list, size) ==
    IF b.bytes + Len(list) * size <= MaxBytes THEN Len(list)
    ELSE IF b.bytes > MaxBytes THEN 0
    ELSE Least((MaxBytes - b.bytes) \div size, Len(list))

sec_fill_locked_all_counted(b, list, size) ==
    LET new == SubSeq(list, 1, FillCount(b, list, size))
    IN [b EXCEPT !.freelist = @ \o new, !.bytes = @ + Len(list) * size,
                 !.pinned = @ + PinnedPages(new, size)]

sec_fill_locked(b, list, size) ==
    LET k == FillCount(b, list, size)
        new == SubSeq(list, 1, k)
    IN [freelist |-> b.freelist \o new,
        bytes |-> b.bytes + k * size,
        pinned |-> b.pinned + PinnedPages(new, size),
        low |-> b.low]

\* sec_trim: half of the low-water mark, rounded up to whole extents.
TrimCount(b, size) == ((b.low \div 2) + size - 1) \div size

sec_trim_locked(b, size) ==
    LET d == Drop(b, size, TrimCount(b, size))
    IN [d EXCEPT !.low = d.bytes]

-----------------------------------------------------------------------------
(* Steps of the threads *)

Walks(r) == r.op \in {"flush", "trim"}

BinAt(i) == << i \div NSizes, 1 + (i % NSizes) >>
CurBin(r) == IF Walks(r) THEN BinAt(r.n) ELSE << r.cur, r.size >>

Goto(t, r) == th' = [th EXCEPT ![t] = r]
Unlock(b) == mtx' = [mtx EXCEPT ![b] = Nobody]

\* sec_shard_pick: a thread chooses a shard once.
sec_shard_pick(t) == IF pick[t] \in Shards THEN {pick[t]} ELSE Shards

\* With one shard the trylocks are skipped.
FirstTry == IF NShards = 1 THEN "block" ELSE "try"

sec_alloc(t) ==
    /\ th[t].pc = "idle"
    /\ \E s \in sec_shard_pick(t), z \in Sizes :
         /\ pick' = [pick EXCEPT ![t] = s]
         /\ Goto(t, Call(FirstTry, "alloc", z, s, << >>))
    /\ UNCHANGED << bins, mtx, out, base >>

sec_dalloc(t) ==
    /\ th[t].pc = "idle"
    /\ \E s \in sec_shard_pick(t), e \in out :
         /\ pick' = [pick EXCEPT ![t] = s]
         /\ out' = out \ {e}
         /\ Goto(t, Call(FirstTry, "dalloc", SizeOf[e], s, << e >>))
    /\ UNCHANGED << bins, mtx, base >>

\* sec_flush and sec_trim walk over all bins.
sec_flush(t) ==
    /\ th[t].pc = "idle"
    /\ Goto(t, Call("block", "flush", 1, 0, << >>))
    /\ UNCHANGED << bins, mtx, out, base, pick >>

sec_trim(t) ==
    /\ th[t].pc = "idle" /\ Trim
    /\ Goto(t, Call("try", "trim", 1, 0, << >>))
    /\ UNCHANGED << bins, mtx, out, base, pick >>

NextBin_uncounted(r) ==
    IF Walks(r) THEN [r EXCEPT !.pc = "return"]
    ELSE [r EXCEPT !.cur = (r.cur + 1) % NShards, !.pc = "try"]

\* Where a thread goes after a bin that it could not lock, or that was empty.
NextBin(r) ==
    LET n == r.n + 1 IN
    IF Walks(r)
    THEN IF n < NBins
         THEN [r EXCEPT !.n = n, !.pc = IF r.op = "trim" THEN "try" ELSE "block"]
         ELSE [r EXCEPT !.pc = "return"]
    ELSE [r EXCEPT !.n = n, !.cur = (r.cur + 1) % NShards,
                   !.pc = IF n < NShards THEN "try" ELSE "block"]

Lock(t) ==
    LET r == th[t] IN
    /\ r.pc \in {"try", "block"} /\ mtx[CurBin(r)] = Nobody
    /\ mtx' = [mtx EXCEPT ![CurBin(r)] = t]
    /\ Goto(t, [r EXCEPT !.pc = "locked", !.last = r.pc = "block"])
    /\ UNCHANGED << bins, out, base, pick >>

TrylockFails(t) ==
    LET r == th[t] IN
    /\ r.pc = "try" /\ mtx[CurBin(r)] # Nobody
    /\ Goto(t, NextBin(r))
    /\ UNCHANGED << bins, mtx, out, base, pick >>

AllocLocked(t) ==
    LET r == th[t]
        b == CurBin(r)
        fl == bins[b].freelist
    IN
    /\ r.pc = "locked" /\ r.op = "alloc"
    /\ Unlock(b)
    /\ \/ /\ fl # << >>
          /\ bins' = [bins EXCEPT ![b] = sec_bin_alloc_locked(@, r.size)]
          /\ out' = out \union {Head(fl)}
          /\ Goto(t, Idle)
       \/ /\ fl = << >>
          /\ Goto(t, IF r.last THEN [r EXCEPT !.pc = "miss"] ELSE NextBin(r))
          /\ UNCHANGED << bins, out >>
    /\ UNCHANGED << base, pick >>

\* After a miss the extents come from the allocator behind the cache: the
\* first one is for the caller, the others fill the bin of its shard.
AllocBehind(t) ==
    LET r == th[t] IN
    /\ r.pc = "miss"
    /\ \E k \in 0 .. (MaxFill + 1) :
       \E s \in [1 .. k -> {e \in base : SizeOf[e] = r.size}] :
         /\ \A i, j \in 1 .. k : s[i] = s[j] => i = j
         /\ base' = base \ Rng(s)
         /\ out' = out \union Rng(SubSeq(s, 1, Least(k, 1)))
         /\ Goto(t, IF k <= 1 THEN Idle
                    ELSE [r EXCEPT !.pc = "block", !.op = "fill",
                                   !.cur = r.shard, !.list = Tail(s)])
    /\ UNCHANGED << bins, mtx, pick >>

FillLocked(t) ==
    LET r == th[t]
        b == CurBin(r)
        k == FillCount(bins[b], r.list, r.size)
    IN
    /\ r.pc = "locked" /\ r.op = "fill"
    /\ Unlock(b)
    /\ bins' = [bins EXCEPT ![b] = sec_fill_locked(@, r.list, r.size)]
    /\ Goto(t, [r EXCEPT !.pc = "return",
                         !.list = SubSeq(@, k + 1, Len(@))])
    /\ UNCHANGED << out, base, pick >>

DallocLocked(t) ==
    LET r == th[t]
        b == CurBin(r)
        e == Head(r.list)
        in == Inserted(bins[b], e, r.size)
    IN
    /\ r.pc = "locked" /\ r.op = "dalloc"
    /\ Unlock(b)
    /\ bins' = [bins EXCEPT ![b] = sec_bin_dalloc_locked(@, e, r.size)]
    /\ Goto(t, [r EXCEPT !.pc = "return",
                         !.list = Dropped(in, DallocExcess(in, r.size))])
    /\ UNCHANGED << out, base, pick >>

FlushLocked(t) ==
    LET r == th[t]
        b == CurBin(r)
    IN
    /\ r.pc = "locked" /\ r.op = "flush"
    /\ Unlock(b)
    /\ bins' = [bins EXCEPT ![b] = EmptyBin]
    /\ Goto(t, NextBin([r EXCEPT !.list = @ \o bins[b].freelist]))
    /\ UNCHANGED << out, base, pick >>

TrimLocked(t) ==
    LET r == th[t]
        b == CurBin(r)
        k == TrimCount(bins[b], b[2])
    IN
    /\ r.pc = "locked" /\ r.op = "trim"
    /\ Unlock(b)
    /\ bins' = [bins EXCEPT ![b] = sec_trim_locked(@, b[2])]
    /\ Goto(t, NextBin([r EXCEPT !.list = @ \o Dropped(bins[b], k)]))
    /\ UNCHANGED << out, base, pick >>

\* What the cache did not keep is deallocated behind it.
DallocBehind(t) ==
    /\ th[t].pc = "return"
    /\ base' = base \union Rng(th[t].list)
    /\ Goto(t, Idle)
    /\ UNCHANGED << bins, mtx, out, pick >>

Step(t) ==
    \/ Lock(t) \/ TrylockFails(t) \/ AllocLocked(t) \/ AllocBehind(t)
    \/ FillLocked(t) \/ DallocLocked(t) \/ FlushLocked(t) \/ TrimLocked(t)
    \/ DallocBehind(t)

Next == \E t \in Threads :
            sec_alloc(t) \/ sec_dalloc(t) \/ sec_flush(t) \/ sec_trim(t) \/ Step(t)

Spec == Init /\ [][Next]_vars
FairSpec == Spec /\ \A t \in Threads : SF_vars(Step(t))

-----------------------------------------------------------------------------
(* Properties *)

Registers == [pc : {"idle", "try", "block", "locked", "miss", "return"},
              op : {"none", "alloc", "dalloc", "fill", "flush", "trim"},
              size : Sizes, shard : Shards, cur : Shards, n : Nat,
              last : BOOLEAN, list : Seq(Extents)]

Bin == [freelist : Seq(Extents), bytes : Int, pinned : Int, low : Int]

\* Every variable stays within its type.
TypeOK ==
    /\ bins \in [Bins -> Bin]
    /\ mtx \in [Bins -> Threads \union {Nobody}]
    /\ out \subseteq Extents /\ base \subseteq Extents
    /\ pick \in [Threads -> Shards \union {NShards}]
    /\ th \in [Threads -> Registers]

\* bytes_cur, which alloc, dalloc, flush, fill and trim maintain on their own
\* ways, is the size of what the freelist holds, all of it of the bin's size.
BytesExact ==
    \A b \in Bins :
        /\ bins[b].bytes = b[2] * Len(bins[b].freelist)
        /\ \A i \in DOMAIN bins[b].freelist : SizeOf[bins[b].freelist[i]] = b[2]

\* bytes_pinned_cur is the size of the pinned extents among them.
PinnedExact ==
    \A b \in Bins : bins[b].pinned = PinnedPages(bins[b].freelist, b[2])

\* No bin holds more than max_bytes, however many threads fill it at once.
BytesBounded == \A b \in Bins : bins[b].bytes <= MaxBytes

\* sec_trim's assertion low_water_bytes <= bytes_cur: trimming never asks for
\* more extents than the freelist has.
LowWaterSafe == \A b \in Bins : 0 <= bins[b].low /\ bins[b].low <= bins[b].bytes

\* The inductive invariant: every bin is good, and a thread on its way to a bin
\* carries extents of that bin's size.
GoodBin(b, size) ==
    /\ b \in Bin
    /\ b.bytes = size * Len(b.freelist) /\ b.bytes <= MaxBytes
    /\ \A i \in DOMAIN b.freelist : SizeOf[b.freelist[i]] = size
    /\ 0 <= b.low /\ b.low <= b.bytes
    /\ ~Trim => b.low = 0

GoodRegisters(r) ==
    /\ r.op = "trim" => Trim
    /\ r.pc \in {"try", "block", "locked"} =>
         /\ Walks(r) => r.n < NBins
         /\ r.op = "dalloc" => Len(r.list) = 1
         /\ r.op \in {"dalloc", "fill"} =>
              \A i \in DOMAIN r.list : SizeOf[r.list[i]] = r.size

SecInv ==
    /\ TypeOK
    /\ \A b \in Bins : GoodBin(bins[b], b[2])
    /\ \A t \in Threads : GoodRegisters(th[t])

Free(b) == Rng(bins[b].freelist)
Hands(t) == Rng(th[t].list)

\* An extent is in one place, once: in use, behind the cache, in one bin, or in
\* the hands of one thread; the cache neither loses nor duplicates one.
SecOneOwner ==
    /\ \A b \in Bins : Cardinality(Free(b)) = Len(bins[b].freelist)
    /\ \A b, c \in Bins : b # c => Free(b) \cap Free(c) = {}
    /\ \A t, u \in Threads : t # u => Hands(t) \cap Hands(u) = {}
    /\ \A b \in Bins, t \in Threads : Free(b) \cap Hands(t) = {}
    /\ out \cap base = {}
    /\ \A b \in Bins : Free(b) \cap (out \union base) = {}
    /\ \A t \in Threads : Hands(t) \cap (out \union base) = {}
    /\ Extents = out \union base \union (UNION {Free(b) : b \in Bins})
                   \union (UNION {Hands(t) : t \in Threads})

\* The cache neither loses nor duplicates an extent, and its pinned bytes are
\* counted on every way in and out of a bin (sec_bin_alloc_locked,
\* sec_bin_dalloc_locked, sec_fill, sec_flush, sec_trim).
SecApart == SecOneOwner /\ PinnedExact

\* The inductive invariant of the owners: no list names an extent twice, a thread
\* that allocates has nothing in its hands, and the places of SecOneOwner divide
\* the extents among them.
Distinct(s) == \A i, j \in DOMAIN s : s[i] = s[j] => i = j

EmptyHanded(r) == r.pc \in {"idle", "miss"} \/ r.op = "alloc" => r.list = << >>

Places == ({"out", "base"} \X {0}) \union ({"bin"} \X Bins)
            \union ({"thread"} \X Threads)

Owned == [p \in Places |-> IF p[1] = "out" THEN out
                          ELSE IF p[1] = "base" THEN base
                          ELSE IF p[1] = "bin" THEN Free(p[2])
                          ELSE Hands(p[2])]

Apart(C) ==
    /\ \A p, q \in Places : p # q => C[p] \cap C[q] = {}
    /\ \A e \in Extents : \E p \in Places : e \in C[p]

OwnerInv ==
    /\ Apart(Owned)
    /\ \A b \in Bins : Distinct(bins[b].freelist)
    /\ \A t \in Threads : Distinct(th[t].list) /\ EmptyHanded(th[t])
    /\ PinnedExact

\* A deallocation that flushes leaves the bin at three quarters of max_bytes at
\* most.
FlushedBelow ==
    [][\A t \in Threads :
          DallocLocked(t) /\ th'[t].list # << >> =>
          bins'[CurBin(th[t])].bytes <= MaxBytes - (MaxBytes \div 4)]_vars

\* Every call returns, although allocation walks over all shards and flushing
\* waits for every bin.
SecReturns == \A t \in Threads : th[t].pc # "idle" ~> th[t].pc = "idle"
=============================================================================
