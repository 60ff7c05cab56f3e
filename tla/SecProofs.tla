----------------------------- MODULE SecProofs ------------------------------
(***************************************************************************)
(* Proofs about the small extent cache, for any number of threads, shards, *)
(* size classes and extents and any max_bytes.                             *)
(***************************************************************************)
EXTENDS Sec, FiniteSetTheorems, TLAPS

-----------------------------------------------------------------------------
(* Arithmetic and sequences *)

\* Truncating division, as / on size_t.
LEMMA DivBounds ==
    ASSUME NEW x \in Int, NEW s \in Nat \ {0}
    PROVE  /\ x \div s \in Int
           /\ (x \div s) * s <= x
           /\ x < (x \div s) * s + s
  OBVIOUS

\* The number of extents of s pages that cover x pages.
LEMMA Ceiling ==
    ASSUME NEW x \in Nat, NEW s \in Nat \ {0}, NEW L \in Nat, x <= s * L
    PROVE  /\ (x + s - 1) \div s \in 0 .. L
           /\ x <= ((x + s - 1) \div s) * s
  <1> DEFINE q == (x + s - 1) \div s
  <1>1. q \in Int /\ q * s <= x + s - 1 /\ x + s - 1 < q * s + s
    BY DivBounds
  <1> HIDE DEF q
  <1>2. q >= 0
    <2>1. SUFFICES ASSUME q <= -1 PROVE FALSE
      BY <1>1
    <2>2. q * s <= (-1) * s
      BY <1>1, <2>1
    <2> QED BY <1>1, <2>2
  <1>3. q <= L
    <2>1. SUFFICES ASSUME q >= L + 1 PROVE FALSE
      BY <1>1
    <2>2. q * s >= (L + 1) * s
      BY <1>1, <2>1
    <2> QED BY <1>1, <2>2
  <1> QED BY <1>1, <1>2, <1>3 DEF q

LEMMA ConcatAt ==
    ASSUME NEW s \in Seq(Extents), NEW u \in Seq(Extents),
           NEW i \in Len(s) + 1 .. Len(s) + Len(u)
    PROVE  i - Len(s) \in DOMAIN u /\ (s \o u)[i] = u[i - Len(s)]
  OBVIOUS

LEMMA ConcatType ==
    ASSUME NEW s \in Seq(Extents), NEW u \in Seq(Extents)
    PROVE  s \o u \in Seq(Extents) /\ Len(s \o u) = Len(s) + Len(u)
  OBVIOUS

\* sec_list_pinned_bytes_get counts something.
LEMMA PinnedPagesType ==
    ASSUME NEW s \in Seq(Extents), NEW size \in Nat
    PROVE  PinnedPages(s, size) \in Nat
  <1>1. IsFiniteSet(1 .. Len(s))
    BY FS_Interval
  <1>2. {i \in DOMAIN s : s[i] \in Pinned} \subseteq 1 .. Len(s)
    OBVIOUS
  <1>3. Cardinality({i \in DOMAIN s : s[i] \in Pinned}) \in Nat
    BY <1>1, <1>2, FS_Subset, FS_CardinalityType
  <1> QED BY <1>3 DEF PinnedPages

-----------------------------------------------------------------------------
(* Each critical section keeps its bin good *)

LEMMA EmptyGood == \A size \in Sizes : GoodBin(EmptyBin, size)
  BY SecAssumption DEF GoodBin, EmptyBin, Bin, Sizes

\* The low-water mark follows bytes_cur down, and is 0 without trimming.
LEMMA LowWaterGood ==
    ASSUME NEW low \in Int, NEW bytes \in Int, 0 <= low, 0 <= bytes,
           ~Trim => low = 0
    PROVE  LET l == LowWater(low, bytes)
           IN  l \in Int /\ 0 <= l /\ l <= bytes /\ (~Trim => l = 0)
  <1>1. CASE Trim
    BY <1>1 DEF LowWater, Least
  <1>2. CASE ~Trim
    BY <1>2 DEF LowWater
  <1> QED BY <1>1, <1>2

LEMMA AllocGood ==
    ASSUME NEW b, NEW size \in Sizes, GoodBin(b, size), b.freelist # << >>
    PROVE  GoodBin(sec_bin_alloc_locked(b, size), size)
  <1> USE SecAssumption
  <1> DEFINE c == sec_bin_alloc_locked(b, size)
  <1>0. size \in Nat \ {0}
    BY DEF Sizes
  <1>1. b \in Bin /\ Len(b.freelist) >= 1
    BY DEF GoodBin, Bin
  <1>2. /\ c.freelist \in Seq(Extents) /\ Len(c.freelist) = Len(b.freelist) - 1
        /\ \A i \in DOMAIN c.freelist : SizeOf[c.freelist[i]] = size
    BY <1>1 DEF GoodBin, Bin, sec_bin_alloc_locked
  <1>3. c.bytes = size * Len(c.freelist) /\ c.bytes <= MaxBytes /\ c.bytes >= 0
    BY <1>0, <1>1, <1>2 DEF GoodBin, Bin, sec_bin_alloc_locked
  <1>4. /\ c.low \in Int /\ 0 <= c.low /\ c.low <= c.bytes
        /\ ~Trim => c.low = 0
    <2>1. /\ b.low \in Int /\ 0 <= b.low
          /\ ~Trim => b.low = 0
      BY <1>1 DEF GoodBin, Bin
    <2>2. c.low = LowWater(b.low, c.bytes)
      BY DEF sec_bin_alloc_locked
    <2>3. c.bytes \in Int
      BY <1>0, <1>2, <1>3
    <2> HIDE DEF c
    <2> QED BY <1>3, <2>1, <2>2, <2>3, LowWaterGood
  <1>5. c.pinned \in Int
    <2> DEFINE hd == SubSeq(b.freelist, 1, 1)
    <2>1. hd \in Seq(Extents)
      BY <1>1 DEF Bin
    <2> HIDE DEF hd
    <2>2. PinnedPages(hd, size) \in Nat
      BY <1>0, <2>1, PinnedPagesType
    <2>3. c.pinned = b.pinned - PinnedPages(hd, size)
      BY DEF sec_bin_alloc_locked, hd
    <2> QED BY <1>1, <2>2, <2>3 DEF Bin
  <1>6. c = [freelist |-> c.freelist, bytes |-> c.bytes, pinned |-> c.pinned,
             low |-> c.low]
    BY DEF sec_bin_alloc_locked
  <1>7. c.bytes \in Int
    BY <1>0, <1>2, <1>3
  <1> HIDE DEF c
  <1>8. c \in Bin
    BY <1>2, <1>4, <1>5, <1>6, <1>7 DEF Bin
  <1> QED BY <1>2, <1>3, <1>4, <1>8 DEF GoodBin, c

\* What Drop leaves of a bin whose counters are right.
LEMMA DropGood ==
    ASSUME NEW b \in Bin, NEW size \in Sizes, NEW k \in 0 .. Len(b.freelist),
           b.bytes = size * Len(b.freelist),
           \A i \in DOMAIN b.freelist : SizeOf[b.freelist[i]] = size
    PROVE  LET d == Drop(b, size, k)
           IN  /\ d \in Bin /\ d.low = b.low
               /\ d.bytes = b.bytes - k * size
               /\ d.bytes = size * Len(d.freelist) /\ d.bytes >= 0
               /\ \A i \in DOMAIN d.freelist : SizeOf[d.freelist[i]] = size
  <1> USE SecAssumption
  <1> DEFINE L == Len(b.freelist)
             fl == SubSeq(b.freelist, 1, L - k)
             gone == SubSeq(b.freelist, L - k + 1, L - k + k)
             d == Drop(b, size, k)
  <1>0. size \in Nat \ {0}
    BY DEF Sizes
  <1>1. b.freelist \in Seq(Extents) /\ L \in Nat /\ L - k \in 0 .. L
    BY DEF Bin
  <1>2. /\ fl \in Seq(Extents) /\ Len(fl) = L - k
        /\ \A i \in DOMAIN fl : SizeOf[fl[i]] = size
    BY <1>1
  <1>3. gone \in Seq(Extents)
    BY <1>1
  <1>4. PinnedPages(gone, size) \in Nat
    <2> HIDE DEF gone
    <2> QED BY <1>0, <1>3, PinnedPagesType
  <1>5. b.bytes - k * size = size * (L - k) /\ size * (L - k) >= 0
    <2> HIDE DEF L
    <2>1. b.bytes = size * L
      BY DEF L
    <2>2. k \in Int
      OBVIOUS
    <2> QED BY <1>0, <1>1, <2>1, <2>2
  <1>6. /\ d = [freelist |-> fl, bytes |-> b.bytes - k * size,
                pinned |-> b.pinned - PinnedPages(gone, size), low |-> b.low]
    BY DEF Drop
  <1> HIDE DEF fl, gone, d
  <1>7. /\ d.freelist = fl /\ d.bytes = b.bytes - k * size /\ d.low = b.low
        /\ d.bytes \in Int
    BY <1>0, <1>6 DEF Bin
  <1>8. d \in Bin
    BY <1>2, <1>4, <1>6, <1>7 DEF Bin
  <1> QED BY <1>2, <1>5, <1>7, <1>8 DEF d, L

\* The extents that the flush of an overfull bin removes are there, and their
\* removal brings the bin down to the target.
LEMMA ExcessBound ==
    ASSUME NEW b \in Bin, NEW size \in Sizes, NEW target \in Nat,
           b.bytes = size * Len(b.freelist)
    PROVE  /\ Excess(b, size, target) \in 0 .. Len(b.freelist)
           /\ b.bytes - Excess(b, size, target) * size <= target
  <1> USE SecAssumption
  <1> DEFINE L == Len(b.freelist)
             over == b.bytes - target
             q == (over + size - 1) \div size
  <1>0. size \in Nat \ {0} /\ L \in Nat /\ b.bytes \in Int
    BY DEF Sizes, Bin
  <1>1. CASE b.bytes <= target
    <2>1. Excess(b, size, target) = 0
      BY <1>1 DEF Excess
    <2> QED BY <1>0, <1>1, <2>1
  <1>2. CASE b.bytes > target
    <2>1. over \in Nat /\ over <= size * L
      BY <1>0, <1>2
    <2>2. q \in 0 .. L /\ over <= q * size
      <3> HIDE DEF over, L
      <3> QED BY <1>0, <2>1, Ceiling
    <2>3. Excess(b, size, target) = q
      <3>1. Excess(b, size, target) = Least(q, L)
        <4>1. ~(b.bytes <= target)
          BY <1>0, <1>2
        <4> QED BY <4>1, Zenon DEF Excess
      <3> HIDE DEF q, L
      <3> QED BY <1>0, <2>2, <3>1 DEF Least
    <2> HIDE DEF q
    <2> QED BY <1>0, <2>2, <2>3
  <1> QED BY <1>0, <1>1, <1>2

\* Three quarters of max_bytes.
LEMMA TargetBound ==
    /\ MaxBytes - (MaxBytes \div 4) \in Nat
    /\ MaxBytes - (MaxBytes \div 4) <= MaxBytes
  BY SecAssumption

\* The new extent is counted.
LEMMA InsertedGood ==
    ASSUME NEW b, NEW size \in Sizes, GoodBin(b, size),
           NEW e \in Extents, SizeOf[e] = size
    PROVE  LET in == Inserted(b, e, size)
           IN  /\ in \in Bin /\ in.low = b.low /\ in.bytes = b.bytes + size
               /\ in.bytes = size * Len(in.freelist)
               /\ \A i \in DOMAIN in.freelist : SizeOf[in.freelist[i]] = size
  <1> DEFINE fl == << e >> \o b.freelist
             in == Inserted(b, e, size)
  <1>0. size \in Nat \ {0}
    BY SecAssumption DEF Sizes
  <1>1. b \in Bin /\ b.freelist \in Seq(Extents)
    BY DEF GoodBin, Bin
  <1>2. /\ fl \in Seq(Extents) /\ Len(fl) = Len(b.freelist) + 1
        /\ \A i \in DOMAIN fl : SizeOf[fl[i]] = size
    BY <1>1 DEF GoodBin
  <1>3. PinnedPages(<< e >>, size) \in Nat
    <2>1. << e >> \in Seq(Extents)
      OBVIOUS
    <2> QED BY <1>0, <2>1, PinnedPagesType, Zenon
  <1>4. in = [freelist |-> fl, bytes |-> b.bytes + size,
              pinned |-> b.pinned + PinnedPages(<< e >>, size), low |-> b.low]
    BY DEF Inserted
  <1> HIDE DEF fl, in
  <1>5. /\ in.freelist = fl /\ in.bytes = b.bytes + size /\ in.low = b.low
        /\ in \in Bin
    BY <1>0, <1>1, <1>2, <1>3, <1>4 DEF Bin
  <1>6. b.bytes = size * Len(b.freelist) /\ Len(b.freelist) \in Nat
    BY <1>1 DEF GoodBin
  <1>7. in.bytes = size * Len(in.freelist)
    <2> DEFINE L == Len(b.freelist)
    <2>1. in.bytes = size * L + size
      BY <1>5, <1>6
    <2>2. Len(in.freelist) = L + 1 /\ L \in Nat
      BY <1>2, <1>5, <1>6
    <2> HIDE DEF L
    <2>3. size * L + size = size * (L + 1)
      BY <1>0, <2>2
    <2> QED BY <2>1, <2>2, <2>3
  <1> QED BY <1>2, <1>5, <1>7 DEF in

\* sec_bin_dalloc_locked, with or without the flush, and what the flush leaves.
LEMMA DallocGood ==
    ASSUME NEW b, NEW size \in Sizes, GoodBin(b, size),
           NEW e \in Extents, SizeOf[e] = size
    PROVE  LET in == Inserted(b, e, size)
               k == DallocExcess(in, size)
               c == sec_bin_dalloc_locked(b, e, size)
           IN  /\ k \in 0 .. Len(in.freelist)
               /\ GoodBin(c, size)
               /\ in.bytes <= MaxBytes => k = 0
               /\ in.bytes > MaxBytes => c.bytes <= MaxBytes - (MaxBytes \div 4)
  <1> DEFINE in == Inserted(b, e, size)
             k == DallocExcess(in, size)
             target == MaxBytes - (MaxBytes \div 4)
             d == Drop(in, size, k)
             c == sec_bin_dalloc_locked(b, e, size)
  <1>0. size \in Nat \ {0} /\ MaxBytes \in Nat
    BY SecAssumption DEF Sizes
  <1>1. /\ in \in Bin /\ in.low = b.low /\ in.bytes = b.bytes + size
        /\ in.bytes = size * Len(in.freelist)
        /\ \A i \in DOMAIN in.freelist : SizeOf[in.freelist[i]] = size
    BY InsertedGood
  <1>2. /\ b.low \in Int /\ b.bytes \in Int /\ 0 <= b.low /\ b.low <= b.bytes
        /\ ~Trim => b.low = 0
    BY DEF GoodBin, Bin
  <1>3. target \in Nat /\ target <= MaxBytes
    BY TargetBound
  <1>4. Len(in.freelist) \in Nat
    BY <1>1 DEF Bin
  <1>5. /\ c = IF in.bytes <= MaxBytes THEN in
               ELSE [d EXCEPT !.low = LowWater(@, d.bytes)]
        /\ k = IF in.bytes <= MaxBytes THEN 0 ELSE Excess(in, size, target)
    BY DEF sec_bin_dalloc_locked, DallocExcess
  <1> HIDE DEF in, k, target, c
  <1>6. CASE in.bytes <= MaxBytes
    <2>1. c = in /\ k = 0
      BY <1>5, <1>6
    <2>2. GoodBin(in, size)
      BY <1>0, <1>1, <1>2, <1>6 DEF GoodBin
    <2> QED BY <1>0, <1>1, <1>4, <1>6, <2>1, <2>2 DEF in, k, c, Bin
  <1>7. CASE ~(in.bytes <= MaxBytes)
    <2>1. k = Excess(in, size, target)
      BY <1>5, <1>7
    <2>2. k \in 0 .. Len(in.freelist) /\ in.bytes - k * size <= target
      BY <1>1, <1>3, <2>1, ExcessBound
    <2>3. /\ d \in Bin /\ d.low = in.low /\ d.bytes = in.bytes - k * size
          /\ d.bytes = size * Len(d.freelist) /\ d.bytes >= 0
          /\ \A i \in DOMAIN d.freelist : SizeOf[d.freelist[i]] = size
      BY <1>1, <2>2, DropGood
    <2>4. c = [d EXCEPT !.low = LowWater(@, d.bytes)]
      BY <1>5, <1>7
    <2> HIDE DEF d
    <2>5. d.low \in Int /\ d.bytes \in Int
      BY <2>3 DEF Bin
    <2> DEFINE l == LowWater(d.low, d.bytes)
    <2>6. l \in Int /\ 0 <= l /\ l <= d.bytes /\ (~Trim => l = 0)
      <3>1. 0 <= d.low /\ 0 <= d.bytes /\ (~Trim => d.low = 0)
        BY <1>1, <1>2, <2>3, <2>5
      <3> QED BY <2>5, <3>1, LowWaterGood, Zenon
    <2>7. c = [d EXCEPT !.low = l]
      BY <2>3, <2>4 DEF Bin
    <2> HIDE DEF l
    <2>8. /\ c \in Bin /\ c.freelist = d.freelist /\ c.bytes = d.bytes
          /\ c.low = l
      BY <2>3, <2>6, <2>7 DEF Bin
    <2>9. c.bytes <= target /\ c.bytes <= MaxBytes
      BY <1>0, <1>3, <2>2, <2>3, <2>5, <2>8
    <2>10. GoodBin(c, size)
      BY <2>3, <2>6, <2>8, <2>9 DEF GoodBin
    <2> QED BY <1>7, <2>2, <2>9, <2>10 DEF in, k, c, target
  <1> QED BY <1>6, <1>7

\* sec_fill takes what fits.
LEMMA FillCountBound ==
    ASSUME NEW b, NEW size \in Sizes, GoodBin(b, size), NEW list \in Seq(Extents)
    PROVE  LET k == FillCount(b, list, size)
           IN  k \in 0 .. Len(list) /\ b.bytes + k * size <= MaxBytes
  <1> DEFINE k == FillCount(b, list, size)
             L == Len(list)
             q == (MaxBytes - b.bytes) \div size
  <1>0. size \in Nat \ {0} /\ MaxBytes \in Nat /\ L \in Nat
    BY SecAssumption DEF Sizes
  <1>1. b.bytes \in Nat /\ b.bytes <= MaxBytes
    BY DEF GoodBin, Bin
  <1>2. k = IF b.bytes + L * size <= MaxBytes THEN L
            ELSE IF b.bytes > MaxBytes THEN 0 ELSE Least(q, L)
    BY DEF FillCount
  <1>3. q \in Int /\ q * size <= MaxBytes - b.bytes
        /\ MaxBytes - b.bytes < q * size + size
    <2> DEFINE room == MaxBytes - b.bytes
    <2>1. room \in Int
      BY <1>0, <1>1
    <2> HIDE DEF room
    <2>2. /\ room \div size \in Int /\ (room \div size) * size <= room
          /\ room < (room \div size) * size + size
      BY <1>0, <2>1, DivBounds
    <2> QED BY <2>2 DEF room
  <1> HIDE DEF k, L, q
  <1>4. q >= 0
    <2>1. SUFFICES ASSUME q <= -1 PROVE FALSE
      BY <1>3
    <2>2. q * size <= (-1) * size
      BY <1>0, <1>3, <2>1
    <2> QED BY <1>0, <1>1, <1>3, <2>2
  <1>5. CASE b.bytes + L * size <= MaxBytes
    BY <1>0, <1>2, <1>5 DEF k, L
  <1>6. CASE ~(b.bytes + L * size <= MaxBytes)
    <2>1. k = Least(q, L)
      <3>1. ~(b.bytes > MaxBytes)
        BY <1>0, <1>1
      <3> QED BY <1>2, <1>6, <3>1, Zenon
    <2>2. k \in 0 .. L /\ k <= q
      BY <1>0, <1>3, <1>4, <2>1 DEF Least
    <2>3. k * size <= q * size
      BY <1>0, <1>3, <2>2
    <2>4. b.bytes + k * size <= MaxBytes
      BY <1>0, <1>1, <1>3, <2>2, <2>3
    <2> QED BY <2>2, <2>4 DEF k, L
  <1> QED BY <1>5, <1>6

LEMMA FillGood ==
    ASSUME NEW b, NEW size \in Sizes, GoodBin(b, size), NEW list \in Seq(Extents),
           \A i \in DOMAIN list : SizeOf[list[i]] = size
    PROVE  GoodBin(sec_fill_locked(b, list, size), size)
  <1> DEFINE k == FillCount(b, list, size)
             new == SubSeq(list, 1, k)
             fl == b.freelist \o new
             c == sec_fill_locked(b, list, size)
             L == Len(b.freelist)
  <1>0. size \in Nat \ {0} /\ MaxBytes \in Nat
    BY SecAssumption DEF Sizes
  <1>1. /\ b \in Bin /\ b.freelist \in Seq(Extents) /\ b.bytes \in Int
        /\ L \in Nat /\ b.bytes = size * L
        /\ 0 <= b.low /\ b.low <= b.bytes /\ (~Trim => b.low = 0)
        /\ b.low \in Int /\ b.pinned \in Int
    BY DEF GoodBin, Bin
  <1>2. k \in 0 .. Len(list) /\ b.bytes + k * size <= MaxBytes
    BY FillCountBound
  <1> HIDE DEF k
  <1>3. /\ new \in Seq(Extents) /\ Len(new) = k
        /\ \A i \in DOMAIN new : SizeOf[new[i]] = size
    BY <1>2
  <1>4. c = [freelist |-> fl, bytes |-> b.bytes + k * size,
             pinned |-> b.pinned + PinnedPages(new, size), low |-> b.low]
    BY DEF sec_fill_locked, k
  <1> HIDE DEF new
  <1>5. PinnedPages(new, size) \in Nat
    BY <1>0, <1>3, PinnedPagesType
  <1>6. /\ fl \in Seq(Extents) /\ Len(fl) = L + k
        /\ \A i \in DOMAIN fl : SizeOf[fl[i]] = size
    <2>1. fl \in Seq(Extents) /\ Len(fl) = L + k
      BY <1>1, <1>3, ConcatType
    <2>2. ASSUME NEW i \in DOMAIN fl PROVE SizeOf[fl[i]] = size
      <3>1. CASE i <= L
        <4>1. i \in DOMAIN b.freelist /\ fl[i] = b.freelist[i]
          BY <1>1, <1>3, <2>1, <3>1
        <4> QED BY <4>1 DEF GoodBin
      <3>2. CASE i > L
        <4>0. i \in L + 1 .. L + k /\ Len(new) = k
          BY <1>1, <1>2, <1>3, <2>1, <3>2
        <4>1. i - L \in DOMAIN new /\ fl[i] = new[i - L]
          BY <1>1, <1>3, <4>0, ConcatAt
        <4> QED BY <1>3, <4>1
      <3> QED BY <1>1, <2>1, <3>1, <3>2
    <2> QED BY <2>1, <2>2
  <1>7. b.bytes + k * size = size * (L + k)
    <2> HIDE DEF L
    <2> QED BY <1>0, <1>1, <1>2
  <1> HIDE DEF fl, c
  <1>8. k * size \in Nat
    BY <1>0, <1>2
  <1>9. /\ c.freelist = fl /\ c.bytes = b.bytes + k * size /\ c.low = b.low
        /\ c \in Bin
    BY <1>1, <1>4, <1>5, <1>6, <1>8 DEF Bin
  <1>10. c.low <= c.bytes
    BY <1>1, <1>8, <1>9
  <1>11. c.bytes = size * Len(c.freelist)
    BY <1>6, <1>7, <1>9
  <1> QED BY <1>1, <1>2, <1>6, <1>9, <1>10, <1>11 DEF GoodBin, c

\* sec_trim: the low-water mark is at most bytes_cur, so the extents to trim
\* are there.
LEMMA TrimGood ==
    ASSUME NEW b, NEW size \in Sizes, GoodBin(b, size), Trim
    PROVE  /\ TrimCount(b, size) \in 0 .. Len(b.freelist)
           /\ GoodBin(sec_trim_locked(b, size), size)
  <1> DEFINE half == b.low \div 2
             k == TrimCount(b, size)
             d == Drop(b, size, k)
             c == sec_trim_locked(b, size)
  <1>0. size \in Nat \ {0} /\ MaxBytes \in Nat
    BY SecAssumption DEF Sizes
  <1>1. /\ b \in Bin /\ b.bytes \in Int /\ Len(b.freelist) \in Nat
        /\ b.bytes = size * Len(b.freelist) /\ b.bytes <= MaxBytes
        /\ 0 <= b.low /\ b.low <= b.bytes /\ b.low \in Int
        /\ \A i \in DOMAIN b.freelist : SizeOf[b.freelist[i]] = size
    BY DEF GoodBin, Bin
  <1>2. half \in Nat /\ half <= size * Len(b.freelist)
    BY <1>1
  <1>3. k \in 0 .. Len(b.freelist)
    <2>1. k = (half + size - 1) \div size
      BY DEF TrimCount
    <2> HIDE DEF half, k
    <2> QED BY <1>0, <1>1, <1>2, <2>1, Ceiling
  <1> HIDE DEF k
  <1>4. /\ d \in Bin /\ d.bytes = b.bytes - k * size
        /\ d.bytes = size * Len(d.freelist) /\ d.bytes >= 0
        /\ \A i \in DOMAIN d.freelist : SizeOf[d.freelist[i]] = size
    BY <1>1, <1>3, DropGood
  <1>5. c = [d EXCEPT !.low = d.bytes]
    BY DEF sec_trim_locked, k
  <1> HIDE DEF d, c
  <1>6. k * size \in Nat /\ d.bytes \in Int
    BY <1>0, <1>3, <1>4 DEF Bin
  <1>7. /\ c \in Bin /\ c.freelist = d.freelist /\ c.bytes = d.bytes
        /\ c.low = d.bytes
    BY <1>4, <1>5, <1>6 DEF Bin
  <1>8. c.bytes <= MaxBytes
    BY <1>0, <1>1, <1>4, <1>6, <1>7
  <1>9. GoodBin(c, size)
    BY <1>4, <1>6, <1>7, <1>8 DEF GoodBin
  <1> QED BY <1>3, <1>9 DEF c, k

\* What leaves a bin is a list of extents.
LEMMA DroppedType ==
    ASSUME NEW b \in Bin, NEW k \in 0 .. Len(b.freelist)
    PROVE  Dropped(b, k) \in Seq(Extents)
  <1>1. b.freelist \in Seq(Extents)
    BY DEF Bin
  <1>2. \A i \in 1 .. k : b.freelist[Len(b.freelist) + 1 - i] \in Extents
    BY <1>1
  <1> QED BY <1>2 DEF Dropped

-----------------------------------------------------------------------------
(* Where a thread goes next *)

\* The walk of sec_flush and sec_trim stays within the bins.
LEMMA BinAtIn ==
    ASSUME NEW i \in Nat, i < NBins
    PROVE  BinAt(i) \in Bins
  <1> DEFINE q == i \div NSizes
  <1>0. NShards \in Nat \ {0} /\ NSizes \in Nat \ {0}
    BY SecAssumption
  <1>1. q \in Int /\ q * NSizes <= i /\ i < q * NSizes + NSizes
    BY <1>0, DivBounds
  <1>2. i % NSizes \in 0 .. (NSizes - 1)
    BY <1>0
  <1> HIDE DEF q
  <1>3. q >= 0
    <2>1. SUFFICES ASSUME q <= -1 PROVE FALSE
      BY <1>1
    <2>2. q * NSizes <= (-1) * NSizes
      BY <1>0, <1>1, <2>1
    <2> QED BY <1>0, <1>1, <2>2
  <1>4. q <= NShards - 1
    <2>1. SUFFICES ASSUME q >= NShards PROVE FALSE
      BY <1>0, <1>1
    <2>2. q * NSizes >= NShards * NSizes
      BY <1>0, <1>1, <2>1
    <2> QED BY <1>0, <1>1, <2>2 DEF NBins
  <1>5. q \in Shards /\ 1 + (i % NSizes) \in Sizes
    BY <1>0, <1>1, <1>2, <1>3, <1>4 DEF Shards, Sizes
  <1> QED BY <1>5 DEF BinAt, Bins, q

LEMMA CurBinIn ==
    ASSUME NEW r \in Registers, GoodRegisters(r),
           r.pc \in {"try", "block", "locked"}
    PROVE  /\ CurBin(r) \in Bins
           /\ ~Walks(r) => CurBin(r)[2] = r.size
  <1>1. CASE Walks(r)
    <2>1. r.n \in Nat /\ r.n < NBins
      BY <1>1 DEF Registers, GoodRegisters
    <2>2. BinAt(r.n) \in Bins
      BY <2>1, BinAtIn
    <2> QED BY <1>1, <2>2 DEF CurBin
  <1>2. CASE ~Walks(r)
    BY <1>2 DEF CurBin, Registers, Bins
  <1> QED BY <1>1, <1>2

LEMMA NextBinGood ==
    ASSUME NEW r \in Registers, r.op = "trim" => Trim,
           r.op = "dalloc" => Len(r.list) = 1,
           r.op \in {"dalloc", "fill"} =>
              \A i \in DOMAIN r.list : SizeOf[r.list[i]] = r.size
    PROVE  NextBin(r) \in Registers /\ GoodRegisters(NextBin(r))
  <1>0. NShards \in Nat \ {0}
    BY SecAssumption
  <1>1. r.n + 1 \in Nat
    BY DEF Registers
  <1>2. CASE Walks(r)
    BY <1>1, <1>2 DEF NextBin, Registers, GoodRegisters, Walks
  <1>3. CASE ~Walks(r)
    <2>1. (r.cur + 1) % NShards \in Shards
      BY <1>0 DEF Registers, Shards
    <2> QED BY <1>1, <1>3, <2>1 DEF NextBin, Registers, GoodRegisters, Walks
  <1> QED BY <1>2, <1>3

-----------------------------------------------------------------------------
(* The invariant is inductive *)

LEMMA CallGood ==
    ASSUME NEW pc \in {"idle", "try", "block"},
           NEW op \in {"none", "alloc", "dalloc", "flush", "trim"},
           NEW z \in Sizes, NEW s \in Shards, NEW list \in Seq(Extents),
           op = "trim" => Trim, op = "dalloc" => Len(list) = 1,
           op = "dalloc" => \A i \in DOMAIN list : SizeOf[list[i]] = z
    PROVE  LET r == Call(pc, op, z, s, list)
           IN  r \in Registers /\ GoodRegisters(r)
  <1> DEFINE r == Call(pc, op, z, s, list)
  <1>1. r \in Registers
    BY DEF Call, Registers
  <1>2. r.op = op /\ r.list = list /\ r.size = z /\ r.n = 0
    BY DEF Call
  <1>3. 0 < NBins
    <2>1. NShards \in Nat \ {0} /\ NSizes \in Nat \ {0}
      BY SecAssumption
    <2>2. NShards * NSizes > 0
      BY <2>1
    <2> QED BY <2>1, <2>2 DEF NBins
  <1> HIDE DEF r
  <1>4. GoodRegisters(r)
    BY <1>2, <1>3 DEF GoodRegisters
  <1> QED BY <1>1, <1>4 DEF r

LEMMA IdleGood == Idle \in Registers /\ GoodRegisters(Idle)
  <1>1. 1 \in Sizes /\ 0 \in Shards /\ << >> \in Seq(Extents)
    BY SecAssumption DEF Sizes, Shards
  <1> QED BY <1>1, CallGood DEF Idle

\* A step that changes the registers of one thread and at most one bin.
LEMMA OneThread ==
    ASSUME SecInv, NEW t \in Threads, NEW r \in Registers, GoodRegisters(r),
           Goto(t, r),
           bins' = bins \/ \E b \in Bins, c \in Bin :
                             /\ bins' = [bins EXCEPT ![b] = c]
                             /\ GoodBin(c, b[2]),
           mtx' \in [Bins -> Threads \union {Nobody}],
           out' \subseteq Extents, base' \subseteq Extents,
           pick' \in [Threads -> Shards \union {NShards}]
    PROVE  SecInv'
  <1>1. th' \in [Threads -> Registers] /\ \A u \in Threads : GoodRegisters(th'[u])
    BY DEF SecInv, TypeOK, Goto
  <1>2. bins' \in [Bins -> Bin] /\ \A b \in Bins : GoodBin(bins'[b], b[2])
    <2>1. CASE bins' = bins
      BY <2>1 DEF SecInv, TypeOK
    <2>2. ASSUME NEW b \in Bins, NEW c \in Bin, GoodBin(c, b[2]),
                 bins' = [bins EXCEPT ![b] = c]
          PROVE  bins' \in [Bins -> Bin]
                 /\ \A a \in Bins : GoodBin(bins'[a], a[2])
      BY <2>2 DEF SecInv, TypeOK
    <2> QED BY <2>1, <2>2
  <1> QED BY <1>1, <1>2 DEF SecInv, TypeOK

LEMMA GoodIsBin == \A b, size : GoodBin(b, size) => b \in Bin
  BY DEF GoodBin

LEMMA SecInvInit == Init => SecInv
  <1> SUFFICES ASSUME Init PROVE SecInv
    OBVIOUS
  <1>1. \A b \in Bins : b[2] \in Sizes
    BY DEF Bins
  <1>2. \A b \in Bins : bins[b] = EmptyBin /\ GoodBin(bins[b], b[2])
    BY <1>1, EmptyGood DEF Init
  <1>3. EmptyBin \in Bin
    BY DEF EmptyBin, Bin
  <1>4. TypeOK
    BY <1>3, IdleGood, SecAssumption DEF Init, TypeOK
  <1>5. \A t \in Threads : GoodRegisters(th[t])
    BY IdleGood DEF Init
  <1> QED BY <1>2, <1>4, <1>5 DEF SecInv

\* A call begins.
LEMMA CallInv ==
    ASSUME SecInv, NEW t \in Threads,
           sec_alloc(t) \/ sec_dalloc(t) \/ sec_flush(t) \/ sec_trim(t)
    PROVE  SecInv'
  <1>0. 1 \in Sizes /\ 0 \in Shards /\ << >> \in Seq(Extents)
    BY SecAssumption DEF Sizes, Shards
  <1>1. TypeOK
    BY DEF SecInv
  <1>2. sec_shard_pick(t) \subseteq Shards
    BY DEF sec_shard_pick
  <1>3. FirstTry \in {"idle", "try", "block"}
    BY DEF FirstTry
  <1>4. CASE sec_alloc(t)
    <2>1. PICK s \in sec_shard_pick(t), z \in Sizes :
            /\ pick' = [pick EXCEPT ![t] = s]
            /\ Goto(t, Call(FirstTry, "alloc", z, s, << >>))
      BY <1>4 DEF sec_alloc
    <2> DEFINE r == Call(FirstTry, "alloc", z, s, << >>)
    <2>2. r \in Registers /\ GoodRegisters(r)
      BY <1>0, <1>2, <1>3, CallGood
    <2>3. /\ bins' = bins /\ mtx' = mtx /\ out' = out /\ base' = base
          /\ pick' \in [Threads -> Shards \union {NShards}]
      BY <1>1, <1>2, <1>4, <2>1 DEF sec_alloc, TypeOK
    <2> QED BY <1>1, <2>1, <2>2, <2>3, OneThread DEF TypeOK
  <1>5. CASE sec_dalloc(t)
    <2>1. PICK s \in sec_shard_pick(t), e \in out :
            /\ pick' = [pick EXCEPT ![t] = s]
            /\ out' = out \ {e}
            /\ Goto(t, Call(FirstTry, "dalloc", SizeOf[e], s, << e >>))
      BY <1>5 DEF sec_dalloc
    <2> DEFINE r == Call(FirstTry, "dalloc", SizeOf[e], s, << e >>)
    <2>2. e \in Extents /\ SizeOf[e] \in Sizes
      BY <1>1, SecAssumption DEF TypeOK
    <2>3. /\ << e >> \in Seq(Extents) /\ Len(<< e >>) = 1
          /\ \A i \in DOMAIN << e >> : << e >>[i] = e
      BY <2>2
    <2>4. r \in Registers /\ GoodRegisters(r)
      BY <1>2, <1>3, <2>2, <2>3, CallGood
    <2>5. /\ bins' = bins /\ mtx' = mtx /\ base' = base /\ out' \subseteq Extents
          /\ pick' \in [Threads -> Shards \union {NShards}]
      BY <1>1, <1>2, <1>5, <2>1 DEF sec_dalloc, TypeOK
    <2> QED BY <1>1, <2>1, <2>4, <2>5, OneThread DEF TypeOK
  <1>6. CASE sec_flush(t)
    <2> DEFINE r == Call("block", "flush", 1, 0, << >>)
    <2>1. r \in Registers /\ GoodRegisters(r)
      BY <1>0, CallGood
    <2>2. /\ bins' = bins /\ mtx' = mtx /\ base' = base /\ out' = out
          /\ pick' = pick /\ Goto(t, r)
      BY <1>6 DEF sec_flush
    <2> QED BY <1>1, <2>1, <2>2, OneThread DEF TypeOK
  <1>7. CASE sec_trim(t)
    <2> DEFINE r == Call("try", "trim", 1, 0, << >>)
    <2>1. r \in Registers /\ GoodRegisters(r)
      BY <1>0, <1>7, CallGood DEF sec_trim
    <2>2. /\ bins' = bins /\ mtx' = mtx /\ base' = base /\ out' = out
          /\ pick' = pick /\ Goto(t, r)
      BY <1>7 DEF sec_trim
    <2> QED BY <1>1, <2>1, <2>2, OneThread DEF TypeOK
  <1> QED BY <1>4, <1>5, <1>6, <1>7

\* A bin is locked, or not.
LEMMA LockInv ==
    ASSUME SecInv, NEW t \in Threads, Lock(t) \/ TrylockFails(t)
    PROVE  SecInv'
  <1> DEFINE r == th[t]
  <1>1. TypeOK /\ r \in Registers /\ GoodRegisters(r)
    BY DEF SecInv, TypeOK
  <1>2. CASE Lock(t)
    <2> DEFINE s == [r EXCEPT !.pc = "locked", !.last = r.pc = "block"]
    <2>1. r.pc \in {"try", "block"}
      BY <1>2 DEF Lock
    <2>2. s \in Registers /\ GoodRegisters(s)
      <3>1. s \in Registers
        BY <1>1 DEF Registers
      <3>2. s.op = r.op /\ s.list = r.list /\ s.size = r.size /\ s.n = r.n
        BY <1>1 DEF Registers
      <3> HIDE DEF s, r
      <3> QED BY <1>1, <2>1, <3>1, <3>2 DEF GoodRegisters, Walks
    <2>3. CurBin(r) \in Bins
      BY <1>1, <2>1, CurBinIn
    <2>4. /\ bins' = bins /\ mtx' = [mtx EXCEPT ![CurBin(r)] = t] /\ out' = out
          /\ base' = base /\ pick' = pick /\ Goto(t, s)
      BY <1>2 DEF Lock
    <2>5. mtx' \in [Bins -> Threads \union {Nobody}]
      BY <1>1, <2>3, <2>4 DEF TypeOK
    <2> HIDE DEF s, r
    <2> QED BY <1>1, <2>2, <2>4, <2>5, OneThread DEF TypeOK
  <1>3. CASE TrylockFails(t)
    <2>1. NextBin(r) \in Registers /\ GoodRegisters(NextBin(r))
      <3>1. r.pc = "try"
        BY <1>3 DEF TrylockFails
      <3> HIDE DEF r
      <3> QED BY <1>1, <3>1, NextBinGood DEF GoodRegisters
    <2>2. /\ bins' = bins /\ mtx' = mtx /\ out' = out
          /\ base' = base /\ pick' = pick /\ Goto(t, NextBin(r))
      BY <1>3 DEF TrylockFails
    <2> HIDE DEF r
    <2> QED BY <1>1, <2>1, <2>2, OneThread DEF TypeOK
  <1> QED BY <1>2, <1>3

\* A bin is unlocked.
LEMMA UnlockType ==
    ASSUME TypeOK, NEW b \in Bins, Unlock(b)
    PROVE  mtx' \in [Bins -> Threads \union {Nobody}]
  BY DEF TypeOK, Unlock

\* A list does not matter once the bin is left for good.
LEMMA ReturnGood ==
    ASSUME NEW r \in Registers, GoodRegisters(r), NEW list \in Seq(Extents),
           NEW pc \in {"miss", "return"}
    PROVE  LET s == [r EXCEPT !.pc = pc, !.list = list]
           IN  s \in Registers /\ GoodRegisters(s)
  <1> DEFINE s == [r EXCEPT !.pc = pc, !.list = list]
  <1>1. s \in Registers /\ s.op = r.op /\ s.pc = pc
    BY DEF Registers
  <1> HIDE DEF s
  <1>2. GoodRegisters(s)
    BY <1>1 DEF GoodRegisters
  <1> QED BY <1>1, <1>2 DEF s

LEMMA AllocInv ==
    ASSUME SecInv, NEW t \in Threads, AllocLocked(t)
    PROVE  SecInv'
  <1> DEFINE r == th[t]
             b == CurBin(r)
             fl == bins[b].freelist
  <1>1. /\ TypeOK /\ r \in Registers /\ GoodRegisters(r)
        /\ r.pc = "locked" /\ r.op = "alloc"
        /\ Unlock(b) /\ base' = base /\ pick' = pick
    BY DEF SecInv, TypeOK, AllocLocked
  <1>2. b \in Bins /\ b[2] = r.size /\ r.size \in Sizes
    <2> HIDE DEF r
    <2> QED BY <1>1, CurBinIn DEF Walks, Registers
  <1>3. GoodBin(bins[b], r.size)
    BY <1>2 DEF SecInv
  <1>4. mtx' \in [Bins -> Threads \union {Nobody}]
    BY <1>1, <1>2, UnlockType
  <1>5. CASE /\ fl # << >>
             /\ bins' = [bins EXCEPT ![b] = sec_bin_alloc_locked(@, r.size)]
             /\ out' = out \union {Head(fl)}
             /\ Goto(t, Idle)
    <2> DEFINE c == sec_bin_alloc_locked(bins[b], r.size)
    <2>1. GoodBin(c, r.size)
      BY <1>2, <1>3, <1>5, AllocGood
    <2>2. bins' = [bins EXCEPT ![b] = c]
      BY <1>5
    <2>3. fl \in Seq(Extents)
      BY <1>3 DEF GoodBin, Bin
    <2>4. Head(fl) \in Extents
      <3> HIDE DEF fl
      <3> QED BY <1>5, <2>3
    <2>5. out' \subseteq Extents
      BY <1>1, <1>5, <2>4 DEF TypeOK
    <2> HIDE DEF c, b, r, fl
    <2>6. \E a \in Bins, d \in Bin : bins' = [bins EXCEPT ![a] = d] /\ GoodBin(d, a[2])
      BY <1>2, <2>1, <2>2, GoodIsBin
    <2>7. Goto(t, Idle) /\ base' \subseteq Extents
          /\ pick' \in [Threads -> Shards \union {NShards}]
      BY <1>1, <1>5 DEF TypeOK
    <2> QED BY <1>4, <2>5, <2>6, <2>7, IdleGood, OneThread
  <1>6. CASE /\ fl = << >>
             /\ Goto(t, IF r.last THEN [r EXCEPT !.pc = "miss"] ELSE NextBin(r))
             /\ UNCHANGED << bins, out >>
    <2> DEFINE s == IF r.last THEN [r EXCEPT !.pc = "miss"] ELSE NextBin(r)
    <2> HIDE DEF r
    <2>1. CASE r.last
      <3>1. s = [r EXCEPT !.pc = "miss"]
        BY <2>1
      <3>2. s \in Registers /\ s.op = r.op /\ s.pc = "miss"
        BY <1>1, <3>1 DEF Registers
      <3> HIDE DEF s
      <3>3. GoodRegisters(s)
        BY <1>1, <3>2 DEF GoodRegisters
      <3> QED BY <1>1, <1>4, <1>6, <3>2, <3>3, OneThread DEF TypeOK, s
    <2>2. CASE ~r.last
      <3>1. s = NextBin(r)
        BY <2>2
      <3>2. s \in Registers /\ GoodRegisters(s)
        BY <1>1, <3>1, NextBinGood
      <3> HIDE DEF s
      <3> QED BY <1>1, <1>4, <1>6, <3>2, OneThread DEF TypeOK, s
    <2> QED BY <2>1, <2>2
  <1> QED BY <1>5, <1>6 DEF AllocLocked

LEMMA AllocBehindInv ==
    ASSUME SecInv, NEW t \in Threads, AllocBehind(t)
    PROVE  SecInv'
  <1> DEFINE r == th[t]
  <1>1. /\ TypeOK /\ r \in Registers /\ GoodRegisters(r)
        /\ bins' = bins /\ mtx' = mtx /\ pick' = pick
    BY DEF SecInv, TypeOK, AllocBehind
  <1>k. PICK k \in 0 .. (MaxFill + 1) :
          \E s \in [1 .. k -> {e \in base : SizeOf[e] = r.size}] :
          /\ base' = base \ Rng(s)
          /\ out' = out \union Rng(SubSeq(s, 1, Least(k, 1)))
          /\ Goto(t, IF k <= 1 THEN Idle
                     ELSE [r EXCEPT !.pc = "block", !.op = "fill",
                                    !.cur = r.shard, !.list = Tail(s)])
    BY DEF AllocBehind
  <1>2. PICK s \in [1 .. k -> {e \in base : SizeOf[e] = r.size}] :
          /\ base' = base \ Rng(s)
          /\ out' = out \union Rng(SubSeq(s, 1, Least(k, 1)))
          /\ Goto(t, IF k <= 1 THEN Idle
                     ELSE [r EXCEPT !.pc = "block", !.op = "fill",
                                    !.cur = r.shard, !.list = Tail(s)])
    BY <1>k
  <1>3. /\ k \in Nat /\ s \in Seq(Extents) /\ Len(s) = k
        /\ \A i \in 1 .. k : SizeOf[s[i]] = r.size
    BY <1>1, SecAssumption DEF TypeOK
  <1>4. base' \subseteq Extents
    BY <1>1, <1>2 DEF TypeOK
  <1>5. out' \subseteq Extents
    <2>1. SubSeq(s, 1, Least(k, 1)) \in Seq(Extents)
      BY <1>3 DEF Least
    <2> QED BY <1>1, <1>2, <2>1 DEF TypeOK, Rng
  <1>6. CASE k <= 1
    <2>1. Goto(t, Idle)
      BY <1>2, <1>6
    <2> QED BY <1>1, <1>4, <1>5, <2>1, IdleGood, OneThread DEF TypeOK
  <1>7. CASE ~(k <= 1)
    <2> DEFINE u == [r EXCEPT !.pc = "block", !.op = "fill",
                              !.cur = r.shard, !.list = Tail(s)]
    <2>1. /\ Tail(s) \in Seq(Extents) /\ Len(Tail(s)) = k - 1
          /\ \A i \in DOMAIN Tail(s) : SizeOf[Tail(s)[i]] = r.size
      BY <1>3, <1>7
    <2>2. u \in Registers /\ u.op = "fill" /\ u.list = Tail(s) /\ u.size = r.size
      BY <1>1, <2>1 DEF Registers
    <2>3. Goto(t, u)
      BY <1>2, <1>7
    <2> HIDE DEF u, r
    <2>4. GoodRegisters(u)
      BY <2>1, <2>2 DEF GoodRegisters, Walks
    <2> QED BY <1>1, <1>4, <1>5, <2>2, <2>3, <2>4, OneThread DEF TypeOK
  <1> QED BY <1>6, <1>7

LEMMA FillInv ==
    ASSUME SecInv, NEW t \in Threads, FillLocked(t)
    PROVE  SecInv'
  <1> DEFINE r == th[t]
             b == CurBin(r)
             k == FillCount(bins[b], r.list, r.size)
             rest == SubSeq(r.list, k + 1, Len(r.list))
             c == sec_fill_locked(bins[b], r.list, r.size)
             s == [r EXCEPT !.pc = "return", !.list = rest]
  <1>1. /\ TypeOK /\ r \in Registers /\ GoodRegisters(r)
        /\ r.pc = "locked" /\ r.op = "fill"
        /\ Unlock(b) /\ base' = base /\ pick' = pick /\ out' = out
        /\ bins' = [bins EXCEPT ![b] = c]
    BY DEF SecInv, TypeOK, FillLocked
  <1>2. Goto(t, s)
    BY <1>1 DEF FillLocked, Registers
  <1>3. b \in Bins /\ b[2] = r.size /\ r.size \in Sizes /\ r.list \in Seq(Extents)
        /\ \A i \in DOMAIN r.list : SizeOf[r.list[i]] = r.size
    <2> HIDE DEF r
    <2> QED BY <1>1, CurBinIn DEF Walks, Registers, GoodRegisters
  <1>4. GoodBin(bins[b], r.size)
    BY <1>3 DEF SecInv
  <1>5. mtx' \in [Bins -> Threads \union {Nobody}]
    BY <1>1, <1>3, UnlockType
  <1>6. GoodBin(c, r.size)
    BY <1>3, <1>4, FillGood
  <1>7. k \in 0 .. Len(r.list)
    BY <1>3, <1>4, FillCountBound
  <1> HIDE DEF c, k, b, r
  <1>8. rest \in Seq(Extents)
    BY <1>3, <1>7
  <1>9. s \in Registers /\ GoodRegisters(s)
    BY <1>1, <1>8, ReturnGood
  <1>10. \E a \in Bins, d \in Bin : bins' = [bins EXCEPT ![a] = d] /\ GoodBin(d, a[2])
    BY <1>1, <1>3, <1>6, GoodIsBin
  <1> HIDE DEF s
  <1> QED BY <1>1, <1>2, <1>5, <1>9, <1>10, OneThread DEF TypeOK

LEMMA DallocInv ==
    ASSUME SecInv, NEW t \in Threads, DallocLocked(t)
    PROVE  SecInv'
  <1> DEFINE r == th[t]
             b == CurBin(r)
             e == Head(r.list)
             in == Inserted(bins[b], e, r.size)
             k == DallocExcess(in, r.size)
             c == sec_bin_dalloc_locked(bins[b], e, r.size)
             s == [r EXCEPT !.pc = "return", !.list = Dropped(in, k)]
  <1>1. /\ TypeOK /\ r \in Registers /\ GoodRegisters(r)
        /\ r.pc = "locked" /\ r.op = "dalloc"
        /\ Unlock(b) /\ base' = base /\ pick' = pick /\ out' = out
        /\ bins' = [bins EXCEPT ![b] = c] /\ Goto(t, s)
    BY DEF SecInv, TypeOK, DallocLocked
  <1>2. b \in Bins /\ b[2] = r.size /\ r.size \in Sizes
        /\ r.list \in Seq(Extents) /\ Len(r.list) = 1
        /\ \A i \in DOMAIN r.list : SizeOf[r.list[i]] = r.size
    <2> HIDE DEF r
    <2> QED BY <1>1, CurBinIn DEF Walks, Registers, GoodRegisters
  <1>3. e \in Extents /\ SizeOf[e] = r.size
    <2> HIDE DEF r
    <2> QED BY <1>2
  <1>4. GoodBin(bins[b], r.size)
    BY <1>2 DEF SecInv
  <1>5. mtx' \in [Bins -> Threads \union {Nobody}]
    BY <1>1, <1>2, UnlockType
  <1> HIDE DEF r, b, e
  <1>6. GoodBin(c, r.size) /\ k \in 0 .. Len(in.freelist)
    BY <1>2, <1>3, <1>4, DallocGood
  <1>7. in \in Bin
    BY <1>2, <1>3, <1>4, InsertedGood
  <1> HIDE DEF c, k, in
  <1>8. Dropped(in, k) \in Seq(Extents)
    BY <1>6, <1>7, DroppedType
  <1>9. s \in Registers /\ GoodRegisters(s)
    BY <1>1, <1>8, ReturnGood
  <1>10. \E a \in Bins, d \in Bin : bins' = [bins EXCEPT ![a] = d] /\ GoodBin(d, a[2])
    BY <1>1, <1>2, <1>6, GoodIsBin
  <1> HIDE DEF s
  <1> QED BY <1>1, <1>5, <1>9, <1>10, OneThread DEF TypeOK

\* The walks of sec_flush and sec_trim.
LEMMA WalkGood ==
    ASSUME NEW r \in Registers, GoodRegisters(r), Walks(r), NEW list \in Seq(Extents)
    PROVE  LET s == NextBin([r EXCEPT !.list = r.list \o list])
           IN  s \in Registers /\ GoodRegisters(s)
  <1> DEFINE u == [r EXCEPT !.list = r.list \o list]
  <1>1. r.list \o list \in Seq(Extents)
    BY ConcatType DEF Registers
  <1>2. u \in Registers /\ u.op = r.op
    BY <1>1 DEF Registers
  <1> HIDE DEF u
  <1>3. NextBin(u) \in Registers /\ GoodRegisters(NextBin(u))
    BY <1>2, NextBinGood DEF GoodRegisters, Walks
  <1> QED BY <1>3 DEF u

LEMMA WalkInv ==
    ASSUME SecInv, NEW t \in Threads, FlushLocked(t) \/ TrimLocked(t)
    PROVE  SecInv'
  <1> DEFINE r == th[t]
             b == CurBin(r)
  <1>1. /\ TypeOK /\ r \in Registers /\ GoodRegisters(r) /\ Walks(r)
        /\ r.pc = "locked" /\ r.list \in Seq(Extents)
        /\ Unlock(b) /\ base' = base /\ pick' = pick /\ out' = out
    BY DEF SecInv, TypeOK, FlushLocked, TrimLocked, Walks, Registers
  <1>2. b \in Bins /\ b[2] \in Sizes
    <2> HIDE DEF r
    <2> QED BY <1>1, CurBinIn DEF Bins
  <1>3. GoodBin(bins[b], b[2]) /\ bins[b].freelist \in Seq(Extents) /\ bins[b] \in Bin
    BY <1>2 DEF SecInv, GoodBin, Bin
  <1>4. mtx' \in [Bins -> Threads \union {Nobody}]
    BY <1>1, <1>2, UnlockType
  <1>5. CASE FlushLocked(t)
    <2> DEFINE s == NextBin([r EXCEPT !.list = r.list \o bins[b].freelist])
    <2>1. bins' = [bins EXCEPT ![b] = EmptyBin] /\ Goto(t, s)
      BY <1>1, <1>5 DEF FlushLocked, Registers
    <2> HIDE DEF r, b
    <2>2. s \in Registers /\ GoodRegisters(s)
      BY <1>1, <1>3, WalkGood
    <2> HIDE DEF s
    <2>3. GoodBin(EmptyBin, b[2])
      BY <1>2, EmptyGood
    <2>4. \E a \in Bins, d \in Bin : bins' = [bins EXCEPT ![a] = d] /\ GoodBin(d, a[2])
      BY <1>2, <2>1, <2>3, GoodIsBin
    <2> QED BY <1>1, <1>4, <2>1, <2>2, <2>4, OneThread DEF TypeOK
  <1>6. CASE TrimLocked(t)
    <2> DEFINE k == TrimCount(bins[b], b[2])
               c == sec_trim_locked(bins[b], b[2])
               s == NextBin([r EXCEPT !.list = r.list \o Dropped(bins[b], k)])
    <2>1. bins' = [bins EXCEPT ![b] = c] /\ Goto(t, s) /\ r.op = "trim"
      BY <1>1, <1>6 DEF TrimLocked, Registers
    <2> HIDE DEF r, b
    <2>2. Trim
      BY <1>1, <2>1 DEF GoodRegisters
    <2>3. k \in 0 .. Len(bins[b].freelist) /\ GoodBin(c, b[2])
      BY <1>2, <1>3, <2>2, TrimGood
    <2> HIDE DEF k, c
    <2>4. Dropped(bins[b], k) \in Seq(Extents)
      BY <1>3, <2>3, DroppedType
    <2>5. s \in Registers /\ GoodRegisters(s)
      BY <1>1, <2>4, WalkGood
    <2> HIDE DEF s
    <2>6. \E a \in Bins, d \in Bin : bins' = [bins EXCEPT ![a] = d] /\ GoodBin(d, a[2])
      BY <1>2, <2>1, <2>3, GoodIsBin
    <2> QED BY <1>1, <1>4, <2>1, <2>5, <2>6, OneThread DEF TypeOK
  <1> QED BY <1>5, <1>6

LEMMA DallocBehindInv ==
    ASSUME SecInv, NEW t \in Threads, DallocBehind(t)
    PROVE  SecInv'
  <1>1. TypeOK /\ th[t].list \in Seq(Extents)
    BY DEF SecInv, TypeOK, Registers
  <1>2. base' \subseteq Extents
    BY <1>1 DEF DallocBehind, TypeOK, Rng
  <1> QED BY <1>1, <1>2, IdleGood, OneThread DEF DallocBehind, TypeOK

LEMMA SecInvNext == SecInv /\ [Next]_vars => SecInv'
  <1> SUFFICES ASSUME SecInv, [Next]_vars PROVE SecInv'
    OBVIOUS
  <1>1. CASE UNCHANGED vars
    BY <1>1 DEF SecInv, TypeOK, vars
  <1>2. ASSUME NEW t \in Threads,
               sec_alloc(t) \/ sec_dalloc(t) \/ sec_flush(t) \/ sec_trim(t)
        PROVE  SecInv'
    BY <1>2, CallInv
  <1>3. ASSUME NEW t \in Threads, Step(t) PROVE SecInv'
    BY <1>3, LockInv, AllocInv, AllocBehindInv, FillInv, DallocInv, WalkInv,
       DallocBehindInv DEF Step
  <1> QED BY <1>1, <1>2, <1>3 DEF Next

\* The counters, bounds and registers of the cache stay consistent under any
\* interleaving of allocation, deallocation, fill, flush and trim.
THEOREM SecInvariant == Spec => []SecInv
  BY SecInvInit, SecInvNext, PTL DEF Spec

\* Every variable keeps its type: the walk over the bins never leaves the array
\* and the shard index always wraps around.
THEOREM SecTypeCorrect == Spec => []TypeOK
  <1>1. SecInv => TypeOK
    BY DEF SecInv
  <1> QED BY <1>1, SecInvariant, PTL

\* bytes_cur is always what the freelist holds.
THEOREM SecBytesExact == Spec => []BytesExact
  <1>1. SecInv => BytesExact
    BY DEF SecInv, BytesExact, GoodBin
  <1> QED BY <1>1, SecInvariant, PTL

\* No bin ever holds more than max_bytes.
THEOREM SecBytesBounded == Spec => []BytesBounded
  <1>1. SecInv => BytesBounded
    BY DEF SecInv, BytesBounded, GoodBin
  <1> QED BY <1>1, SecInvariant, PTL

\* The assertion of sec_trim about the low-water mark never fails.
THEOREM SecLowWaterSafe == Spec => []LowWaterSafe
  <1>1. SecInv => LowWaterSafe
    BY DEF SecInv, LowWaterSafe, GoodBin
  <1> QED BY <1>1, SecInvariant, PTL

LEMMA FlushedBelowStep ==
    ASSUME SecInv, NEW t \in Threads, DallocLocked(t), th'[t].list # << >>
    PROVE  bins'[CurBin(th[t])].bytes <= MaxBytes - (MaxBytes \div 4)
  <1> DEFINE r == th[t]
             b == CurBin(r)
             e == Head(r.list)
             in == Inserted(bins[b], e, r.size)
             k == DallocExcess(in, r.size)
             c == sec_bin_dalloc_locked(bins[b], e, r.size)
  <1>1. /\ TypeOK /\ r \in Registers /\ GoodRegisters(r)
        /\ r.pc = "locked" /\ r.op = "dalloc"
        /\ bins' = [bins EXCEPT ![b] = c]
        /\ Goto(t, [r EXCEPT !.pc = "return", !.list = Dropped(in, k)])
    BY DEF SecInv, TypeOK, DallocLocked
  <1>2. b \in Bins /\ b[2] = r.size /\ r.size \in Sizes
        /\ r.list \in Seq(Extents) /\ Len(r.list) = 1
        /\ \A i \in DOMAIN r.list : SizeOf[r.list[i]] = r.size
    <2> HIDE DEF r
    <2> QED BY <1>1, CurBinIn DEF Walks, Registers, GoodRegisters
  <1>3. e \in Extents /\ SizeOf[e] = r.size
    <2> HIDE DEF r
    <2> QED BY <1>2
  <1>4. GoodBin(bins[b], r.size)
    BY <1>2 DEF SecInv
  <1>5. th'[t].list = Dropped(in, k)
    <2> HIDE DEF k, in
    <2> QED BY <1>1 DEF Goto, TypeOK, Registers
  <1>6. bins'[b] = c
    <2> HIDE DEF b, c
    <2> QED BY <1>1, <1>2 DEF TypeOK
  <1> HIDE DEF r, b, e
  <1>7. /\ in.bytes <= MaxBytes => k = 0
        /\ in.bytes > MaxBytes => c.bytes <= MaxBytes - (MaxBytes \div 4)
    BY <1>2, <1>3, <1>4, DallocGood
  <1>8. in \in Bin
    BY <1>2, <1>3, <1>4, InsertedGood
  <1> HIDE DEF c, k, in
  <1>9. k # 0
    <2>1. k = 0 => Dropped(in, k) = << >>
      BY DEF Dropped
    <2> QED BY <1>5, <2>1
  <1>10. in.bytes > MaxBytes
    BY <1>7, <1>8, <1>9, SecAssumption DEF Bin
  <1> QED BY <1>6, <1>7, <1>10 DEF b, r

\* The step that flushes an overfull bin leaves at most three quarters of
\* max_bytes in it.
THEOREM SecFlushedBelow == Spec => FlushedBelow
  <1>1. SecInv /\ [Next]_vars =>
          [\A t \in Threads :
              DallocLocked(t) /\ th'[t].list # << >> =>
              bins'[CurBin(th[t])].bytes <= MaxBytes - (MaxBytes \div 4)]_vars
    BY FlushedBelowStep
  <1> QED BY <1>1, SecInvariant, PTL DEF Spec, FlushedBelow

-----------------------------------------------------------------------------
(* What lists hold *)

LEMMA RngEmpty == Rng(<< >>) = {} /\ Distinct(<< >>)
  BY DEF Rng, Distinct

LEMMA RngConcat ==
    ASSUME NEW s \in Seq(Extents), NEW u \in Seq(Extents)
    PROVE  /\ Rng(s \o u) = Rng(s) \union Rng(u)
           /\ Distinct(s) /\ Distinct(u) /\ Rng(s) \cap Rng(u) = {} => Distinct(s \o u)
  <1> DEFINE c == s \o u
  <1>1. /\ Len(s) \in Nat /\ Len(u) \in Nat
        /\ DOMAIN s = 1 .. Len(s) /\ DOMAIN u = 1 .. Len(u)
        /\ DOMAIN c = 1 .. (Len(s) + Len(u))
        /\ \A i \in 1 .. Len(s) : c[i] = s[i]
        /\ \A i \in 1 .. (Len(s) + Len(u)) : i > Len(s) => c[i] = u[i - Len(s)]
    OBVIOUS
  <1>2. \A i \in 1 .. Len(u) : c[Len(s) + i] = u[i]
    BY <1>1
  <1> HIDE DEF c
  <1>3. Rng(c) \subseteq Rng(s) \union Rng(u)
    <2> SUFFICES ASSUME NEW i \in DOMAIN c PROVE c[i] \in Rng(s) \union Rng(u)
      BY DEF Rng
    <2>1. CASE i \in 1 .. Len(s)
      BY <1>1, <2>1 DEF Rng
    <2>2. CASE i > Len(s)
      <3>1. i - Len(s) \in DOMAIN u /\ c[i] = u[i - Len(s)]
        BY <1>1, <2>2
      <3> QED BY <3>1 DEF Rng
    <2> QED BY <1>1, <2>1, <2>2
  <1>4. Rng(s) \subseteq Rng(c)
    BY <1>1 DEF Rng
  <1>5. Rng(u) \subseteq Rng(c)
    <2> SUFFICES ASSUME NEW i \in DOMAIN u PROVE u[i] \in Rng(c)
      BY DEF Rng
    <2>1. Len(s) + i \in DOMAIN c /\ c[Len(s) + i] = u[i]
      BY <1>1, <1>2
    <2> QED BY <2>1 DEF Rng
  <1>6. ASSUME Distinct(s), Distinct(u), Rng(s) \cap Rng(u) = {}
        PROVE  Distinct(c)
    <2> SUFFICES ASSUME NEW i \in DOMAIN c, NEW j \in DOMAIN c, c[i] = c[j]
                 PROVE  i = j
      BY DEF Distinct
    <2>1. CASE i <= Len(s) /\ j <= Len(s)
      BY <1>1, <1>6, <2>1 DEF Distinct
    <2>2. CASE i > Len(s) /\ j > Len(s)
      <3>1. /\ i - Len(s) \in DOMAIN u /\ c[i] = u[i - Len(s)]
            /\ j - Len(s) \in DOMAIN u /\ c[j] = u[j - Len(s)]
        BY <1>1, <2>2
      <3>2. i - Len(s) = j - Len(s)
        BY <1>6, <3>1 DEF Distinct
      <3> QED BY <1>1, <3>2
    <2>3. ASSUME NEW a \in DOMAIN c, NEW b \in DOMAIN c, a <= Len(s), b > Len(s)
          PROVE  c[a] # c[b]
      <3>1. b - Len(s) \in DOMAIN u /\ c[b] = u[b - Len(s)]
        BY <1>1, <2>3
      <3>2. a \in DOMAIN s /\ c[a] = s[a]
        BY <1>1, <2>3
      <3> QED BY <1>6, <3>1, <3>2 DEF Rng
    <2> QED BY <1>1, <2>1, <2>2, <2>3
  <1> QED BY <1>3, <1>4, <1>5, <1>6 DEF c

\* Two parts of a list have nothing in common.
LEMMA RngSplit ==
    ASSUME NEW s \in Seq(Extents), NEW k \in 0 .. Len(s)
    PROVE  LET a == SubSeq(s, 1, k)
               z == SubSeq(s, k + 1, Len(s))
           IN  /\ a \in Seq(Extents) /\ z \in Seq(Extents)
               /\ Len(a) = k /\ Len(z) = Len(s) - k
               /\ s = a \o z /\ Rng(s) = Rng(a) \union Rng(z)
               /\ Distinct(s) => Distinct(a) /\ Distinct(z) /\ Rng(a) \cap Rng(z) = {}
  <1> DEFINE a == SubSeq(s, 1, k)
             z == SubSeq(s, k + 1, Len(s))
  <1>1. /\ a \in Seq(Extents) /\ z \in Seq(Extents)
        /\ Len(a) = k /\ Len(z) = Len(s) - k /\ Len(s) \in Nat
        /\ DOMAIN a = 1 .. k /\ DOMAIN z = 1 .. (Len(s) - k) /\ DOMAIN s = 1 .. Len(s)
        /\ \A i \in 1 .. k : a[i] = s[i]
        /\ \A i \in 1 .. (Len(s) - k) : z[i] = s[k + i]
    OBVIOUS
  <1> HIDE DEF a, z
  <1>2. s = a \o z
    <2>0. a \o z \in Seq(Extents) /\ Len(a \o z) = Len(a) + Len(z)
      BY <1>1, ConcatType
    <2>1. a \o z \in Seq(Extents) /\ Len(a \o z) = Len(s)
      BY <1>1, <2>0
    <2>2. ASSUME NEW i \in 1 .. Len(s) PROVE (a \o z)[i] = s[i]
      <3>1. CASE i <= k
        BY <1>1, <3>1
      <3>2. CASE i > k
        <4>1. (a \o z)[i] = z[i - k]
          BY <1>1, <3>2
        <4>2. i - k \in 1 .. (Len(s) - k) /\ k + (i - k) = i
          BY <1>1, <3>2
        <4> QED BY <1>1, <4>1, <4>2
      <3> QED BY <1>1, <3>1, <3>2
    <2> DEFINE c == a \o z
    <2>3. c \in Seq(Extents) /\ Len(c) = Len(s) /\ \A i \in 1 .. Len(s) : c[i] = s[i]
      BY <2>1, <2>2
    <2> HIDE DEF c
    <2>4. c = s
      BY <2>3
    <2> QED BY <2>4 DEF c
  <1>3. Rng(s) = Rng(a) \union Rng(z)
    BY <1>1, <1>2, RngConcat
  <1>4. ASSUME Distinct(s) PROVE Distinct(a) /\ Distinct(z) /\ Rng(a) \cap Rng(z) = {}
    <2>1. Distinct(a)
      BY <1>1, <1>4 DEF Distinct
    <2>2. Distinct(z)
      <3> SUFFICES ASSUME NEW i \in DOMAIN z, NEW j \in DOMAIN z, z[i] = z[j]
                   PROVE  i = j
        BY DEF Distinct
      <3>1. k + i \in DOMAIN s /\ k + j \in DOMAIN s /\ s[k + i] = s[k + j]
        BY <1>1
      <3> QED BY <1>1, <1>4, <3>1 DEF Distinct
    <2>3. ASSUME NEW i \in DOMAIN a, NEW j \in DOMAIN z PROVE a[i] # z[j]
      <3>1. i \in DOMAIN s /\ k + j \in DOMAIN s /\ i # k + j
            /\ a[i] = s[i] /\ z[j] = s[k + j]
        BY <1>1
      <3> QED BY <1>4, <3>1 DEF Distinct
    <2> QED BY <2>1, <2>2, <2>3 DEF Rng
  <1> QED BY <1>1, <1>2, <1>3, <1>4 DEF a, z

\* The extents dropped are those of the tail, in another order.
LEMMA RngDropped ==
    ASSUME NEW b \in Bin, NEW k \in 0 .. Len(b.freelist)
    PROVE  LET fl == b.freelist
               z == SubSeq(fl, Len(fl) - k + 1, Len(fl))
           IN  /\ Rng(Dropped(b, k)) = Rng(z)
               /\ Distinct(fl) => Distinct(Dropped(b, k))
  <1> DEFINE fl == b.freelist
             n == Len(fl)
             z == SubSeq(fl, n - k + 1, n)
             d == Dropped(b, k)
  <1>1. fl \in Seq(Extents) /\ n \in Nat /\ k \in 0 .. n
    BY DEF Bin
  <1>2. DOMAIN d = 1 .. k /\ \A i \in 1 .. k : d[i] = fl[n + 1 - i]
    BY <1>1 DEF Dropped
  <1>3. DOMAIN z = 1 .. k /\ \A i \in 1 .. k : z[i] = fl[n - k + i]
    <2> HIDE DEF fl
    <2> QED BY <1>1
  <1>4. DOMAIN fl = 1 .. n
    BY <1>1
  <1> HIDE DEF fl, n, z, d
  <1>5. Rng(d) \subseteq Rng(z)
    <2> SUFFICES ASSUME NEW i \in 1 .. k PROVE d[i] \in Rng(z)
      BY <1>2 DEF Rng
    <2>1. k + 1 - i \in 1 .. k /\ n - k + (k + 1 - i) = n + 1 - i
      BY <1>1
    <2>2. d[i] = z[k + 1 - i]
      BY <1>2, <1>3, <2>1
    <2> QED BY <1>3, <2>1, <2>2 DEF Rng
  <1>6. Rng(z) \subseteq Rng(d)
    <2> SUFFICES ASSUME NEW i \in 1 .. k PROVE z[i] \in Rng(d)
      BY <1>3 DEF Rng
    <2>1. k + 1 - i \in 1 .. k /\ n + 1 - (k + 1 - i) = n - k + i
      BY <1>1
    <2>2. z[i] = d[k + 1 - i]
      BY <1>2, <1>3, <2>1
    <2> QED BY <1>2, <2>1, <2>2 DEF Rng
  <1>7. ASSUME Distinct(fl) PROVE Distinct(d)
    <2> SUFFICES ASSUME NEW i \in 1 .. k, NEW j \in 1 .. k, d[i] = d[j] PROVE i = j
      BY <1>2 DEF Distinct
    <2>1. /\ n + 1 - i \in DOMAIN fl /\ n + 1 - j \in DOMAIN fl
          /\ fl[n + 1 - i] = fl[n + 1 - j]
      BY <1>1, <1>2, <1>4
    <2> QED BY <1>1, <1>7, <2>1 DEF Distinct
  <1> QED BY <1>5, <1>6, <1>7 DEF fl, n, z, d

LEMMA RngCardinality ==
    ASSUME NEW s \in Seq(Extents), Distinct(s)
    PROVE  Cardinality(Rng(s)) = Len(s)
  <1>1. Len(s) \in Nat /\ DOMAIN s = 1 .. Len(s)
    OBVIOUS
  <1>2. s \in [1 .. Len(s) -> Rng(s)]
    BY <1>1 DEF Rng
  <1>a. s \in Injection(1 .. Len(s), Rng(s))
    BY <1>1, <1>2 DEF Injection, IsInjective, Distinct
  <1>b. s \in Surjection(1 .. Len(s), Rng(s))
    BY <1>1, <1>2 DEF Surjection, Rng
  <1>3. s \in Bijection(1 .. Len(s), Rng(s))
    BY <1>a, <1>b DEF Bijection
  <1>4. ExistsBijection(1 .. Len(s), Rng(s))
    BY <1>3 DEF ExistsBijection
  <1>5. IsFiniteSet(1 .. Len(s)) /\ Cardinality(1 .. Len(s)) = Len(s)
    BY <1>1, FS_Interval
  <1> QED BY <1>4, <1>5, FS_Bijection

-----------------------------------------------------------------------------
(* Pinned pages *)

LEMMA PinnedConcat ==
    ASSUME NEW s \in Seq(Extents), NEW u \in Seq(Extents), NEW size \in Nat
    PROVE  PinnedPages(s \o u, size) = PinnedPages(s, size) + PinnedPages(u, size)
  <1> DEFINE c == s \o u
             m == Len(s)
             n == Len(u)
             S == {i \in DOMAIN s : s[i] \in Pinned}
             U == {i \in DOMAIN u : u[i] \in Pinned}
             C == {i \in DOMAIN c : c[i] \in Pinned}
             V == {i \in DOMAIN c : i > m /\ c[i] \in Pinned}
             f == [i \in U |-> m + i]
  <1>1. /\ m \in Nat /\ n \in Nat
        /\ DOMAIN s = 1 .. m /\ DOMAIN u = 1 .. n /\ DOMAIN c = 1 .. (m + n)
        /\ \A i \in 1 .. m : c[i] = s[i]
        /\ \A i \in 1 .. (m + n) : i > m => c[i] = u[i - m]
    OBVIOUS
  <1> HIDE DEF c, m, n
  <1>2. C = S \union V /\ S \cap V = {}
    BY <1>1
  <1>3. IsFiniteSet(S) /\ IsFiniteSet(U) /\ IsFiniteSet(V)
    <2>1. IsFiniteSet(1 .. m) /\ IsFiniteSet(1 .. n) /\ IsFiniteSet(1 .. (m + n))
      BY <1>1, FS_Interval
    <2>2. S \subseteq 1 .. m /\ U \subseteq 1 .. n /\ V \subseteq 1 .. (m + n)
      BY <1>1
    <2> HIDE DEF S, U, V
    <2> QED BY <2>1, <2>2, FS_Subset
  <1>4. \A i \in U : m + i \in V
    <2> SUFFICES ASSUME NEW i \in 1 .. n, u[i] \in Pinned PROVE m + i \in V
      BY <1>1
    <2>1. m + i \in 1 .. (m + n) /\ m + i > m /\ (m + i) - m = i
      BY <1>1
    <2> QED BY <1>1, <2>1
  <1>5. \A j \in V : j - m \in U /\ m + (j - m) = j
    BY <1>1
  <1>6. f \in [U -> V]
    BY <1>4
  <1>7. f \in Injection(U, V)
    <2>1. \A i, j \in U : f[i] = f[j] => i = j
      BY <1>1
    <2> HIDE DEF f, U, V
    <2> QED BY <1>6, <2>1 DEF Injection, IsInjective
  <1>8. f \in Surjection(U, V)
    <2>1. \A j \in V : \E i \in U : f[i] = j
      BY <1>5
    <2> HIDE DEF f, U, V
    <2> QED BY <1>6, <2>1 DEF Surjection
  <1> HIDE DEF S, U, V, C, f
  <1>9. Cardinality(V) = Cardinality(U)
    <2>1. ExistsBijection(U, V)
      BY <1>7, <1>8 DEF Bijection, ExistsBijection
    <2> QED BY <1>3, <2>1, FS_Bijection
  <1>10. Cardinality(C) = Cardinality(S) + Cardinality(U)
    <2>1. Cardinality(S \union V) =
            Cardinality(S) + Cardinality(V) - Cardinality(S \cap V)
      BY <1>3, FS_Union
    <2>2. Cardinality(S) \in Nat /\ Cardinality(U) \in Nat
      BY <1>3, FS_CardinalityType
    <2>3. Cardinality(S \cap V) = 0
      BY <1>2, FS_EmptySet
    <2>4. Cardinality(C) = Cardinality(S) + Cardinality(U) - 0
      BY <1>2, <1>9, <2>1, <2>3
    <2> QED BY <2>2, <2>4
  <1>11. Cardinality(S) \in Nat /\ Cardinality(U) \in Nat
    BY <1>3, FS_CardinalityType
  <1>12. size * (Cardinality(S) + Cardinality(U)) =
           size * Cardinality(S) + size * Cardinality(U)
    BY <1>11
  <1> QED BY <1>10, <1>12 DEF PinnedPages, S, U, C, c

LEMMA PinnedEmpty == \A size \in Nat : PinnedPages(<< >>, size) = 0
  <1>1. {i \in DOMAIN << >> : << >>[i] \in Pinned} = {}
    OBVIOUS
  <1> QED BY <1>1, FS_EmptySet DEF PinnedPages

-----------------------------------------------------------------------------
(* Extents that change hands *)

\* Extents move among the places of A only.
LEMMA Moved ==
    ASSUME NEW C, NEW D, NEW A \in SUBSET Places, Apart(C),
           \A p \in Places \ A : D[p] = C[p],
           \A p \in A : \A e \in D[p] : \E q \in A : e \in C[q],
           \A q \in A : \A e \in C[q] : \E p \in A : e \in D[p],
           \A p, q \in A : p # q => D[p] \cap D[q] = {}
    PROVE  Apart(D)
  <1>1. ASSUME NEW p \in Places, NEW q \in Places, p # q PROVE D[p] \cap D[q] = {}
    <2>1. CASE p \in A /\ q \in A
      BY <1>1, <2>1
    <2>2. ASSUME NEW x \in A, NEW y \in Places \ A PROVE D[x] \cap D[y] = {}
      <3> SUFFICES ASSUME NEW e \in D[x], e \in D[y] PROVE FALSE
        OBVIOUS
      <3>1. PICK z \in A : e \in C[z]
        OBVIOUS
      <3>2. e \in C[y] /\ y # z
        BY <2>2
      <3> QED BY <2>2, <3>1, <3>2 DEF Apart
    <2>3. CASE p \notin A /\ q \notin A
      BY <1>1, <2>3 DEF Apart
    <2> QED BY <2>1, <2>2, <2>3
  <1>2. ASSUME NEW e \in Extents PROVE \E p \in Places : e \in D[p]
    <2>1. PICK q \in Places : e \in C[q]
      BY DEF Apart
    <2> QED BY <2>1
  <1> QED BY <1>1, <1>2 DEF Apart

LEMMA OwnedAt ==
    /\ /\ Owned[<< "out", 0 >>] = out /\ Owned[<< "base", 0 >>] = base
       /\ \A b \in Bins : Owned[<< "bin", b >>] = Free(b)
       /\ \A t \in Threads : Owned[<< "thread", t >>] = Hands(t)
    /\ /\ Owned'[<< "out", 0 >>] = out' /\ Owned'[<< "base", 0 >>] = base'
       /\ \A b \in Bins : Owned'[<< "bin", b >>] = Free(b)'
       /\ \A t \in Threads : Owned'[<< "thread", t >>] = Hands(t)'
    /\ << "out", 0 >> \in Places /\ << "base", 0 >> \in Places
    /\ \A b \in Bins : << "bin", b >> \in Places
    /\ \A t \in Threads : << "thread", t >> \in Places
    /\ \A p \in Places : \/ p = << "out", 0 >> \/ p = << "base", 0 >>
                         \/ \E b \in Bins : p = << "bin", b >>
                         \/ \E t \in Threads : p = << "thread", t >>
  <1>1. /\ << "out", 0 >> \in Places /\ << "base", 0 >> \in Places
        /\ \A b \in Bins : << "bin", b >> \in Places
        /\ \A t \in Threads : << "thread", t >> \in Places
    BY DEF Places
  <1>2. \A p \in Places : \/ p = << "out", 0 >> \/ p = << "base", 0 >>
                          \/ \E b \in Bins : p = << "bin", b >>
                          \/ \E t \in Threads : p = << "thread", t >>
    BY DEF Places
  <1>3. /\ Owned[<< "out", 0 >>] = out /\ Owned[<< "base", 0 >>] = base
        /\ \A b \in Bins : Owned[<< "bin", b >>] = Free(b)
        /\ \A t \in Threads : Owned[<< "thread", t >>] = Hands(t)
    BY <1>1 DEF Owned
  <1>4. /\ Owned'[<< "out", 0 >>] = out' /\ Owned'[<< "base", 0 >>] = base'
        /\ \A b \in Bins : Owned'[<< "bin", b >>] = Free(b)'
        /\ \A t \in Threads : Owned'[<< "thread", t >>] = Hands(t)'
    BY <1>1 DEF Owned
  <1> QED BY <1>1, <1>2, <1>3, <1>4

\* The four places that a step of thread t at bin b concerns.
LEMMA OldApart ==
    ASSUME OwnerInv, NEW t \in Threads, NEW b \in Bins
    PROVE  /\ out \cap base = {} /\ out \cap Free(b) = {} /\ out \cap Hands(t) = {}
           /\ base \cap Free(b) = {} /\ base \cap Hands(t) = {}
           /\ Free(b) \cap Hands(t) = {}
  <1> DEFINE o == << "out", 0 >>
             h == << "base", 0 >>
             f == << "bin", b >>
             g == << "thread", t >>
  <1>1. o # h /\ o # f /\ o # g /\ h # f /\ h # g /\ f # g
    OBVIOUS
  <1>2. o \in Places /\ h \in Places /\ f \in Places /\ g \in Places
    BY OwnedAt
  <1>3. Owned[o] = out /\ Owned[h] = base /\ Owned[f] = Free(b) /\ Owned[g] = Hands(t)
    BY OwnedAt
  <1> HIDE DEF o, h, f, g
  <1>4. \A p, q \in Places : p # q => Owned[p] \cap Owned[q] = {}
    BY DEF OwnerInv, Apart
  <1> QED BY <1>1, <1>2, <1>3, <1>4

\* A step of thread t that changes its registers to r and the bin b to c, and moves
\* extents among the bin, the thread, the application and the base allocator.
LEMMA OwnerStep ==
    ASSUME SecInv, OwnerInv, NEW t \in Threads, NEW b \in Bins,
           NEW r \in Registers, NEW c \in Bin,
           Goto(t, r), bins' = [bins EXCEPT ![b] = c],
           Distinct(c.freelist), Distinct(r.list), EmptyHanded(r),
           c.pinned = PinnedPages(c.freelist, b[2]),
           out' \union base' \union Rng(c.freelist) \union Rng(r.list) =
             out \union base \union Free(b) \union Hands(t),
           out' \cap base' = {}, out' \cap Rng(c.freelist) = {},
           out' \cap Rng(r.list) = {}, base' \cap Rng(c.freelist) = {},
           base' \cap Rng(r.list) = {}, Rng(c.freelist) \cap Rng(r.list) = {}
    PROVE  OwnerInv'
  <1> DEFINE o == << "out", 0 >>
             h == << "base", 0 >>
             f == << "bin", b >>
             g == << "thread", t >>
             A == {o, h, f, g}
             C == Owned
             D == Owned'
  <1>1. /\ bins' \in [Bins -> Bin] /\ bins'[b] = c
        /\ \A a \in Bins : a # b => bins'[a] = bins[a]
        /\ th'[t] = r /\ \A u \in Threads : u # t => th'[u] = th[u]
    BY DEF SecInv, TypeOK, Goto
  <1>2. o \in Places /\ h \in Places /\ f \in Places /\ g \in Places
    BY OwnedAt
  <1>3. C[o] = out /\ C[h] = base /\ C[f] = Free(b) /\ C[g] = Hands(t)
    BY OwnedAt
  <1>4. D[o] = out' /\ D[h] = base' /\ D[f] = Rng(c.freelist) /\ D[g] = Rng(r.list)
    BY <1>1, OwnedAt DEF Free, Hands
  <1>5. ASSUME NEW p \in Places \ A PROVE D[p] = C[p]
    <2>1. CASE \E a \in Bins : p = << "bin", a >>
      <3>1. PICK a \in Bins : p = << "bin", a >>
        BY <2>1
      <3>2. a # b
        BY <3>1
      <3> QED BY <1>1, <3>1, <3>2, OwnedAt DEF Free
    <2>2. CASE \E u \in Threads : p = << "thread", u >>
      <3>1. PICK u \in Threads : p = << "thread", u >>
        BY <2>2
      <3>2. u # t
        BY <3>1
      <3>3. Hands(u)' = Hands(u)
        BY <1>1, <3>2 DEF Hands
      <3>4. D[p] = Hands(u)' /\ C[p] = Hands(u)
        BY <3>1, OwnedAt
      <3> QED BY <3>3, <3>4
    <2> QED BY <2>1, <2>2, OwnedAt
  <1>6. Apart(C)
    BY DEF OwnerInv
  <1> HIDE DEF o, h, f, g, C, D
  <1>5a. D[o] \union D[h] \union D[f] \union D[g] = C[o] \union C[h] \union C[f] \union C[g]
    BY <1>3, <1>4
  <1>7. \A p \in A : \A e \in D[p] : \E q \in A : e \in C[q]
    BY ONLY <1>5a
  <1>8. \A q \in A : \A e \in C[q] : \E p \in A : e \in D[p]
    BY ONLY <1>5a
  <1>9. \A p, q \in A : p # q => D[p] \cap D[q] = {}
    <2>1. /\ D[o] \cap D[h] = {} /\ D[o] \cap D[f] = {} /\ D[o] \cap D[g] = {}
          /\ D[h] \cap D[f] = {} /\ D[h] \cap D[g] = {} /\ D[f] \cap D[g] = {}
      BY <1>4
    <2>2. \A p, q : D[p] \cap D[q] = {} => D[q] \cap D[p] = {}
      OBVIOUS
    <2> QED BY ONLY <2>1, <2>2
  <1>10. Apart(D)
    <2>1. A \in SUBSET Places
      BY <1>2
    <2> HIDE DEF A
    <2>2. \A p \in Places \ A : D[p] = C[p]
      BY <1>5
    <2> QED BY ONLY <1>6, <1>7, <1>8, <1>9, <2>1, <2>2, Moved, Zenon
  <1>11. Apart(Owned)'
    BY <1>10 DEF D, Apart
  <1>12. \A a \in Bins : Distinct(bins'[a].freelist)
    BY <1>1 DEF OwnerInv
  <1>13. \A u \in Threads : Distinct(th'[u].list) /\ EmptyHanded(th'[u])
    BY <1>1 DEF OwnerInv
  <1>14. PinnedExact'
    BY <1>1 DEF OwnerInv, PinnedExact
  <1> QED BY <1>11, <1>12, <1>13, <1>14 DEF OwnerInv, Distinct, EmptyHanded

\* The same, when no bin changes.
LEMMA OwnerStepNoBin ==
    ASSUME SecInv, OwnerInv, NEW t \in Threads, NEW r \in Registers,
           Goto(t, r), bins' = bins, Distinct(r.list), EmptyHanded(r),
           out' \union base' \union Rng(r.list) = out \union base \union Hands(t),
           out' \cap base' = {}, out' \cap Rng(r.list) = {},
           base' \cap Rng(r.list) = {}
    PROVE  OwnerInv'
  <1> DEFINE b == << 0, 1 >>
  <1>1. b \in Bins
    BY SecAssumption DEF Bins, Shards, Sizes
  <1> HIDE DEF b
  <1>2. bins[b] \in Bin /\ bins' = [bins EXCEPT ![b] = bins[b]]
    BY <1>1 DEF SecInv, TypeOK
  <1>3. Distinct(bins[b].freelist) /\ bins[b].pinned = PinnedPages(bins[b].freelist, b[2])
    BY <1>1 DEF OwnerInv, PinnedExact
  <1>4. /\ out \cap base = {} /\ out \cap Free(b) = {} /\ out \cap Hands(t) = {}
        /\ base \cap Free(b) = {} /\ base \cap Hands(t) = {}
        /\ Free(b) \cap Hands(t) = {}
    BY <1>1, OldApart
  <1>5. Free(b) = Rng(bins[b].freelist)
    BY DEF Free
  <1>6. /\ out' \cap Free(b) = {} /\ base' \cap Free(b) = {} /\ Free(b) \cap Rng(r.list) = {}
    BY <1>4
  <1>7. out' \union base' \union Free(b) \union Rng(r.list) =
          out \union base \union Free(b) \union Hands(t)
    OBVIOUS
  <1> QED BY <1>1, <1>2, <1>3, <1>5, <1>6, <1>7, OwnerStep

LEMMA OwnerInit == Init => OwnerInv
  <1> SUFFICES ASSUME Init PROVE OwnerInv
    OBVIOUS
  <1>1. \A b \in Bins : bins[b] = EmptyBin
    BY DEF Init
  <1>2. \A t \in Threads : th[t] = Idle
    BY DEF Init
  <1>3. EmptyBin.freelist = << >> /\ EmptyBin.pinned = 0 /\ Idle.list = << >>
    BY DEF EmptyBin, Idle, Call
  <1>4. \A b \in Bins : Free(b) = {}
    BY <1>1, <1>3, RngEmpty DEF Free
  <1>5. \A t \in Threads : Hands(t) = {}
    BY <1>2, <1>3, RngEmpty DEF Hands
  <1>6. Owned[<< "base", 0 >>] = Extents /\ << "base", 0 >> \in Places
    BY OwnedAt DEF Init
  <1>7. \A p \in Places : p # << "base", 0 >> => Owned[p] = {}
    <2>1. Owned[<< "out", 0 >>] = {}
      BY OwnedAt DEF Init
    <2>2. \A b \in Bins : Owned[<< "bin", b >>] = {}
      BY <1>4, OwnedAt
    <2>3. \A t \in Threads : Owned[<< "thread", t >>] = {}
      BY <1>5, OwnedAt
    <2> QED BY <2>1, <2>2, <2>3, OwnedAt
  <1>8. Apart(Owned)
    BY <1>6, <1>7 DEF Apart
  <1>9. \A b \in Bins : Distinct(bins[b].freelist)
    BY <1>1, <1>3, RngEmpty
  <1>10. \A t \in Threads : Distinct(th[t].list) /\ EmptyHanded(th[t])
    BY <1>2, <1>3, RngEmpty DEF EmptyHanded
  <1>11. PinnedExact
    <2>1. \A b \in Bins : b[2] \in Nat
      BY DEF Bins, Sizes
    <2> QED BY <1>1, <1>3, <2>1, PinnedEmpty DEF PinnedExact
  <1> QED BY <1>8, <1>9, <1>10, <1>11 DEF OwnerInv

\* A call takes at most one extent into its hands.
LEMMA OwnerCall ==
    ASSUME SecInv, OwnerInv, NEW t \in Threads,
           sec_alloc(t) \/ sec_dalloc(t) \/ sec_flush(t) \/ sec_trim(t)
    PROVE  OwnerInv'
  <1>0. 1 \in Sizes /\ 0 \in Shards /\ << >> \in Seq(Extents)
    BY SecAssumption DEF Sizes, Shards
  <1>1. /\ th[t].pc = "idle" /\ th[t].list = << >>
        /\ out \cap base = {} /\ TypeOK
    <2>1. << 0, 1 >> \in Bins
      BY <1>0 DEF Bins
    <2>2. th[t].pc = "idle"
      BY DEF sec_alloc, sec_dalloc, sec_flush, sec_trim
    <2>3. EmptyHanded(th[t])
      BY DEF OwnerInv
    <2> QED BY <2>1, <2>2, <2>3, OldApart DEF EmptyHanded, SecInv
  <1>2. Hands(t) = {}
    BY <1>1, RngEmpty DEF Hands
  <1>3. sec_shard_pick(t) \subseteq Shards
    BY DEF sec_shard_pick
  <1>4. FirstTry \in {"idle", "try", "block"}
    BY DEF FirstTry
  <1>5. ASSUME NEW r \in Registers, r.list = << >>, Goto(t, r),
               bins' = bins, out' = out, base' = base
        PROVE  OwnerInv'
    BY <1>1, <1>2, <1>5, RngEmpty, OwnerStepNoBin DEF EmptyHanded
  <1>6. CASE sec_alloc(t)
    <2>1. PICK s \in sec_shard_pick(t), z \in Sizes :
            Goto(t, Call(FirstTry, "alloc", z, s, << >>))
      BY <1>6 DEF sec_alloc
    <2> DEFINE r == Call(FirstTry, "alloc", z, s, << >>)
    <2>2. r \in Registers
      BY <1>0, <1>3, <1>4, CallGood
    <2>3. r.list = << >> /\ bins' = bins /\ out' = out /\ base' = base
      BY <1>6 DEF Call, sec_alloc
    <2> QED BY <1>5, <2>1, <2>2, <2>3
  <1>7. CASE sec_dalloc(t)
    <2>1. PICK s \in sec_shard_pick(t), e \in out :
            /\ out' = out \ {e}
            /\ Goto(t, Call(FirstTry, "dalloc", SizeOf[e], s, << e >>))
      BY <1>7 DEF sec_dalloc
    <2> DEFINE r == Call(FirstTry, "dalloc", SizeOf[e], s, << e >>)
    <2>2. e \in Extents /\ SizeOf[e] \in Sizes
      BY <1>1, SecAssumption DEF TypeOK
    <2>3. /\ << e >> \in Seq(Extents) /\ Len(<< e >>) = 1
          /\ \A i \in DOMAIN << e >> : << e >>[i] = e
      BY <2>2
    <2>4. r \in Registers
      BY <1>3, <1>4, <2>2, <2>3, CallGood
    <2>5. r.list = << e >> /\ r.op = "dalloc" /\ r.pc \in {"try", "block"}
      BY DEF Call, FirstTry
    <2>6. Rng(<< e >>) = {e} /\ Distinct(<< e >>)
      BY DEF Rng, Distinct
    <2>7. EmptyHanded(r)
      BY <2>5 DEF EmptyHanded
    <2>8. bins' = bins /\ base' = base
      BY <1>7 DEF sec_dalloc
    <2> HIDE DEF r
    <2>9. /\ out' \union base' \union Rng(r.list) = out \union base \union Hands(t)
          /\ out' \cap base' = {} /\ out' \cap Rng(r.list) = {}
          /\ base' \cap Rng(r.list) = {} /\ Distinct(r.list)
      BY <1>1, <1>2, <2>1, <2>5, <2>6, <2>8
    <2> QED BY <2>1, <2>4, <2>7, <2>8, <2>9, OwnerStepNoBin DEF r
  <1>8. CASE sec_flush(t)
    <2> DEFINE r == Call("block", "flush", 1, 0, << >>)
    <2>1. r \in Registers /\ r.list = << >>
      BY <1>0, CallGood DEF Call
    <2> QED BY <1>5, <1>8, <2>1 DEF sec_flush
  <1>9. CASE sec_trim(t)
    <2> DEFINE r == Call("try", "trim", 1, 0, << >>)
    <2>1. r \in Registers /\ r.list = << >>
      BY <1>0, <1>9, CallGood DEF Call, sec_trim
    <2> QED BY <1>5, <1>9, <2>1 DEF sec_trim
  <1> QED BY <1>6, <1>7, <1>8, <1>9

\* NextBin keeps the call and its list.
LEMMA NextBinList ==
    ASSUME NEW r \in Registers
    PROVE  /\ NextBin(r).list = r.list /\ NextBin(r).op = r.op
           /\ NextBin(r).pc \in {"try", "block", "return"}
  <1>1. CASE Walks(r)
    BY <1>1 DEF NextBin, Registers
  <1>2. CASE ~Walks(r)
    BY <1>2 DEF NextBin, Registers
  <1> QED BY <1>1, <1>2

\* A step that moves nothing.
LEMMA OwnerStays ==
    ASSUME SecInv, OwnerInv, NEW t \in Threads, NEW r \in Registers, Goto(t, r),
           r.list = th[t].list, EmptyHanded(r), bins' = bins, out' = out, base' = base
    PROVE  OwnerInv'
  <1>0. << 0, 1 >> \in Bins
    BY SecAssumption DEF Bins, Shards, Sizes
  <1>1. /\ out \cap base = {} /\ out \cap Hands(t) = {} /\ base \cap Hands(t) = {}
    BY <1>0, OldApart
  <1>2. Rng(r.list) = Hands(t) /\ Distinct(r.list)
    BY DEF Hands, OwnerInv
  <1> QED BY <1>1, <1>2, OwnerStepNoBin

LEMMA OwnerLock ==
    ASSUME SecInv, OwnerInv, NEW t \in Threads, Lock(t) \/ TrylockFails(t)
    PROVE  OwnerInv'
  <1> DEFINE r == th[t]
  <1>1. TypeOK /\ r \in Registers /\ GoodRegisters(r) /\ EmptyHanded(r)
    BY DEF SecInv, TypeOK, OwnerInv
  <1>2. CASE Lock(t)
    <2> DEFINE s == [r EXCEPT !.pc = "locked", !.last = r.pc = "block"]
    <2>1. r.pc \in {"try", "block"}
      BY <1>2 DEF Lock
    <2>2. /\ s \in Registers /\ s.op = r.op /\ s.list = r.list /\ s.pc = "locked"
      BY <1>1 DEF Registers
    <2>3. bins' = bins /\ out' = out /\ base' = base /\ Goto(t, s)
      BY <1>2 DEF Lock
    <2> HIDE DEF s
    <2>4. EmptyHanded(s)
      BY <1>1, <2>2 DEF EmptyHanded
    <2> QED BY <2>2, <2>3, <2>4, OwnerStays
  <1>3. CASE TrylockFails(t)
    <2>1. NextBin(r) \in Registers
      <3>1. r.pc = "try"
        BY <1>3 DEF TrylockFails
      <3> HIDE DEF r
      <3> QED BY <1>1, <3>1, NextBinGood DEF GoodRegisters
    <2>2. bins' = bins /\ out' = out /\ base' = base /\ Goto(t, NextBin(r))
      BY <1>3 DEF TrylockFails
    <2>3. NextBin(r).list = r.list /\ EmptyHanded(NextBin(r))
      BY <1>1, NextBinList DEF EmptyHanded
    <2> QED BY <2>1, <2>2, <2>3, OwnerStays
  <1> QED BY <1>2, <1>3

\* What leaves the head of a list.
LEMMA HeadApart ==
    ASSUME NEW s \in Seq(Extents), s # << >>
    PROVE  /\ Tail(s) \in Seq(Extents) /\ Tail(s) = SubSeq(s, 2, Len(s))
           /\ Rng(SubSeq(s, 1, 1)) = {Head(s)} /\ 1 \in 0 .. Len(s)
           /\ Rng(s) = {Head(s)} \union Rng(Tail(s))
           /\ Distinct(s) => Distinct(Tail(s)) /\ Head(s) \notin Rng(Tail(s))
  <1> DEFINE a == SubSeq(s, 1, 1)
             z == SubSeq(s, 1 + 1, Len(s))
  <1>1. 1 \in 0 .. Len(s) /\ Tail(s) \in Seq(Extents) /\ 1 + 1 = 2
    OBVIOUS
  <1>2. z = Tail(s)
    OBVIOUS
  <1>3. DOMAIN a = {1} /\ a[1] = Head(s)
    OBVIOUS
  <1>4. Rng(a) = {Head(s)}
    BY <1>3 DEF Rng
  <1>5. /\ Rng(s) = Rng(a) \union Rng(z)
        /\ Distinct(s) => Distinct(z) /\ Rng(a) \cap Rng(z) = {}
    BY <1>1, RngSplit
  <1> HIDE DEF a, z
  <1> QED BY <1>1, <1>2, <1>4, <1>5 DEF a, z

LEMMA AllocPlaces ==
    ASSUME NEW b \in Bin, NEW size \in Nat, b.freelist # << >>,
           Distinct(b.freelist), b.pinned = PinnedPages(b.freelist, size)
    PROVE  LET c == sec_bin_alloc_locked(b, size)
               fl == b.freelist
           IN  /\ Distinct(c.freelist) /\ c.pinned = PinnedPages(c.freelist, size)
               /\ Rng(fl) = {Head(fl)} \union Rng(c.freelist)
               /\ Head(fl) \notin Rng(c.freelist)
  <1> DEFINE c == sec_bin_alloc_locked(b, size)
             fl == b.freelist
             a == SubSeq(fl, 1, 1)
  <1>1. fl \in Seq(Extents)
    BY DEF Bin
  <1>2. c.freelist = Tail(fl) /\ c.pinned = b.pinned - PinnedPages(a, size)
    BY DEF sec_bin_alloc_locked
  <1> HIDE DEF c, fl, a
  <1>3. /\ Tail(fl) \in Seq(Extents) /\ Tail(fl) = SubSeq(fl, 2, Len(fl))
        /\ Rng(fl) = {Head(fl)} \union Rng(Tail(fl)) /\ 1 \in 0 .. Len(fl)
        /\ Distinct(Tail(fl)) /\ Head(fl) \notin Rng(Tail(fl))
    BY <1>1, HeadApart DEF fl
  <1>4. a \in Seq(Extents) /\ fl = a \o SubSeq(fl, 1 + 1, Len(fl))
    BY <1>1, <1>3, RngSplit DEF a
  <1>5. fl = a \o Tail(fl)
    BY <1>3, <1>4
  <1>6. PinnedPages(fl, size) = PinnedPages(a, size) + PinnedPages(Tail(fl), size)
    BY <1>3, <1>4, <1>5, PinnedConcat
  <1>7. PinnedPages(a, size) \in Nat /\ PinnedPages(Tail(fl), size) \in Nat
    BY <1>3, <1>4, PinnedPagesType
  <1>8. c.pinned = PinnedPages(Tail(fl), size)
    BY <1>2, <1>6, <1>7 DEF fl
  <1> QED BY <1>2, <1>3, <1>8 DEF c, fl

LEMMA DropPlaces ==
    ASSUME NEW b \in Bin, NEW size \in Nat, NEW k \in 0 .. Len(b.freelist),
           Distinct(b.freelist), b.pinned = PinnedPages(b.freelist, size)
    PROVE  LET d == Drop(b, size, k)
               gone == Dropped(b, k)
           IN  /\ Distinct(d.freelist) /\ d.pinned = PinnedPages(d.freelist, size)
               /\ Distinct(gone)
               /\ Rng(b.freelist) = Rng(d.freelist) \union Rng(gone)
               /\ Rng(d.freelist) \cap Rng(gone) = {}
  <1> DEFINE fl == b.freelist
             n == Len(fl)
             keep == n - k
             a == SubSeq(fl, 1, keep)
             z == SubSeq(fl, keep + 1, n)
             d == Drop(b, size, k)
             l == Dropped(b, k)
  <1>1. fl \in Seq(Extents) /\ n \in Nat /\ keep \in 0 .. n /\ keep + k = n
    BY DEF Bin
  <1>2. d.freelist = a /\ d.pinned = b.pinned - PinnedPages(z, size)
    BY <1>1 DEF Drop
  <1>3. Rng(l) = Rng(z) /\ Distinct(l)
    BY RngDropped
  <1> HIDE DEF fl, n, keep, d, l
  <1>4. /\ a \in Seq(Extents) /\ z \in Seq(Extents)
        /\ fl = a \o z /\ Rng(fl) = Rng(a) \union Rng(z)
        /\ Distinct(a) /\ Distinct(z) /\ Rng(a) \cap Rng(z) = {}
    BY <1>1, RngSplit DEF n, fl
  <1> HIDE DEF a, z
  <1>5. PinnedPages(fl, size) = PinnedPages(a, size) + PinnedPages(z, size)
    BY <1>4, PinnedConcat
  <1>6. PinnedPages(a, size) \in Nat /\ PinnedPages(z, size) \in Nat
    BY <1>4, PinnedPagesType
  <1>7. d.pinned = PinnedPages(a, size)
    BY <1>2, <1>5, <1>6 DEF fl
  <1> QED BY <1>2, <1>3, <1>4, <1>7 DEF d, l, fl

LEMMA InsertPlaces ==
    ASSUME NEW b \in Bin, NEW size \in Nat, NEW e \in Extents,
           Distinct(b.freelist), b.pinned = PinnedPages(b.freelist, size),
           e \notin Rng(b.freelist)
    PROVE  LET in == Inserted(b, e, size)
           IN  /\ Distinct(in.freelist) /\ in.pinned = PinnedPages(in.freelist, size)
               /\ Rng(in.freelist) = {e} \union Rng(b.freelist)
  <1> DEFINE in == Inserted(b, e, size)
             fl == b.freelist
             s == << e >>
  <1>1. fl \in Seq(Extents) /\ s \in Seq(Extents)
    BY DEF Bin
  <1>2. in.freelist = s \o fl /\ in.pinned = b.pinned + PinnedPages(s, size)
    BY DEF Inserted
  <1>3. Rng(s) = {e} /\ Distinct(s)
    BY DEF Rng, Distinct
  <1> HIDE DEF in, fl, s
  <1>4. Rng(s \o fl) = {e} \union Rng(fl) /\ Distinct(s \o fl)
    BY <1>1, <1>3, RngConcat DEF fl
  <1>5. PinnedPages(s \o fl, size) = PinnedPages(s, size) + PinnedPages(fl, size)
    BY <1>1, PinnedConcat
  <1>6. PinnedPages(s, size) \in Nat /\ PinnedPages(fl, size) \in Nat
    BY <1>1, PinnedPagesType
  <1>7. in.pinned = PinnedPages(s \o fl, size)
    BY <1>2, <1>5, <1>6 DEF fl
  <1> QED BY <1>2, <1>4, <1>7 DEF in, fl

LEMMA OwnerAlloc ==
    ASSUME SecInv, OwnerInv, NEW t \in Threads, AllocLocked(t)
    PROVE  OwnerInv'
  <1> DEFINE r == th[t]
             b == CurBin(r)
             fl == bins[b].freelist
  <1>1. /\ TypeOK /\ r \in Registers /\ GoodRegisters(r) /\ EmptyHanded(r)
        /\ r.pc = "locked" /\ r.op = "alloc" /\ base' = base
    BY DEF SecInv, TypeOK, AllocLocked, OwnerInv
  <1>2. r.list = << >> /\ Hands(t) = {}
    BY <1>1, RngEmpty DEF EmptyHanded, Hands
  <1>3. b \in Bins /\ b[2] = r.size /\ r.size \in Sizes /\ r.size \in Nat
    <2> HIDE DEF r
    <2> QED BY <1>1, CurBinIn DEF Walks, Registers, Sizes
  <1>4. GoodBin(bins[b], r.size) /\ bins[b] \in Bin
    BY <1>3 DEF SecInv, GoodBin
  <1>5. Distinct(fl) /\ bins[b].pinned = PinnedPages(fl, r.size)
    BY <1>3 DEF OwnerInv, PinnedExact
  <1>6. /\ out \cap base = {} /\ out \cap Free(b) = {} /\ base \cap Free(b) = {}
        /\ Free(b) = Rng(fl)
    BY <1>3, OldApart DEF Free
  <1>7. CASE /\ fl # << >>
             /\ bins' = [bins EXCEPT ![b] = sec_bin_alloc_locked(@, r.size)]
             /\ out' = out \union {Head(fl)}
             /\ Goto(t, Idle)
    <2> DEFINE c == sec_bin_alloc_locked(bins[b], r.size)
    <2>1. GoodBin(c, r.size)
      BY <1>3, <1>4, <1>7, AllocGood
    <2>2. /\ Distinct(c.freelist) /\ c.pinned = PinnedPages(c.freelist, r.size)
          /\ Rng(fl) = {Head(fl)} \union Rng(c.freelist)
          /\ Head(fl) \notin Rng(c.freelist)
      BY <1>3, <1>4, <1>5, <1>7, AllocPlaces
    <2>3. bins' = [bins EXCEPT ![b] = c]
      BY <1>7
    <2>4. Idle.list = << >> /\ Idle \in Registers
      BY IdleGood DEF Idle, Call
    <2>5. Rng(Idle.list) = {} /\ Distinct(Idle.list) /\ EmptyHanded(Idle)
      BY <2>4, RngEmpty DEF EmptyHanded
    <2> HIDE DEF c, b, r, fl
    <2>6. c \in Bin
      BY <2>1, GoodIsBin
    <2>7. /\ out' \union base' \union Rng(c.freelist) \union Rng(Idle.list) =
               out \union base \union Free(b) \union Hands(t)
          /\ out' \cap base' = {} /\ out' \cap Rng(c.freelist) = {}
          /\ out' \cap Rng(Idle.list) = {} /\ base' \cap Rng(c.freelist) = {}
          /\ base' \cap Rng(Idle.list) = {} /\ Rng(c.freelist) \cap Rng(Idle.list) = {}
      <3>1. base' = base /\ Hands(t) = {} /\ out' = out \union {Head(fl)}
            /\ Rng(Idle.list) = {}
        BY <1>1, <1>2, <1>7, <2>5
      <3>2. out' \union base' \union Rng(c.freelist) \union Rng(Idle.list) =
              out \union base \union Free(b) \union Hands(t)
        BY ONLY <1>6, <2>2, <3>1
      <3>3. out' \cap base' = {} /\ out' \cap Rng(c.freelist) = {}
        BY ONLY <1>6, <2>2, <3>1
      <3>4. base' \cap Rng(c.freelist) = {}
        BY ONLY <1>6, <2>2, <3>1
      <3> QED BY ONLY <3>1, <3>2, <3>3, <3>4
    <2> QED BY <1>3, <1>7, <2>2, <2>3, <2>4, <2>5, <2>6, <2>7, OwnerStep
  <1>8. CASE /\ fl = << >>
             /\ Goto(t, IF r.last THEN [r EXCEPT !.pc = "miss"] ELSE NextBin(r))
             /\ UNCHANGED << bins, out >>
    <2> DEFINE s == IF r.last THEN [r EXCEPT !.pc = "miss"] ELSE NextBin(r)
    <2>0. th[t].list = r.list
      OBVIOUS
    <2> HIDE DEF r
    <2>1. s \in Registers /\ s.list = r.list
      <3>1. CASE r.last
        BY <1>1, <3>1 DEF Registers
      <3>2. CASE ~r.last
        <4>1. NextBin(r) \in Registers /\ NextBin(r).list = r.list
          BY <1>1, NextBinGood, NextBinList
        <4> QED BY <3>2, <4>1
      <3> QED BY <3>1, <3>2
    <2>2. Goto(t, s) /\ bins' = bins /\ out' = out
      BY <1>8
    <2> HIDE DEF s
    <2>3. EmptyHanded(s)
      BY <1>2, <2>1 DEF EmptyHanded
    <2> QED BY <1>1, <2>0, <2>1, <2>2, <2>3, OwnerStays
  <1> QED BY <1>7, <1>8 DEF AllocLocked

LEMMA OwnerAllocBehind ==
    ASSUME SecInv, OwnerInv, NEW t \in Threads, AllocBehind(t)
    PROVE  OwnerInv'
  <1> DEFINE r == th[t]
  <1>0. << 0, 1 >> \in Bins
    BY SecAssumption DEF Bins, Shards, Sizes
  <1>1. /\ TypeOK /\ r \in Registers /\ EmptyHanded(r) /\ r.pc = "miss"
        /\ bins' = bins /\ out \cap base = {}
    BY <1>0, OldApart DEF SecInv, TypeOK, AllocBehind, OwnerInv
  <1>2. Hands(t) = {}
    BY <1>1, RngEmpty DEF EmptyHanded, Hands
  <1>k. PICK k \in 0 .. (MaxFill + 1) :
          \E s \in [1 .. k -> {e \in base : SizeOf[e] = r.size}] :
          /\ \A i, j \in 1 .. k : s[i] = s[j] => i = j
          /\ base' = base \ Rng(s)
          /\ out' = out \union Rng(SubSeq(s, 1, Least(k, 1)))
          /\ Goto(t, IF k <= 1 THEN Idle
                     ELSE [r EXCEPT !.pc = "block", !.op = "fill",
                                    !.cur = r.shard, !.list = Tail(s)])
    BY DEF AllocBehind
  <1>3. PICK s \in [1 .. k -> {e \in base : SizeOf[e] = r.size}] :
          /\ \A i, j \in 1 .. k : s[i] = s[j] => i = j
          /\ base' = base \ Rng(s)
          /\ out' = out \union Rng(SubSeq(s, 1, Least(k, 1)))
          /\ Goto(t, IF k <= 1 THEN Idle
                     ELSE [r EXCEPT !.pc = "block", !.op = "fill",
                                    !.cur = r.shard, !.list = Tail(s)])
    BY <1>k
  <1>4. /\ k \in Nat /\ s \in Seq(Extents) /\ Len(s) = k /\ DOMAIN s = 1 .. k
        /\ Rng(s) \subseteq base
    BY <1>1, SecAssumption DEF TypeOK, Rng
  <1>5. Distinct(s)
    BY <1>3, <1>4 DEF Distinct
  <1>6. CASE k <= 1
    <2>1. Goto(t, Idle)
      BY <1>3, <1>6
    <2>2. SubSeq(s, 1, Least(k, 1)) = s
      BY <1>4, <1>6 DEF Least
    <2>3. Idle.list = << >> /\ Idle \in Registers
      BY IdleGood DEF Idle, Call
    <2>4. Rng(Idle.list) = {} /\ Distinct(Idle.list) /\ EmptyHanded(Idle)
      BY <2>3, RngEmpty DEF EmptyHanded
    <2>5. /\ out' \union base' \union Rng(Idle.list) = out \union base \union Hands(t)
          /\ out' \cap base' = {} /\ out' \cap Rng(Idle.list) = {}
          /\ base' \cap Rng(Idle.list) = {}
      BY <1>1, <1>2, <1>3, <1>4, <2>2, <2>4
    <2> QED BY <1>1, <2>1, <2>3, <2>4, <2>5, OwnerStepNoBin
  <1>7. CASE ~(k <= 1)
    <2> DEFINE u == [r EXCEPT !.pc = "block", !.op = "fill",
                              !.cur = r.shard, !.list = Tail(s)]
    <2>1. s # << >> /\ Least(k, 1) = 1
      BY <1>4, <1>7 DEF Least
    <2>2. /\ Tail(s) \in Seq(Extents) /\ Rng(SubSeq(s, 1, 1)) = {Head(s)}
          /\ Rng(s) = {Head(s)} \union Rng(Tail(s))
          /\ Distinct(Tail(s)) /\ Head(s) \notin Rng(Tail(s))
      BY <1>4, <1>5, <2>1, HeadApart
    <2>3. u \in Registers /\ u.op = "fill" /\ u.list = Tail(s) /\ u.pc = "block"
      BY <1>1, <2>2 DEF Registers
    <2>4. Goto(t, u)
      BY <1>3, <1>7
    <2> HIDE DEF u, r
    <2>5. EmptyHanded(u) /\ Distinct(u.list)
      BY <2>2, <2>3 DEF EmptyHanded
    <2>6. out' = out \union {Head(s)} /\ base' = base \ Rng(s)
      BY <1>3, <2>1, <2>2
    <2>7. /\ out' \union base' \union Rng(u.list) = out \union base \union Hands(t)
          /\ out' \cap base' = {} /\ out' \cap Rng(u.list) = {}
          /\ base' \cap Rng(u.list) = {}
      BY <1>1, <1>2, <1>4, <2>2, <2>3, <2>6
    <2> QED BY <1>1, <2>3, <2>4, <2>5, <2>7, OwnerStepNoBin
  <1> QED BY <1>6, <1>7

LEMMA OwnerFill ==
    ASSUME SecInv, OwnerInv, NEW t \in Threads, FillLocked(t)
    PROVE  OwnerInv'
  <1> DEFINE r == th[t]
             b == CurBin(r)
             fl == bins[b].freelist
             k == FillCount(bins[b], r.list, r.size)
             new == SubSeq(r.list, 1, k)
             rest == SubSeq(r.list, k + 1, Len(r.list))
             c == sec_fill_locked(bins[b], r.list, r.size)
             s == [r EXCEPT !.pc = "return", !.list = rest]
  <1>1. /\ TypeOK /\ r \in Registers /\ GoodRegisters(r)
        /\ r.pc = "locked" /\ r.op = "fill"
        /\ base' = base /\ out' = out /\ bins' = [bins EXCEPT ![b] = c]
        /\ Distinct(r.list) /\ Hands(t) = Rng(r.list)
    BY DEF SecInv, TypeOK, FillLocked, OwnerInv, Hands
  <1>2. Goto(t, s)
    BY <1>1 DEF FillLocked, Registers
  <1>3. /\ b \in Bins /\ b[2] = r.size /\ r.size \in Sizes /\ r.list \in Seq(Extents)
        /\ \A i \in DOMAIN r.list : SizeOf[r.list[i]] = r.size
        /\ r.size \in Nat
    <2> HIDE DEF r
    <2>1. b \in Bins /\ b[2] = r.size
      BY <1>1, CurBinIn DEF Walks
    <2>2. r.size \in Sizes /\ r.list \in Seq(Extents) /\ r.size \in Nat
      BY ONLY <1>1 DEF Registers, Sizes
    <2>3. \A i \in DOMAIN r.list : SizeOf[r.list[i]] = r.size
      BY ONLY <1>1 DEF GoodRegisters, Walks
    <2> QED BY <2>1, <2>2, <2>3
  <1>4. GoodBin(bins[b], r.size) /\ fl \in Seq(Extents)
    BY <1>3 DEF SecInv, GoodBin, Bin
  <1>5. GoodBin(c, r.size)
    BY <1>3, <1>4, FillGood
  <1>6. k \in 0 .. Len(r.list)
    BY <1>3, <1>4, FillCountBound
  <1>7. c.freelist = fl \o new /\ c.pinned = bins[b].pinned + PinnedPages(new, r.size)
    BY DEF sec_fill_locked
  <1>8. Distinct(fl) /\ bins[b].pinned = PinnedPages(fl, r.size)
    BY <1>3 DEF OwnerInv, PinnedExact
  <1>9. /\ out \cap base = {} /\ out \cap Free(b) = {} /\ out \cap Hands(t) = {}
        /\ base \cap Free(b) = {} /\ base \cap Hands(t) = {}
        /\ Free(b) \cap Hands(t) = {} /\ Free(b) = Rng(fl)
    BY <1>3, OldApart DEF Free
  <1>10. s \in Registers /\ s.list = rest /\ s.op = "fill" /\ s.pc = "return"
    <2>1. rest \in Seq(Extents)
      <3> HIDE DEF k
      <3> QED BY <1>3, <1>6
    <2> HIDE DEF rest
    <2> QED BY <1>1, <2>1 DEF Registers
  <1> HIDE DEF r, b, fl, k, c, s
  <1>11. /\ new \in Seq(Extents) /\ rest \in Seq(Extents)
         /\ Rng(r.list) = Rng(new) \union Rng(rest)
         /\ Distinct(new) /\ Distinct(rest) /\ Rng(new) \cap Rng(rest) = {}
    BY <1>1, <1>3, <1>6, RngSplit
  <1> HIDE DEF new, rest
  <1>12. Rng(fl) \cap Rng(new) = {}
    BY <1>1, <1>9, <1>11
  <1>13. Rng(c.freelist) = Rng(fl) \union Rng(new) /\ Distinct(c.freelist)
    <2>1. Distinct(fl) /\ Distinct(new)
      BY <1>8, <1>11
    <2>2. c.freelist = fl \o new /\ fl \in Seq(Extents) /\ new \in Seq(Extents)
      BY <1>4, <1>7, <1>11
    <2> QED BY ONLY <1>12, <2>1, <2>2, RngConcat
  <1>14. c.pinned = PinnedPages(c.freelist, b[2])
    <2>1. PinnedPages(fl \o new, r.size) =
            PinnedPages(fl, r.size) + PinnedPages(new, r.size)
      BY <1>3, <1>4, <1>11, PinnedConcat
    <2> QED BY <1>3, <1>7, <1>8, <2>1
  <1>15. EmptyHanded(s) /\ c \in Bin
    BY <1>5, <1>10, GoodIsBin DEF EmptyHanded
  <1>16. /\ out' \union base' \union Rng(c.freelist) \union Rng(s.list) =
              out \union base \union Free(b) \union Hands(t)
         /\ out' \cap base' = {} /\ out' \cap Rng(c.freelist) = {}
         /\ out' \cap Rng(s.list) = {} /\ base' \cap Rng(c.freelist) = {}
         /\ base' \cap Rng(s.list) = {} /\ Rng(c.freelist) \cap Rng(s.list) = {}
    <2>1. /\ Hands(t) = Rng(new) \union Rng(rest) /\ Rng(s.list) = Rng(rest)
          /\ Free(b) = Rng(fl) /\ out' = out /\ base' = base
          /\ Rng(c.freelist) = Rng(fl) \union Rng(new) /\ Rng(new) \cap Rng(rest) = {}
      BY <1>1, <1>9, <1>10, <1>11, <1>13
    <2>2. out' \union base' \union Rng(c.freelist) \union Rng(s.list) =
            out \union base \union Free(b) \union Hands(t)
      BY ONLY <2>1
    <2>3. /\ out' \cap base' = {} /\ out' \cap Rng(c.freelist) = {}
          /\ out' \cap Rng(s.list) = {}
      BY ONLY <1>9, <2>1
    <2>4. /\ base' \cap Rng(c.freelist) = {} /\ base' \cap Rng(s.list) = {}
          /\ Rng(c.freelist) \cap Rng(s.list) = {}
      BY ONLY <1>9, <2>1
    <2> QED BY ONLY <2>2, <2>3, <2>4
  <1> QED BY <1>1, <1>2, <1>3, <1>10, <1>11, <1>13, <1>14, <1>15, <1>16, OwnerStep

LEMMA OwnerDalloc ==
    ASSUME SecInv, OwnerInv, NEW t \in Threads, DallocLocked(t)
    PROVE  OwnerInv'
  <1> DEFINE r == th[t]
             b == CurBin(r)
             fl == bins[b].freelist
             e == Head(r.list)
             in == Inserted(bins[b], e, r.size)
             k == DallocExcess(in, r.size)
             d == Drop(in, r.size, k)
             l == Dropped(in, k)
             c == sec_bin_dalloc_locked(bins[b], e, r.size)
             s == [r EXCEPT !.pc = "return", !.list = l]
  <1>1. /\ TypeOK /\ r \in Registers /\ GoodRegisters(r)
        /\ r.pc = "locked" /\ r.op = "dalloc"
        /\ base' = base /\ out' = out
        /\ bins' = [bins EXCEPT ![b] = c] /\ Goto(t, s)
        /\ Hands(t) = Rng(r.list)
    BY DEF SecInv, TypeOK, DallocLocked, Hands
  <1>2. b \in Bins /\ b[2] = r.size /\ r.size \in Sizes /\ r.size \in Nat
        /\ r.list \in Seq(Extents) /\ Len(r.list) = 1
        /\ \A i \in DOMAIN r.list : SizeOf[r.list[i]] = r.size
    <2> HIDE DEF r
    <2> QED BY <1>1, CurBinIn DEF Walks, Registers, GoodRegisters, Sizes
  <1>3. e \in Extents /\ SizeOf[e] = r.size /\ Rng(r.list) = {e}
    <2> HIDE DEF r
    <2> QED BY <1>2 DEF Rng
  <1>4. GoodBin(bins[b], r.size) /\ bins[b] \in Bin
    BY <1>2 DEF SecInv, GoodBin
  <1>5. Distinct(fl) /\ bins[b].pinned = PinnedPages(fl, r.size)
    BY <1>2 DEF OwnerInv, PinnedExact
  <1>6. /\ out \cap base = {} /\ out \cap Free(b) = {} /\ out \cap Hands(t) = {}
        /\ base \cap Free(b) = {} /\ base \cap Hands(t) = {}
        /\ Free(b) \cap Hands(t) = {} /\ Free(b) = Rng(fl)
    BY <1>2, OldApart DEF Free
  <1>7. /\ Distinct(in.freelist) /\ in.pinned = PinnedPages(in.freelist, r.size)
        /\ Rng(in.freelist) = {e} \union Rng(fl)
    <2>1. e \notin Rng(fl)
      BY <1>1, <1>3, <1>6
    <2> QED BY <1>2, <1>3, <1>4, <1>5, <2>1, InsertPlaces
  <1> HIDE DEF r, b, e
  <1>8. /\ GoodBin(c, r.size) /\ k \in 0 .. Len(in.freelist)
        /\ in.bytes <= MaxBytes => k = 0
    BY <1>2, <1>3, <1>4, DallocGood
  <1>9. in \in Bin
    BY <1>2, <1>3, <1>4, InsertedGood
  <1>10. \/ c = in /\ k = 0
         \/ c = [d EXCEPT !.low = LowWater(@, d.bytes)]
    BY <1>8 DEF sec_bin_dalloc_locked
  <1> HIDE DEF c, k, in
  <1>11. /\ Distinct(d.freelist) /\ d.pinned = PinnedPages(d.freelist, r.size)
         /\ Distinct(l) /\ Rng(in.freelist) = Rng(d.freelist) \union Rng(l)
         /\ Rng(d.freelist) \cap Rng(l) = {}
    <2>1. /\ r.size \in Nat /\ k \in 0 .. Len(in.freelist) /\ Distinct(in.freelist)
          /\ in.pinned = PinnedPages(in.freelist, r.size)
      BY <1>2, <1>7, <1>8
    <2> QED BY ONLY <1>9, <2>1, DropPlaces
  <1>12. l \in Seq(Extents)
    BY <1>8, <1>9, DroppedType
  <1>13. k = 0 => Rng(l) = {}
    BY DEF Dropped, Rng
  <1>14. DOMAIN d = {"freelist", "bytes", "pinned", "low"}
    BY DEF Drop
  <1> HIDE DEF d, l
  <1>15. /\ Distinct(c.freelist) /\ c.pinned = PinnedPages(c.freelist, r.size)
         /\ Rng(in.freelist) = Rng(c.freelist) \union Rng(l)
         /\ Rng(c.freelist) \cap Rng(l) = {}
    <2>1. CASE c = in /\ k = 0
      BY <1>7, <1>13, <2>1
    <2>2. CASE c = [d EXCEPT !.low = LowWater(@, d.bytes)]
      <3>1. c.freelist = d.freelist /\ c.pinned = d.pinned
        BY <1>14, <2>2
      <3> QED BY <1>11, <3>1
    <2> QED BY <1>10, <2>1, <2>2
  <1>16. s \in Registers /\ s.list = l /\ s.op = "dalloc" /\ s.pc = "return"
    BY <1>1, <1>12 DEF Registers
  <1> HIDE DEF s
  <1>17. EmptyHanded(s) /\ c \in Bin
    BY <1>8, <1>16, GoodIsBin DEF EmptyHanded
  <1>18. /\ out' \union base' \union Rng(c.freelist) \union Rng(s.list) =
              out \union base \union Free(b) \union Hands(t)
         /\ out' \cap base' = {} /\ out' \cap Rng(c.freelist) = {}
         /\ out' \cap Rng(s.list) = {} /\ base' \cap Rng(c.freelist) = {}
         /\ base' \cap Rng(s.list) = {} /\ Rng(c.freelist) \cap Rng(s.list) = {}
    <2>1. Hands(t) = {e} /\ Rng(s.list) = Rng(l) /\ Free(b) = Rng(fl)
          /\ out' = out /\ base' = base
      BY <1>1, <1>3, <1>6, <1>16
    <2>2. /\ Rng(c.freelist) \union Rng(l) = {e} \union Rng(fl)
          /\ Rng(c.freelist) \cap Rng(l) = {}
      BY <1>7, <1>15
    <2>3. /\ out \cap base = {} /\ out \cap Rng(fl) = {} /\ out \cap {e} = {}
          /\ base \cap Rng(fl) = {} /\ base \cap {e} = {}
      BY <1>6, <2>1
    <2>4. out' \union base' \union Rng(c.freelist) \union Rng(s.list) =
            out \union base \union Free(b) \union Hands(t)
      BY ONLY <2>1, <2>2
    <2>5. /\ out' \cap base' = {} /\ out' \cap Rng(c.freelist) = {}
          /\ out' \cap Rng(s.list) = {}
      BY ONLY <2>1, <2>2, <2>3
    <2>6. /\ base' \cap Rng(c.freelist) = {} /\ base' \cap Rng(s.list) = {}
          /\ Rng(c.freelist) \cap Rng(s.list) = {}
      BY ONLY <2>1, <2>2, <2>3
    <2> QED BY ONLY <2>4, <2>5, <2>6
  <1> QED BY <1>1, <1>2, <1>11, <1>15, <1>16, <1>17, <1>18, OwnerStep

LEMMA EmptyBinIs == EmptyBin \in Bin /\ EmptyBin.freelist = << >> /\ EmptyBin.pinned = 0
  BY DEF EmptyBin, Bin

\* A walk adds what a bin gives up to the thread's list.
LEMMA OwnerWalkStep ==
    ASSUME SecInv, OwnerInv, NEW t \in Threads, NEW b \in Bins, NEW c \in Bin,
           NEW l \in Seq(Extents), Walks(th[t]), GoodRegisters(th[t]),
           bins' = [bins EXCEPT ![b] = c], out' = out, base' = base,
           Goto(t, NextBin([th[t] EXCEPT !.list = th[t].list \o l])),
           Distinct(c.freelist), c.pinned = PinnedPages(c.freelist, b[2]),
           Distinct(l), Free(b) = Rng(c.freelist) \union Rng(l),
           Rng(c.freelist) \cap Rng(l) = {}
    PROVE  OwnerInv'
  <1> DEFINE r == th[t]
             u == [r EXCEPT !.list = r.list \o l]
             s == NextBin(u)
  <1>1. r \in Registers /\ Distinct(r.list) /\ Hands(t) = Rng(r.list)
    BY DEF SecInv, TypeOK, OwnerInv, Hands
  <1>2. /\ out \cap base = {} /\ out \cap Free(b) = {} /\ out \cap Hands(t) = {}
        /\ base \cap Free(b) = {} /\ base \cap Hands(t) = {}
        /\ Free(b) \cap Hands(t) = {}
    BY OldApart
  <1>3. s \in Registers
    BY <1>1, WalkGood
  <1>4. Goto(t, s) /\ r.op \in {"flush", "trim"}
    BY DEF Walks
  <1> HIDE DEF r
  <1>5. r.list \in Seq(Extents) /\ r.list \o l \in Seq(Extents)
    BY <1>1, ConcatType DEF Registers
  <1>6. u \in Registers /\ u.list = r.list \o l /\ u.op = r.op
    BY <1>1, <1>5 DEF Registers
  <1>7. Rng(r.list) \cap Rng(l) = {}
    BY <1>1, <1>2
  <1>8. Rng(u.list) = Rng(r.list) \union Rng(l) /\ Distinct(u.list)
    BY <1>1, <1>5, <1>6, <1>7, RngConcat
  <1> HIDE DEF u
  <1>9. s.list = u.list /\ s.op = u.op /\ s.pc \in {"try", "block", "return"}
    BY <1>6, NextBinList
  <1> HIDE DEF s
  <1>10. EmptyHanded(s)
    BY <1>4, <1>6, <1>9 DEF EmptyHanded
  <1>11. /\ out' \union base' \union Rng(c.freelist) \union Rng(s.list) =
              out \union base \union Free(b) \union Hands(t)
         /\ out' \cap base' = {} /\ out' \cap Rng(c.freelist) = {}
         /\ out' \cap Rng(s.list) = {} /\ base' \cap Rng(c.freelist) = {}
         /\ base' \cap Rng(s.list) = {} /\ Rng(c.freelist) \cap Rng(s.list) = {}
    BY <1>1, <1>2, <1>8, <1>9
  <1> QED BY <1>3, <1>4, <1>8, <1>9, <1>10, <1>11, OwnerStep

LEMMA OwnerWalk ==
    ASSUME SecInv, OwnerInv, NEW t \in Threads, FlushLocked(t) \/ TrimLocked(t)
    PROVE  OwnerInv'
  <1> DEFINE r == th[t]
             b == CurBin(r)
             fl == bins[b].freelist
  <1>1. /\ TypeOK /\ r \in Registers /\ GoodRegisters(r) /\ Walks(r)
        /\ r.pc = "locked" /\ base' = base /\ out' = out
    BY DEF SecInv, TypeOK, FlushLocked, TrimLocked, Walks, Registers
  <1>2. b \in Bins /\ b[2] \in Sizes /\ b[2] \in Nat
    <2> HIDE DEF r
    <2> QED BY <1>1, CurBinIn DEF Bins, Sizes
  <1>3. /\ GoodBin(bins[b], b[2]) /\ fl \in Seq(Extents) /\ bins[b] \in Bin
        /\ Distinct(fl) /\ bins[b].pinned = PinnedPages(fl, b[2]) /\ Free(b) = Rng(fl)
    BY <1>2 DEF SecInv, GoodBin, Bin, OwnerInv, PinnedExact, Free
  <1>4. CASE FlushLocked(t)
    <2>1. bins' = [bins EXCEPT ![b] = EmptyBin]
          /\ Goto(t, NextBin([r EXCEPT !.list = r.list \o fl]))
      BY <1>1, <1>4 DEF FlushLocked, Registers
    <2>2. EmptyBin \in Bin /\ EmptyBin.freelist = << >> /\ EmptyBin.pinned = 0
      BY EmptyBinIs
    <2> HIDE DEF fl, b
    <2>3. /\ Distinct(EmptyBin.freelist) /\ Rng(EmptyBin.freelist) = {}
          /\ EmptyBin.pinned = PinnedPages(EmptyBin.freelist, b[2])
      BY <1>2, <2>2, RngEmpty, PinnedEmpty
    <2>4. /\ Free(b) = Rng(EmptyBin.freelist) \union Rng(fl)
          /\ Rng(EmptyBin.freelist) \cap Rng(fl) = {}
      BY <1>3, <2>3
    <2> QED BY <1>1, <1>2, <1>3, <2>1, <2>2, <2>3, <2>4, OwnerWalkStep
  <1>5. CASE TrimLocked(t)
    <2> DEFINE k == TrimCount(bins[b], b[2])
               d == Drop(bins[b], b[2], k)
               c == sec_trim_locked(bins[b], b[2])
               l == Dropped(bins[b], k)
    <2>1. /\ bins' = [bins EXCEPT ![b] = c] /\ r.op = "trim"
          /\ Goto(t, NextBin([r EXCEPT !.list = r.list \o l]))
      BY <1>1, <1>5 DEF TrimLocked, Registers
    <2>2. Trim
      BY <1>1, <2>1 DEF GoodRegisters
    <2> HIDE DEF b
    <2>3. k \in 0 .. Len(bins[b].freelist) /\ GoodBin(c, b[2])
      BY <1>2, <1>3, <2>2, TrimGood
    <2>4. c.freelist = d.freelist /\ c.pinned = d.pinned
      BY DEF sec_trim_locked, Drop
    <2> HIDE DEF k, c
    <2>5. l \in Seq(Extents)
      BY <1>3, <2>3, DroppedType
    <2>6. /\ Distinct(d.freelist) /\ d.pinned = PinnedPages(d.freelist, b[2])
          /\ Distinct(l) /\ Rng(bins[b].freelist) = Rng(d.freelist) \union Rng(l)
          /\ Rng(d.freelist) \cap Rng(l) = {}
      <3>1. /\ b[2] \in Nat /\ k \in 0 .. Len(bins[b].freelist) /\ bins[b] \in Bin
            /\ Distinct(bins[b].freelist)
            /\ bins[b].pinned = PinnedPages(bins[b].freelist, b[2])
        BY <1>2, <1>3, <2>3
      <3> QED BY ONLY <3>1, DropPlaces, Zenon
    <2> HIDE DEF d, l
    <2>7. c \in Bin
      BY <2>3, GoodIsBin
    <2> QED BY <1>1, <1>2, <1>3, <2>1, <2>4, <2>5, <2>6, <2>7, OwnerWalkStep
  <1> QED BY <1>4, <1>5

LEMMA OwnerDallocBehind ==
    ASSUME SecInv, OwnerInv, NEW t \in Threads, DallocBehind(t)
    PROVE  OwnerInv'
  <1>0. << 0, 1 >> \in Bins
    BY SecAssumption DEF Bins, Shards, Sizes
  <1>1. /\ out \cap base = {} /\ out \cap Hands(t) = {} /\ base \cap Hands(t) = {}
    BY <1>0, OldApart
  <1>2. /\ base' = base \union Hands(t) /\ Goto(t, Idle) /\ bins' = bins /\ out' = out
    BY DEF DallocBehind, Hands
  <1>3. Idle.list = << >> /\ Idle \in Registers
    BY IdleGood DEF Idle, Call
  <1>4. Rng(Idle.list) = {} /\ Distinct(Idle.list) /\ EmptyHanded(Idle)
    BY <1>3, RngEmpty DEF EmptyHanded
  <1> QED BY <1>1, <1>2, <1>3, <1>4, OwnerStepNoBin

LEMMA OwnerNext == SecInv /\ OwnerInv /\ [Next]_vars => OwnerInv'
  <1> SUFFICES ASSUME SecInv, OwnerInv, [Next]_vars PROVE OwnerInv'
    OBVIOUS
  <1>1. CASE UNCHANGED vars
    <2>1. Owned' = Owned
      BY <1>1 DEF Owned, Free, Hands, vars
    <2>2. Apart(Owned)'
      BY <2>1 DEF OwnerInv, Apart
    <2> QED BY <1>1, <2>2 DEF OwnerInv, PinnedExact, Distinct, EmptyHanded, vars
  <1>2. ASSUME NEW t \in Threads,
               sec_alloc(t) \/ sec_dalloc(t) \/ sec_flush(t) \/ sec_trim(t)
        PROVE  OwnerInv'
    BY <1>2, OwnerCall
  <1>3. ASSUME NEW t \in Threads, Step(t) PROVE OwnerInv'
    BY <1>3, OwnerLock, OwnerAlloc, OwnerAllocBehind, OwnerFill, OwnerDalloc,
       OwnerWalk, OwnerDallocBehind DEF Step
  <1> QED BY <1>1, <1>2, <1>3 DEF Next

\* Every extent is in one place, once: whatever the interleaving of threads that
\* allocate, deallocate, fill, flush and trim, the cache neither loses nor
\* duplicates an extent, and the pinned bytes of a bin are those of its freelist.
THEOREM SecApartAlways == Spec => []SecApart
  <1>1. Spec => [](SecInv /\ OwnerInv)
    BY SecInvInit, SecInvNext, OwnerInit, OwnerNext, PTL DEF Spec
  <1>2. SecInv /\ OwnerInv => SecApart
    <2> SUFFICES ASSUME SecInv, OwnerInv PROVE SecApart
      OBVIOUS
    <2>1. \A p, q \in Places : p # q => Owned[p] \cap Owned[q] = {}
      BY DEF OwnerInv, Apart
    <2>2. << 0, 1 >> \in Bins
      BY SecAssumption DEF Bins, Shards, Sizes
    <2>3. ASSUME NEW b \in Bins PROVE Cardinality(Free(b)) = Len(bins[b].freelist)
      <3>1. bins[b].freelist \in Seq(Extents) /\ Distinct(bins[b].freelist)
        BY DEF SecInv, TypeOK, Bin, OwnerInv
      <3> QED BY <3>1, RngCardinality DEF Free
    <2>4. ASSUME NEW b \in Bins, NEW c \in Bins, b # c PROVE Free(b) \cap Free(c) = {}
      <3>1. << "bin", b >> # << "bin", c >>
        BY <2>4
      <3> QED BY <2>1, <3>1, OwnedAt
    <2>5. ASSUME NEW t \in Threads, NEW u \in Threads, t # u
          PROVE  Hands(t) \cap Hands(u) = {}
      <3>1. << "thread", t >> # << "thread", u >>
        BY <2>5
      <3> QED BY <2>1, <3>1, OwnedAt
    <2>6. \A b \in Bins, t \in Threads : Free(b) \cap Hands(t) = {}
      BY OldApart
    <2>7. out \cap base = {}
      <3>1. << "out", 0 >> # << "base", 0 >>
        OBVIOUS
      <3> QED BY <2>1, <3>1, OwnedAt
    <2>8. ASSUME NEW b \in Bins PROVE Free(b) \cap (out \union base) = {}
      <3>1. << "out", 0 >> # << "bin", b >> /\ << "base", 0 >> # << "bin", b >>
        OBVIOUS
      <3>2. out \cap Free(b) = {} /\ base \cap Free(b) = {}
        BY <2>1, <3>1, OwnedAt
      <3> QED BY <3>2
    <2>9. \A t \in Threads : Hands(t) \cap (out \union base) = {}
      BY <2>2, OldApart
    <2>10. Extents = out \union base \union (UNION {Free(b) : b \in Bins})
                       \union (UNION {Hands(t) : t \in Threads})
      <3> DEFINE U == out \union base \union (UNION {Free(b) : b \in Bins})
                       \union (UNION {Hands(t) : t \in Threads})
      <3>1. ASSUME NEW e \in Extents PROVE e \in U
        <4>1. PICK p \in Places : e \in Owned[p]
          BY DEF OwnerInv, Apart
        <4> QED BY <4>1, OwnedAt
      <3>2. out \subseteq Extents /\ base \subseteq Extents
        BY DEF SecInv, TypeOK
      <3>3. ASSUME NEW b \in Bins PROVE Free(b) \subseteq Extents
        <4>1. bins[b].freelist \in Seq(Extents)
          BY DEF SecInv, TypeOK, Bin
        <4> QED BY <4>1 DEF Free, Rng
      <3>4. ASSUME NEW t \in Threads PROVE Hands(t) \subseteq Extents
        <4>1. th[t].list \in Seq(Extents)
          BY DEF SecInv, TypeOK, Registers
        <4> QED BY <4>1 DEF Hands, Rng
      <3> QED BY <3>1, <3>2, <3>3, <3>4
    <2> QED BY <2>3, <2>4, <2>5, <2>6, <2>7, <2>8, <2>9, <2>10
            DEF SecApart, SecOneOwner, OwnerInv
  <1> QED BY <1>1, <1>2, PTL
=============================================================================
