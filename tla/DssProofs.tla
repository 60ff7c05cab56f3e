----------------------------- MODULE DssProofs ------------------------------
(***************************************************************************)
(* Proofs about allocation from the data segment, for any number of        *)
(* threads, any page size, requests and sbrk calls of code outside the     *)
(* allocator.                                                              *)
(***************************************************************************)
EXTENDS Dss, FiniteSetTheorems, TLAPS

-----------------------------------------------------------------------------
(* Address arithmetic *)

LEMMA DivMod ==
    ASSUME NEW x \in Nat, NEW s \in Nat \ {0}
    PROVE  /\ x \div s \in Nat /\ x % s \in 0 .. (s - 1)
           /\ x = s * (x \div s) + (x % s)
  OBVIOUS

LEMMA MultipleMod ==
    ASSUME NEW k \in Nat, NEW s \in Nat \ {0}
    PROVE  (k * s) % s = 0
  <1> DEFINE x == k * s
             d == x \div s
             m == x % s
  <1>1. x \in Nat
    OBVIOUS
  <1>2. d \in Nat /\ m \in 0 .. (s - 1) /\ x = s * d + m
    BY <1>1, DivMod
  <1>3. k * s = s * d + m
    BY <1>2
  <1> HIDE DEF d, m, x
  <1>4. ~(k >= d + 1)
    <2> SUFFICES ASSUME k >= d + 1 PROVE FALSE
      OBVIOUS
    <2>1. k * s >= (d + 1) * s
      BY <1>2
    <2>2. (d + 1) * s = s * d + s
      BY <1>2
    <2>3. s * d \in Int /\ k * s \in Int
      BY <1>2
    <2> QED BY <1>2, <1>3, <2>1, <2>2, <2>3
  <1>5. ~(k <= d - 1)
    <2> SUFFICES ASSUME k <= d - 1 PROVE FALSE
      OBVIOUS
    <2>1. k * s <= (d - 1) * s
      BY <1>2
    <2>2. (d - 1) * s = s * d - s
      BY <1>2
    <2>3. s * d \in Int /\ k * s \in Int
      BY <1>2
    <2> QED BY <1>2, <1>3, <2>1, <2>2, <2>3
  <1>6. k = d
    BY <1>2, <1>4, <1>5
  <1>7. m = 0
    BY <1>2, <1>3, <1>6
  <1> QED BY <1>7 DEF m, x

LEMMA Multiple ==
    ASSUME NEW x \in Nat, NEW s \in Nat \ {0}, x % s = 0
    PROVE  \E k \in Nat : x = k * s
  <1>1. x \div s \in Nat /\ x = s * (x \div s) + 0
    BY DivMod
  <1>2. x = (x \div s) * s
    BY <1>1
  <1> QED BY <1>1, <1>2

LEMMA ModSmall ==
    ASSUME NEW x \in Nat, NEW w \in Nat \ {0}, x < 2 * w
    PROVE  x % w = IF x < w THEN x ELSE x - w
  <1> DEFINE d == x \div w
             m == x % w
  <1>1. d \in Nat /\ m \in 0 .. (w - 1) /\ x = w * d + m
    BY DivMod
  <1> HIDE DEF d, m
  <1>2. d <= 1
    <2> SUFFICES ASSUME d >= 2 PROVE FALSE
      BY <1>1
    <2>1. w * d >= w * 2
      BY <1>1
    <2> QED BY <1>1, <2>1
  <1>3. CASE d = 0
    BY <1>1, <1>3 DEF m
  <1>4. CASE d = 1
    BY <1>1, <1>4 DEF m
  <1> QED BY <1>1, <1>2, <1>3, <1>4

\* ALIGNMENT_ADDR2CEILING rounds up, or wraps to 0 at the end of the address space.
LEMMA CeilingIs ==
    ASSUME NEW a \in Nat, NEW s \in Nat \ {0}, DssWord \in Nat, DssWord % s = 0,
           a < DssWord
    PROVE  \E q \in Nat :
             /\ a <= q * s /\ q * s < a + s /\ q * s <= DssWord
             /\ AddrCeiling(a, s) = IF q * s = DssWord THEN 0 ELSE q * s
  <1> DEFINE x == a + s - 1
             q == x \div s
             m == x % s
  <1>1. x \in Nat /\ DssWord \in Nat \ {0}
    OBVIOUS
  <1>2. q \in Nat /\ m \in 0 .. (s - 1) /\ x = s * q + m
    BY <1>1, DivMod
  <1>3. PICK k \in Nat : DssWord = k * s
    BY Multiple
  <1>4. AddrCeiling(a, s) = (q * s) % DssWord
    BY DEF AddrCeiling
  <1> HIDE DEF q, m
  <1>5. q * s \in Nat /\ q * s = s * q
    BY <1>2
  <1>6. a <= q * s /\ q * s < a + s
    BY <1>2, <1>5
  <1>7. q * s <= DssWord
    <2> SUFFICES ASSUME q * s > k * s PROVE FALSE
      BY <1>3, <1>5
    <2>1. q >= k + 1
      <3> SUFFICES ASSUME q <= k PROVE FALSE
        BY <1>2
      <3>1. q * s <= k * s
        BY <1>2
      <3> QED BY <1>3, <1>5, <3>1
    <2>2. q * s >= (k + 1) * s
      BY <1>2, <2>1
    <2>3. (k + 1) * s = k * s + s
      OBVIOUS
    <2> QED BY <1>3, <1>5, <1>6, <2>2, <2>3
  <1>8. AddrCeiling(a, s) = IF q * s = DssWord THEN 0 ELSE q * s
    <2> DEFINE y == q * s
    <2>1. y \in Nat /\ y <= DssWord /\ AddrCeiling(a, s) = y % DssWord
      BY <1>4, <1>5, <1>7
    <2> HIDE DEF y
    <2>a. y < 2 * DssWord
      BY <1>1, <2>1
    <2>2. y % DssWord = IF y < DssWord THEN y ELSE y - DssWord
      BY <1>1, <2>1, <2>a, ModSmall
    <2>3. AddrCeiling(a, s) = IF y = DssWord THEN 0 ELSE y
      BY <1>1, <2>1, <2>2
    <2> QED BY <2>3 DEF y
  <1> QED BY <1>2, <1>6, <1>7, <1>8

\* A call that does not find the addresses wrapping has the gap and its extent, both
\* on page boundaries, one after the other above the break that it read.
LEMMA ExtentPlaced ==
    ASSUME NEW c, c.cur \in 0 .. DssLimit, << c.size, c.align >> \in DssRequests,
           ~DssWraps(c)
    PROVE  LET p == AddrCeiling(c.cur, DssPage)
           IN  /\ p \in Nat /\ DssRet(c) \in Nat /\ c.size \in Nat \ {0}
               /\ c.cur <= p /\ p <= DssRet(c)
               /\ p % DssPage = 0 /\ DssRet(c) % DssPage = 0
               /\ DssEnd(c) = DssRet(c) + c.size
               /\ DssGap(c) = << p, DssRet(c) - p >>
  <1> DEFINE cur == c.cur
             size == c.size
             align == c.align
             p == AddrCeiling(cur, DssPage)
             ret == DssRet(c)
  <1>1. /\ size \in Nat \ {0} /\ align \in Nat \ {0} /\ align % DssPage = 0
        /\ DssWord % align = 0 /\ size + align + DssPage <= DssWord
        /\ DssPage \in Nat \ {0} /\ DssWord \in Nat \ {0} /\ DssWord % DssPage = 0
        /\ cur \in Nat /\ cur < DssWord
    <2>1. /\ << size, align >>[1] = size /\ << size, align >>[2] = align
      OBVIOUS
    <2>2. << size, align >> \in (Nat \ {0}) \X (Nat \ {0})
      BY DssAssumption
    <2> QED BY <2>1, <2>2, DssAssumption
  <1>2. ret = AddrCeiling(p, align) /\ DssGap(c) = << p, ret - p >>
        /\ DssEnd(c) = (ret + size) % DssWord
        /\ ~(ret < cur) /\ ~(DssEnd(c) < cur)
    BY DEF DssRet, DssGap, DssEnd, DssWraps
  <1>3. PICK q \in Nat :
             /\ cur <= q * DssPage /\ q * DssPage < cur + DssPage
             /\ q * DssPage <= DssWord
             /\ p = IF q * DssPage = DssWord THEN 0 ELSE q * DssPage
    BY <1>1, CeilingIs
  <1> HIDE DEF cur, size, align, p, ret
  <1>4. q * DssPage \in Nat /\ p \in Nat /\ p < DssWord /\ p < cur + DssPage
    BY <1>1, <1>3
  <1>5. PICK k \in Nat :
             /\ p <= k * align /\ k * align < p + align /\ k * align <= DssWord
             /\ ret = IF k * align = DssWord THEN 0 ELSE k * align
    BY <1>1, <1>2, <1>4, CeilingIs
  <1>6. k * align \in Nat /\ ret \in Nat /\ ret < DssWord
    BY <1>1, <1>5
  <1>7. q * DssPage # DssWord
    <2> SUFFICES ASSUME q * DssPage = DssWord PROVE FALSE
      OBVIOUS
    <2>1. p = 0 /\ cur > 0
      BY <1>1, <1>3
    <2>2. k * align < align
      BY <1>1, <1>5, <1>6, <2>1
    <2>3. k = 0
      <3> SUFFICES ASSUME k >= 1 PROVE FALSE
        OBVIOUS
      <3>1. k * align >= 1 * align
        BY <1>1
      <3> QED BY <1>1, <1>6, <2>2, <3>1
    <2>4. ret = 0
      BY <1>1, <1>5, <2>3
    <2> QED BY <1>1, <1>2, <2>1, <2>4
  <1>8. p = q * DssPage /\ cur <= p
    BY <1>3, <1>7
  <1>9. k * align # DssWord
    <2> SUFFICES ASSUME k * align = DssWord PROVE FALSE
      OBVIOUS
    <2>1. ret = 0
      BY <1>5
    <2>2. cur = 0
      BY <1>1, <1>2, <2>1
    <2>3. p < DssPage
      BY <1>1, <1>4, <2>2
    <2> QED BY <1>1, <1>4, <1>5, <1>6, <2>3
  <1>10. ret = k * align /\ p <= ret /\ ret < p + align
    BY <1>5, <1>9
  <1>11. p % DssPage = 0
    BY <1>1, <1>8, MultipleMod
  <1>12. ret % DssPage = 0
    <2>1. PICK j \in Nat : align = j * DssPage
      BY <1>1, Multiple
    <2>2. ret = (k * j) * DssPage /\ k * j \in Nat
      <3>1. k * (j * DssPage) = (k * j) * DssPage
        BY <1>1
      <3> QED BY <1>10, <2>1, <3>1
    <2> QED BY <1>1, <2>2, MultipleMod
  <1>13. DssEnd(c) = ret + size
    <2> DEFINE y == ret + size
    <2>1. y \in Nat /\ y < 2 * DssWord /\ DssEnd(c) = y % DssWord
      BY <1>1, <1>2, <1>6
    <2>2. y < DssWord + cur
      BY <1>1, <1>4, <1>6, <1>10
    <2> HIDE DEF y
    <2>3. y % DssWord = IF y < DssWord THEN y ELSE y - DssWord
      BY <1>1, <2>1, ModSmall
    <2>4. DssEnd(c) = y
      BY <1>1, <1>2, <2>1, <2>2, <2>3
    <2> QED BY <2>4 DEF y
  <1> QED BY <1>1, <1>2, <1>4, <1>6, <1>8, <1>10, <1>11, <1>12, <1>13
          DEF p, ret, cur, size

\* What a call has obtained, whatever its pc.
LEMMA ObtainedIs ==
    ASSUME NEW c, c.cur \in 0 .. DssLimit, << c.size, c.align >> \in DssRequests,
           ~DssWraps(c)
    PROVE  /\ \A e \in Obtained(c) :
                /\ e \in Nat \X Nat /\ e[2] > 0 /\ c.cur <= e[1] /\ e[1] % DssPage = 0
                /\ Ends(e, DssEnd(c))
           /\ \A e, f \in Obtained(c) : e # f => DisjointFrom(e, f)
           /\ << DssRet(c), c.size >> \in Obtained(c) /\ << DssRet(c), c.size >> # DssGap(c)
           /\ DssEnd(c) = DssRet(c) + c.size /\ DssRet(c) >= c.cur
           /\ DssEnd(c) \in Nat /\ DssIncr(c) \in Nat /\ c.cur + DssIncr(c) = DssEnd(c)
  <1> DEFINE p == AddrCeiling(c.cur, DssPage)
             ret == DssRet(c)
             e1 == << ret, c.size >>
             e2 == << p, ret - p >>
  <1>1. /\ p \in Nat /\ ret \in Nat /\ c.size \in Nat \ {0}
        /\ c.cur <= p /\ p <= ret /\ p % DssPage = 0 /\ ret % DssPage = 0
        /\ DssEnd(c) = ret + c.size /\ DssGap(c) = e2
    BY ExtentPlaced
  <1>2. c.cur \in Nat
    BY DssAssumption
  <1>3. DssIncr(c) = ret - c.cur + c.size
    BY DEF DssIncr
  <1> HIDE DEF p, ret
  <1>4. e1[1] = ret /\ e1[2] = c.size /\ e2[1] = p /\ e2[2] = ret - p
    OBVIOUS
  <1>5. Obtained(c) = {e \in {e1, e2} : e[2] # 0}
    BY <1>1 DEF Obtained, ret
  <1>6. e1 \in Nat \X Nat /\ e2 \in Nat \X Nat
    BY <1>1
  <1>7. ASSUME NEW e \in Obtained(c)
        PROVE  /\ e \in Nat \X Nat /\ e[2] > 0 /\ c.cur <= e[1] /\ e[1] % DssPage = 0
               /\ Ends(e, DssEnd(c))
    <2>1. (e = e1 \/ e = e2) /\ e[2] # 0
      BY <1>5
    <2>2. CASE e = e1
      BY <1>1, <1>2, <1>4, <1>6, <2>1, <2>2 DEF Ends
    <2>3. CASE e = e2
      BY <1>1, <1>2, <1>4, <1>6, <2>1, <2>3 DEF Ends
    <2> QED BY <2>1, <2>2, <2>3
  <1>8. ASSUME NEW e \in Obtained(c), NEW f \in Obtained(c), e # f
        PROVE  DisjointFrom(e, f)
    <2>1. Ends(e2, e1[1])
      BY <1>1, <1>4 DEF Ends
    <2> QED BY <1>5, <1>8, <2>1 DEF DisjointFrom
  <1>9. e1 \in Obtained(c)
    BY <1>1, <1>4, <1>5
  <1> QED BY <1>1, <1>2, <1>3, <1>7, <1>8, <1>9 DEF ret

-----------------------------------------------------------------------------
(* Steps *)

\* The call of t goes on, the extents of everybody stay what they are.
LEMMA Quiet ==
    ASSUME DssInv, NEW t \in DssThreads, NEW r \in DssCall, DssGoto(t, r),
           DssTypeOK', DssExclusive', DssCounted',
           dss'.ours = dss.ours, dss'.gaps = dss.gaps, dss'.raw = dss.raw,
           dss'.brk = dss.brk, Taken(t)' = Taken(t), DssCallOK(r),
           r.pc \in {"extend", "store"} => DssBelow(t, r.cur),
           \A e \in DssMine : Ends(e, dss'.max),
           \A u \in DssThreads : dsc'[u].pc = "gap" =>
              \A e \in Taken(u) : Ends(e, dss'.max)
    PROVE  DssInv'
  <1>1. dsc'[t] = r /\ \A u \in DssThreads : u # t => dsc'[u] = dsc[u]
    BY DEF DssInv, DssTypeOK, DssGoto
  <1>2. \A u \in DssThreads : Taken(u)' = Taken(u)
    BY <1>1 DEF Taken
  <1>3. DssMine' = DssMine /\ DssAll' = DssAll
    BY DEF DssMine, DssAll
  <1>4. \A e : Proper(e)' <=> Proper(e)
    BY DEF Proper, Ends
  <1>5. DssOwnedOK'
    <2>1. (dss.ours \cap dss.gaps = {})' /\ (DssMine \cap dss.raw = {})'
      BY <1>3 DEF DssInv, DssOwnedOK
    <2> QED BY <1>3, <1>4, <2>1 DEF DssInv, DssOwnedOK, DisjointFrom, Ends
  <1>6. ASSUME NEW u \in DssThreads PROVE DssCallOK(dsc[u])'
    <2>1. DssCallOK(dsc'[u])
      BY <1>1 DEF DssInv
    <2> QED BY <2>1 DEF DssCallOK, DssWraps, DssRet, DssEnd
  <1>7. ASSUME NEW u \in DssThreads, dsc'[u].pc \in {"extend", "store"}
        PROVE  DssBelow(u, dsc[u].cur)'
    <2>1. DssBelow(u, dsc'[u].cur)
      BY <1>1, <1>7 DEF DssInv
    <2> QED BY <1>2, <1>3, <2>1 DEF DssBelow, Ends
  <1>8. ASSUME NEW u \in DssThreads PROVE DssTakenOK(u)'
    <2>1. DssTakenOK(u)
      BY DEF DssInv
    <2> QED BY <1>2, <1>3, <1>4, <2>1 DEF DssTakenOK, DisjointFrom, Ends
  <1> QED BY <1>5, <1>6, <1>7, <1>8 DEF DssInv

\* How many calls are under way.
LEMMA BusyIs ==
    ASSUME DssInv, NEW t \in DssThreads, NEW r \in DssCall, DssGoto(t, r)
    PROVE  /\ IsFiniteSet(DssBusy) /\ Cardinality(DssBusy) \in Nat
           /\ (r.pc = "idle") = (dsc[t].pc = "idle") => DssBusy' = DssBusy
           /\ r.pc # "idle" /\ dsc[t].pc = "idle" =>
                Cardinality(DssBusy') = Cardinality(DssBusy) + 1
           /\ r.pc = "idle" /\ dsc[t].pc # "idle" =>
                Cardinality(DssBusy') = Cardinality(DssBusy) - 1
  <1>1. IsFiniteSet(DssBusy)
    <2>1. DssBusy \in SUBSET DssThreads
      BY DEF DssBusy
    <2> QED BY <2>1, DssAssumption, FS_Subset
  <1>2. dsc'[t] = r /\ \A u \in DssThreads : u # t => dsc'[u] = dsc[u]
    BY DEF DssInv, DssTypeOK, DssGoto
  <1>3. (r.pc = "idle") = (dsc[t].pc = "idle") => DssBusy' = DssBusy
    BY <1>2 DEF DssBusy
  <1>4. ASSUME r.pc # "idle", dsc[t].pc = "idle"
        PROVE  Cardinality(DssBusy') = Cardinality(DssBusy) + 1
    <2>1. DssBusy' = DssBusy \cup {t} /\ t \notin DssBusy
      BY <1>2, <1>4 DEF DssBusy
    <2> QED BY <1>1, <2>1, FS_AddElement
  <1>5. ASSUME r.pc = "idle", dsc[t].pc # "idle"
        PROVE  Cardinality(DssBusy') = Cardinality(DssBusy) - 1
    <2>1. DssBusy' = DssBusy \ {t} /\ t \in DssBusy
      BY <1>2, <1>5 DEF DssBusy
    <2> QED BY <1>1, <2>1, FS_RemoveElement
  <1> QED BY <1>1, <1>3, <1>4, <1>5, FS_CardinalityType

LEMMA InitInv == DssInit => DssInv
  <1> SUFFICES ASSUME DssInit PROVE DssInv
    OBVIOUS
  <1>1. DssIdle \in DssCall /\ DssIdle.pc = "idle"
    BY DssAssumption DEF DssIdle, DssCall
  <1>2. \A t \in DssThreads : dsc[t] = DssIdle
    BY DEF DssInit
  <1>3. DssTypeOK
    BY <1>1, DssAssumption DEF DssInit, DssTypeOK, extent_dss_boot
  <1>4. dss.ours = {} /\ dss.gaps = {} /\ dss.raw = {} /\ dss.edatas = DssEdatas
    BY DEF DssInit, extent_dss_boot
  <1>5. DssExclusive
    BY <1>1, <1>2 DEF DssExclusive, Extending
  <1>6. DssOwnedOK
    BY <1>4 DEF DssOwnedOK, DssAll, DssMine
  <1>7. DssCounted
    <2>1. DssBusy = {}
      BY <1>1, <1>2 DEF DssBusy
    <2> QED BY <1>4, <2>1, FS_EmptySet, DssAssumption DEF DssCounted
  <1>8. \A t \in DssThreads : Taken(t) = {}
    BY <1>1, <1>2 DEF Taken
  <1> QED BY <1>1, <1>2, <1>3, <1>5, <1>6, <1>7, <1>8 DEF DssInv, DssTakenOK, DssCallOK

\* dss changes in the fields that say nothing of extents only.
LEMMA AllocInv ==
    ASSUME DssInv, NEW t \in DssThreads, extent_alloc_dss(t)
    PROVE  DssInv'
  <1>1. PICK q \in DssRequests, at \in {0} \cup {e[1] + e[2] : e \in dss.ours} :
          /\ dsc[t].pc = "idle"
          /\ DssGoto(t, [pc |-> "start", size |-> q[1], align |-> q[2], at |-> at,
                         cur |-> 0])
          /\ dss' = [dss EXCEPT !.edatas = @ - 1]
    BY DEF extent_alloc_dss
  <1> DEFINE r == [pc |-> "start", size |-> q[1], align |-> q[2], at |-> at, cur |-> 0]
  <1>2. DssTypeOK
    BY DEF DssInv
  <1>3. q[1] \in Nat /\ q[2] \in Nat /\ << q[1], q[2] >> = q
    BY DssAssumption
  <1>4. at \in Nat
    BY <1>2 DEF DssTypeOK
  <1>5. r \in DssCall
    BY <1>3, <1>4, DssAssumption DEF DssCall
  <1>6. r.pc = "start" /\ r.size = q[1] /\ r.align = q[2] /\ DssGoto(t, r)
    BY <1>1
  <1> HIDE DEF r
  <1>7. DssTypeOK'
    BY <1>1, <1>2, <1>5, <1>6 DEF DssTypeOK, DssGoto
  <1>8. /\ dss'.ours = dss.ours /\ dss'.gaps = dss.gaps /\ dss'.raw = dss.raw
        /\ dss'.brk = dss.brk /\ dss'.max = dss.max /\ dss'.extending = dss.extending
        /\ dss'.edatas = dss.edatas - 1
    BY <1>1, <1>2 DEF DssTypeOK
  <1>9. dsc'[t] = r /\ \A u \in DssThreads : u # t => dsc'[u] = dsc[u]
    BY <1>2, <1>6 DEF DssTypeOK, DssGoto
  <1>10. DssExclusive'
    BY <1>6, <1>8, <1>9 DEF DssInv, DssExclusive, Extending
  <1>11. Taken(t)' = Taken(t)
    BY <1>1, <1>6, <1>9 DEF Taken
  <1>12. DssCounted'
    <2>1. Cardinality(DssBusy') = Cardinality(DssBusy) + 1 /\ Cardinality(DssBusy) \in Nat
      BY <1>1, <1>5, <1>6, BusyIs
    <2>2. dss.edatas \in Int /\ Cardinality(dss.gaps) \in Nat
      BY <1>2, FS_CardinalityType DEF DssInv, DssCounted, DssTypeOK
    <2> QED BY <1>8, <2>1, <2>2 DEF DssInv, DssCounted
  <1>13. DssCallOK(r)
    BY <1>3, <1>6 DEF DssCallOK
  <1>14. \A e \in DssMine : Ends(e, dss'.max)
    BY <1>8 DEF DssInv, DssOwnedOK
  <1>15. \A u \in DssThreads : dsc'[u].pc = "gap" => \A e \in Taken(u) : Ends(e, dss'.max)
    BY <1>6, <1>8, <1>9 DEF DssInv, DssTakenOK
  <1> QED BY <1>5, <1>6, <1>7, <1>8, <1>10, <1>11, <1>12, <1>13, <1>14, <1>15, Quiet

\* The call of t enters the critical section or moves on in it, with nothing
\* obtained yet.
LEMMA CriticalInv ==
    ASSUME DssInv, NEW t \in DssThreads,
           extent_dss_extending_start(t) \/ extent_dss_max_update(t)
             \/ DssGives(t) \/ DssExhausted(t)
    PROVE  DssInv'
  <1> DEFINE c == dsc[t]
  <1>1. DssTypeOK /\ c \in DssCall /\ DssCallOK(c)
    BY DEF DssInv, DssTypeOK
  <1>2. ASSUME NEW r \in DssCall, DssGoto(t, r), c.pc \in {"start", "update", "extend"},
               r.pc \in {"update", "extend", "oom"},
               r.size = c.size, r.align = c.align,
               DssTypeOK', dss'.extending = TRUE,
               c.pc = "start" => ~dss.extending,
               dss'.ours = dss.ours, dss'.gaps = dss.gaps, dss'.raw = dss.raw,
               dss'.brk = dss.brk, dss'.edatas = dss.edatas,
               dss'.max \in {dss.max, dss.brk},
               r.pc = "extend" => r.cur = dss.brk
        PROVE  DssInv'
    <2>1. dsc'[t] = r /\ \A u \in DssThreads : u # t => dsc'[u] = dsc[u]
      BY <1>1, <1>2 DEF DssTypeOK, DssGoto
    <2>2. DssExclusive'
      <3>1. DssExclusive
        BY DEF DssInv
      <3>2. \A u \in DssThreads : u # t => ~Extending(u)
        BY <1>2, <3>1 DEF DssExclusive, Extending
      <3>3. \A u \in DssThreads : u # t => ~Extending(u)'
        BY <2>1, <3>2 DEF Extending
      <3>4. dss'.extending
        BY <1>2
      <3> QED BY ONLY <3>3, <3>4 DEF DssExclusive
    <2>3. Taken(t)' = Taken(t)
      BY <1>2, <2>1 DEF Taken
    <2>4. DssCounted'
      <3>1. DssBusy' = DssBusy
        BY <1>2, BusyIs
      <3> QED BY <1>2, <3>1 DEF DssInv, DssCounted
    <2>5. dss.brk \in DssBase .. DssLimit
      BY <1>1 DEF DssTypeOK
    <2>6. DssCallOK(r)
      BY <1>1, <1>2, <2>5, DssAssumption DEF DssCallOK
    <2>7. \A e \in DssMine : Ends(e, dss.brk) /\ Ends(e, dss.max)
      BY DEF DssInv, DssOwnedOK, DssAll, Proper
    <2>8. \A u \in DssThreads : \A e \in Taken(u) :
             Ends(e, dss.brk) /\ (dsc[u].pc = "gap" => Ends(e, dss.max))
      BY DEF DssInv, DssTakenOK, Proper
    <2>9. r.pc \in {"extend", "store"} => DssBelow(t, r.cur)
      BY <1>2, <2>7, <2>8 DEF DssBelow
    <2>10. \A e \in DssMine : Ends(e, dss'.max)
      BY <1>2, <2>7
    <2>11. \A u \in DssThreads : dsc'[u].pc = "gap" => \A e \in Taken(u) : Ends(e, dss'.max)
      BY <1>2, <2>1, <2>8
    <2> QED BY <1>2, <2>2, <2>3, <2>4, <2>6, <2>9, <2>10, <2>11, Quiet
  <1>3. CASE extent_dss_extending_start(t)
    <2> DEFINE r == [c EXCEPT !.pc = IF dss.exhausted THEN "oom" ELSE "update"]
    <2>1. /\ DssGoto(t, r) /\ c.pc = "start" /\ ~dss.extending
          /\ dss' = [dss EXCEPT !.extending = TRUE]
      BY <1>3 DEF extent_dss_extending_start
    <2>2. r \in DssCall /\ r.pc \in {"update", "oom"} /\ r.size = c.size /\ r.align = c.align
      BY <1>1 DEF DssCall
    <2> HIDE DEF r
    <2>3. DssTypeOK'
      BY <1>1, <2>1, <2>2 DEF DssTypeOK, DssGoto
    <2>4. /\ dss'.ours = dss.ours /\ dss'.gaps = dss.gaps /\ dss'.raw = dss.raw
          /\ dss'.brk = dss.brk /\ dss'.max = dss.max /\ dss'.extending = TRUE
          /\ dss'.edatas = dss.edatas
      BY <1>1, <2>1 DEF DssTypeOK
    <2> QED BY <1>2, <2>1, <2>2, <2>3, <2>4
  <1>4. CASE extent_dss_max_update(t)
    <2> DEFINE r == [c EXCEPT !.pc = IF c.at \in {0, dss.brk} THEN "extend" ELSE "oom",
                              !.cur = dss.brk]
    <2>1. /\ DssGoto(t, r) /\ c.pc = "update" /\ dss' = [dss EXCEPT !.max = dss.brk]
      BY <1>4 DEF extent_dss_max_update
    <2>2. dss.brk \in 0 .. DssLimit /\ dss.brk \in Nat
      BY <1>1, DssAssumption DEF DssTypeOK
    <2>3. /\ r \in DssCall /\ r.pc \in {"extend", "oom"} /\ r.size = c.size
          /\ r.align = c.align /\ r.cur = dss.brk
      BY <1>1, <2>2 DEF DssCall
    <2> HIDE DEF r
    <2>4. DssTypeOK'
      BY <1>1, <2>1, <2>2, <2>3 DEF DssTypeOK, DssGoto
    <2>5. /\ dss'.ours = dss.ours /\ dss'.gaps = dss.gaps /\ dss'.raw = dss.raw
          /\ dss'.brk = dss.brk /\ dss'.max = dss.brk /\ dss'.extending = dss.extending
          /\ dss'.edatas = dss.edatas
      BY <1>1, <2>1 DEF DssTypeOK
    <2>6. dss.extending = TRUE
      BY <1>1, <2>1 DEF DssInv, DssExclusive, Extending, DssTypeOK
    <2> QED BY <1>2, <2>1, <2>3, <2>4, <2>5, <2>6
  <1>5. CASE DssGives(t) \/ DssExhausted(t)
    <2> DEFINE r == [c EXCEPT !.pc = "oom"]
    <2>1. /\ DssGoto(t, r) /\ c.pc = "extend"
          /\ dss' = dss \/ dss' = [dss EXCEPT !.exhausted = TRUE]
      BY <1>5 DEF DssGives, DssExhausted
    <2>2. r \in DssCall /\ r.pc = "oom" /\ r.size = c.size /\ r.align = c.align
      BY <1>1 DEF DssCall
    <2> HIDE DEF r
    <2>3. DssTypeOK'
      BY <1>1, <2>1, <2>2 DEF DssTypeOK, DssGoto
    <2>4. /\ dss'.ours = dss.ours /\ dss'.gaps = dss.gaps /\ dss'.raw = dss.raw
          /\ dss'.brk = dss.brk /\ dss'.max = dss.max /\ dss'.extending = dss.extending
          /\ dss'.edatas = dss.edatas
      BY <1>1, <2>1 DEF DssTypeOK
    <2>5. dss.extending = TRUE
      BY <1>1, <2>1 DEF DssInv, DssExclusive, Extending, DssTypeOK
    <2> QED BY <1>2, <2>1, <2>2, <2>3, <2>4, <2>5
  <1> QED BY <1>3, <1>4, <1>5

\* Success: what the allocator owns, and what other calls are about to return, lies
\* below the new dss_max.
LEMMA StoreInv ==
    ASSUME DssInv, NEW t \in DssThreads, DssStore(t)
    PROVE  DssInv'
  <1> DEFINE c == dsc[t]
             r == [c EXCEPT !.pc = "gap"]
  <1>1. /\ DssTypeOK /\ c \in DssCall /\ DssCallOK(c) /\ c.pc = "store"
        /\ DssBelow(t, c.cur)
    BY DEF DssInv, DssTypeOK, DssStore
  <1>2. DssGoto(t, r) /\ dss' = [dss EXCEPT !.max = DssEnd(c), !.extending = FALSE]
    BY DEF DssStore
  <1>3. /\ r \in DssCall /\ r.pc = "gap" /\ r.size = c.size /\ r.align = c.align
        /\ r.cur = c.cur
    BY <1>1 DEF DssCall
  <1>4. /\ c.cur \in 0 .. DssLimit /\ << c.size, c.align >> \in DssRequests /\ ~DssWraps(c)
    BY <1>1 DEF DssCall, DssCallOK
  <1> HIDE DEF c, r
  <1>5. /\ \A e \in Obtained(c) : Ends(e, DssEnd(c))
        /\ DssEnd(c) \in Nat /\ c.cur <= DssEnd(c)
    <2>1. (\A e \in Obtained(c) : Ends(e, DssEnd(c))) /\ DssEnd(c) \in Nat
      BY <1>4, ObtainedIs
    <2>2. c.cur \in Nat /\ ~(DssEnd(c) < c.cur)
      BY <1>4, DssAssumption DEF DssWraps
    <2> QED BY <2>1, <2>2
  <1>6. DssTypeOK'
    BY <1>1, <1>2, <1>3, <1>5 DEF DssTypeOK, DssGoto
  <1>7. /\ dss'.ours = dss.ours /\ dss'.gaps = dss.gaps /\ dss'.raw = dss.raw
        /\ dss'.brk = dss.brk /\ dss'.max = DssEnd(c) /\ dss'.extending = FALSE
        /\ dss'.edatas = dss.edatas
    BY <1>1, <1>2 DEF DssTypeOK
  <1>8. dsc'[t] = r /\ \A u \in DssThreads : u # t => dsc'[u] = dsc[u]
    BY <1>1, <1>2 DEF DssTypeOK, DssGoto
  <1>9. DssExclusive'
    BY <1>1, <1>3, <1>7, <1>8 DEF DssInv, DssExclusive, Extending, c
  <1>10. DssRet(r) = DssRet(c) /\ DssEnd(r) = DssEnd(c) /\ DssGap(r) = DssGap(c)
    BY <1>3 DEF DssRet, DssEnd, DssGap
  <1>11. Taken(t)' = Taken(t) /\ Taken(t) = Obtained(c)
    <2>1. Obtained(r) = Obtained(c)
      BY <1>3, <1>10 DEF Obtained
    <2>2. Taken(t) = Obtained(c)
      BY <1>1 DEF Taken, c
    <2>3. Taken(t)' = Obtained(dsc'[t])
      BY <1>3, <1>8 DEF Taken, Obtained, DssRet, DssGap
    <2> QED BY <1>8, <2>1, <2>2, <2>3
  <1>12. DssCounted'
    <2>1. DssBusy' = DssBusy
      BY <1>1, <1>2, <1>3, BusyIs DEF c
    <2> QED BY <1>7, <2>1 DEF DssInv, DssCounted
  <1>13. DssCallOK(r)
    BY <1>1, <1>3, <1>10 DEF DssCallOK, DssWraps
  <1>14. \A e, a, b : e \in Nat \X Nat /\ a \in Nat /\ b \in Nat /\ Ends(e, a) /\ a <= b
                        => Ends(e, b)
    BY DEF Ends
  <1>15. \A e \in DssMine : Ends(e, dss'.max)
    <2>1. \A e \in DssMine : e \in Nat \X Nat /\ Ends(e, c.cur)
      BY <1>1 DEF DssBelow, DssMine, DssTypeOK
    <2>2. c.cur \in Nat
      BY <1>4, DssAssumption
    <2> QED BY <1>5, <1>7, <1>14, <2>1, <2>2
  <1>16. ASSUME NEW u \in DssThreads, dsc'[u].pc = "gap", NEW e \in Taken(u)
         PROVE  Ends(e, dss'.max)
    <2>1. CASE u = t
      BY <1>5, <1>7, <1>11, <2>1
    <2>2. CASE u # t
      <3>1. Ends(e, c.cur)
        BY <1>1, <2>2 DEF DssBelow
      <3>2. e \in Nat \X Nat
        <4>1. /\ dsc[u].cur \in 0 .. DssLimit /\ ~DssWraps(dsc[u])
              /\ << dsc[u].size, dsc[u].align >> \in DssRequests
          BY <1>8, <1>16, <2>2 DEF DssInv, DssTypeOK, DssCall, DssCallOK
        <4>2. e \in Obtained(dsc[u])
          BY <1>16 DEF Taken
        <4> QED BY <4>1, <4>2, ObtainedIs
      <3> QED BY <1>4, <1>5, <1>7, <1>14, <3>1, <3>2, DssAssumption
    <2> QED BY <2>1, <2>2
  <1> QED BY <1>2, <1>3, <1>6, <1>7, <1>9, <1>11, <1>12, <1>13, <1>15, <1>16, Quiet

\* Failure: the edata_t goes back to the cache.
LEMMA OomInv ==
    ASSUME DssInv, NEW t \in DssThreads, DssOom(t)
    PROVE  DssInv'
  <1>1. DssTypeOK /\ dsc[t] \in DssCall /\ dsc[t].pc = "oom"
    BY DEF DssInv, DssTypeOK, DssOom
  <1>2. /\ DssGoto(t, DssIdle)
        /\ dss' = [dss EXCEPT !.extending = FALSE, !.edatas = dss.edatas + 1]
    BY DEF DssOom
  <1>3. DssIdle \in DssCall /\ DssIdle.pc = "idle"
    BY DssAssumption DEF DssIdle, DssCall
  <1>4. DssTypeOK'
    <2>1. dss.edatas + 1 \in Int
      BY <1>1 DEF DssTypeOK
    <2>2. dsc' \in [DssThreads -> DssCall]
      BY <1>1, <1>2, <1>3 DEF DssTypeOK, DssGoto
    <2> QED BY <1>1, <1>2, <2>1, <2>2 DEF DssTypeOK
  <1>5. /\ dss'.ours = dss.ours /\ dss'.gaps = dss.gaps /\ dss'.raw = dss.raw
        /\ dss'.brk = dss.brk /\ dss'.max = dss.max /\ dss'.extending = FALSE
        /\ dss'.edatas = dss.edatas + 1
    BY <1>1, <1>2 DEF DssTypeOK
  <1>6. dsc'[t] = DssIdle /\ \A u \in DssThreads : u # t => dsc'[u] = dsc[u]
    BY <1>1, <1>2 DEF DssTypeOK, DssGoto
  <1>7. DssExclusive'
    BY <1>1, <1>3, <1>5, <1>6 DEF DssInv, DssExclusive, Extending
  <1>8. Taken(t)' = Taken(t)
    BY <1>1, <1>3, <1>6 DEF Taken
  <1>9. DssCounted'
    <2>1. Cardinality(DssBusy') = Cardinality(DssBusy) - 1 /\ Cardinality(DssBusy) \in Nat
      BY <1>1, <1>2, <1>3, BusyIs
    <2>2. IsFiniteSet(dss.gaps) /\ Cardinality(dss.gaps) \in Nat /\ dss.edatas \in Int
      BY <1>1, FS_CardinalityType DEF DssInv, DssCounted, DssTypeOK
    <2>3. DssEdatas = dss.edatas + Cardinality(dss.gaps) + Cardinality(DssBusy)
      BY DEF DssInv, DssCounted
    <2> QED BY <1>5, <2>1, <2>2, <2>3 DEF DssCounted
  <1>10. DssCallOK(DssIdle)
    BY <1>3 DEF DssCallOK
  <1>11. \A e \in DssMine : Ends(e, dss'.max)
    BY <1>5 DEF DssInv, DssOwnedOK
  <1>12. \A u \in DssThreads : dsc'[u].pc = "gap" => \A e \in Taken(u) : Ends(e, dss'.max)
    BY <1>3, <1>5, <1>6 DEF DssInv, DssTakenOK
  <1> QED BY <1>2, <1>3, <1>4, <1>5, <1>7, <1>8, <1>9, <1>10, <1>11, <1>12, Quiet

\* Types of the extents of the invariant.
LEMMA ExtentTypes ==
    ASSUME DssInv
    PROVE  /\ DssAll \subseteq Nat \X Nat
           /\ \A t \in DssThreads : Taken(t) \subseteq Nat \X Nat
           /\ dss.brk \in Nat /\ dss.max \in Nat
           /\ \A t \in DssThreads : dsc[t].cur \in Nat
  <1>1. DssTypeOK
    BY DEF DssInv
  <1>2. ASSUME NEW t \in DssThreads, NEW e \in Taken(t) PROVE e \in Nat \X Nat
    <2>1. /\ dsc[t].cur \in 0 .. DssLimit /\ ~DssWraps(dsc[t])
          /\ << dsc[t].size, dsc[t].align >> \in DssRequests /\ e \in Obtained(dsc[t])
      BY <1>1, <1>2 DEF DssInv, DssTypeOK, DssCall, DssCallOK, Taken
    <2> QED BY <2>1, ObtainedIs
  <1> QED BY <1>1, <1>2, DssAssumption DEF DssTypeOK, DssAll, DssMine, DssCall

\* A larger break keeps proper extents proper.
LEMMA ProperGrows ==
    ASSUME dss.brk \in Nat, dss'.brk \in Nat, dss.brk <= dss'.brk, DssBase \in Nat,
           NEW e \in Nat \X Nat, Proper(e)
    PROVE  Proper(e)'
  BY DEF Proper, Ends

\* The allocator's sbrk: when the break is still the one that was read, what the call
\* obtains lies above everything; when it is not, only the break moves.
LEMMA ExtendInv ==
    ASSUME DssInv, NEW t \in DssThreads, DssExtend(t)
    PROVE  DssInv'
  <1> DEFINE c == dsc[t]
             r == [c EXCEPT !.pc = IF dss.brk = c.cur THEN "store" ELSE "update"]
  <1>1. /\ DssTypeOK /\ c \in DssCall /\ DssCallOK(c) /\ c.pc = "extend"
        /\ DssBelow(t, c.cur) /\ ~DssWraps(c)
    BY DEF DssInv, DssTypeOK, DssExtend
  <1>2. /\ DssGoto(t, r) /\ dss' = [dss EXCEPT !.brk = dss.brk + DssIncr(c)]
        /\ ~(dss.brk + DssIncr(c) > DssLimit)
    BY DEF DssExtend, SbrkFails
  <1>3. /\ r \in DssCall /\ r.size = c.size /\ r.align = c.align /\ r.cur = c.cur
        /\ r.pc = IF dss.brk = c.cur THEN "store" ELSE "update"
    BY <1>1 DEF DssCall
  <1>4. /\ c.cur \in 0 .. DssLimit /\ << c.size, c.align >> \in DssRequests
        /\ DssBase <= c.cur
    BY <1>1 DEF DssCall, DssCallOK
  <1> HIDE DEF c, r
  <1>5. DssRet(r) = DssRet(c) /\ DssEnd(r) = DssEnd(c) /\ DssGap(r) = DssGap(c)
    BY <1>3 DEF DssRet, DssEnd, DssGap
  <1>6. Obtained(r) = Obtained(c)
    BY <1>3, <1>5 DEF Obtained
  <1>7. /\ \A e \in Obtained(c) :
             /\ e \in Nat \X Nat /\ e[2] > 0 /\ c.cur <= e[1] /\ e[1] % DssPage = 0
             /\ Ends(e, DssEnd(c))
        /\ DssEnd(c) \in Nat /\ DssIncr(c) \in Nat /\ c.cur + DssIncr(c) = DssEnd(c)
    BY <1>1, <1>4, ObtainedIs
  <1>8. /\ dss'.ours = dss.ours /\ dss'.gaps = dss.gaps /\ dss'.raw = dss.raw
        /\ dss'.brk = dss.brk + DssIncr(c) /\ dss'.max = dss.max
        /\ dss'.extending = dss.extending /\ dss'.edatas = dss.edatas
    BY <1>1, <1>2 DEF DssTypeOK
  <1>9. dss.brk \in DssBase .. DssLimit /\ dss'.brk \in DssBase .. DssLimit
    BY <1>1, <1>2, <1>7, <1>8, DssAssumption DEF DssTypeOK
  <1>10. DssTypeOK'
    BY <1>1, <1>2, <1>3, <1>8, <1>9 DEF DssTypeOK, DssGoto
  <1>11. dsc'[t] = r /\ \A u \in DssThreads : u # t => dsc'[u] = dsc[u]
    BY <1>1, <1>2 DEF DssTypeOK, DssGoto
  <1>12. DssExclusive'
    BY <1>1, <1>3, <1>8, <1>11 DEF DssInv, DssExclusive, Extending, c
  <1>13. DssCounted'
    <2>1. DssBusy' = DssBusy
      BY <1>1, <1>2, <1>3, BusyIs DEF c
    <2> QED BY <1>8, <2>1 DEF DssInv, DssCounted
  <1>14. DssMine' = DssMine /\ DssAll' = DssAll
    BY <1>8 DEF DssMine, DssAll
  <1>15. /\ \A u \in DssThreads : u # t => Taken(u)' = Taken(u)
         /\ Taken(t) = {}
         /\ Taken(t)' = IF dss.brk = c.cur THEN Obtained(c) ELSE {}
    <2>1. Taken(t)' = IF dsc'[t].pc \in {"store", "gap"} THEN Obtained(dsc'[t]) ELSE {}
      BY DEF Taken, Obtained, DssRet, DssGap, AddrCeiling
    <2>2. Taken(t)' = IF dss.brk = c.cur THEN Obtained(c) ELSE {}
      BY <1>3, <1>6, <1>11, <2>1
    <2> QED BY <1>1, <1>11, <2>2 DEF Taken, Obtained, DssRet, DssGap, AddrCeiling, c
  <1>16. dss.brk \in Nat /\ dss'.brk \in Nat /\ dss.brk <= dss'.brk /\ DssBase \in Nat
    BY <1>7, <1>8, <1>9, DssAssumption
  <1>17. \A e \in Nat \X Nat : Proper(e) => Proper(e)'
    BY <1>16, ProperGrows
  <1>18. DssOwnedOK'
    <2>1. (dss.ours \cap dss.gaps = {})' /\ (DssMine \cap dss.raw = {})'
      BY <1>8, <1>14 DEF DssInv, DssOwnedOK
    <2> QED BY <1>8, <1>14, <1>17, <2>1, ExtentTypes DEF DssInv, DssOwnedOK, DisjointFrom, Ends
  <1>19. ASSUME NEW u \in DssThreads PROVE DssCallOK(dsc[u])'
    <2>1. DssCallOK(r)
      BY <1>1, <1>3, <1>4, <1>5 DEF DssCallOK, DssWraps
    <2>2. DssCallOK(dsc'[u])
      BY <1>11, <2>1 DEF DssInv
    <2> QED BY <2>2 DEF DssCallOK, DssWraps, DssRet, DssEnd
  <1>20. ASSUME NEW u \in DssThreads, dsc'[u].pc \in {"extend", "store"}
         PROVE  DssBelow(u, dsc[u].cur)'
    <2>1. u = t
      BY <1>1, <1>11, <1>20 DEF DssInv, DssExclusive, Extending, c
    <2>2. DssBelow(t, dsc'[t].cur)
      BY <1>1, <1>3, <1>11
    <2> QED BY <1>14, <1>15, <2>1, <2>2 DEF DssBelow, Ends
  <1>21. ASSUME NEW e \in Taken(t)'
         PROVE  /\ Proper(e)' /\ e \in Nat \X Nat
                /\ \A f : Ends(f, dss.brk) => Ends(f, e[1]) \/ f \notin Nat \X Nat
    <2>1. /\ dss.brk = c.cur /\ e \in Obtained(c) /\ dss'.brk = DssEnd(c)
      BY <1>7, <1>8, <1>15, <1>21
    <2>2. /\ e \in Nat \X Nat /\ e[2] > 0 /\ c.cur <= e[1] /\ Ends(e, dss'.brk)
      BY <1>7, <2>1
    <2>3. Proper(e)'
      BY <1>4, <1>16, <2>1, <2>2 DEF Proper, Ends
    <2>4. ASSUME NEW f \in Nat \X Nat, Ends(f, dss.brk) PROVE Ends(f, e[1])
      BY <1>16, <2>1, <2>2, <2>4 DEF Ends
    <2> QED BY <2>2, <2>3, <2>4
  <1>22. ASSUME NEW u \in DssThreads PROVE DssTakenOK(u)'
    <2>1. CASE u = t
      <3>1. ASSUME NEW e \in Taken(t)', NEW f \in DssAll PROVE DisjointFrom(e, f)
        BY <1>21, <3>1, ExtentTypes DEF DssInv, DssOwnedOK, Proper, DisjointFrom
      <3>2. ASSUME NEW e \in Taken(t)', NEW v \in DssThreads \ {t}, NEW f \in Taken(v)
            PROVE  DisjointFrom(e, f)
        BY <1>21, <3>2, ExtentTypes DEF DssInv, DssTakenOK, Proper, DisjointFrom
      <3>3. dsc'[t].pc # "gap"
        BY <1>3, <1>11
      <3> QED BY <1>14, <1>15, <1>21, <2>1, <3>1, <3>2, <3>3
              DEF DssTakenOK, DisjointFrom, Ends
    <2>2. CASE u # t
      <3>1. DssTakenOK(u) /\ Taken(u)' = Taken(u) /\ dsc'[u] = dsc[u]
        BY <1>11, <1>15, <2>2 DEF DssInv
      <3>2. ASSUME NEW e \in Taken(u), NEW f \in Taken(t)' PROVE DisjointFrom(e, f)
        BY <1>21, <3>2, ExtentTypes DEF DssInv, DssTakenOK, Proper, DisjointFrom
      <3>3. \A e \in Taken(u) : Proper(e)'
        BY <1>17, <3>1, ExtentTypes DEF DssTakenOK
      <3>4. ASSUME NEW e \in Taken(u), NEW v \in DssThreads \ {u}, NEW f \in Taken(v)'
            PROVE  DisjointFrom(e, f)
        BY <1>15, <3>1, <3>2, <3>4 DEF DssTakenOK
      <3> QED BY <1>8, <1>14, <3>1, <3>3, <3>4 DEF DssTakenOK, DisjointFrom, Ends
    <2> QED BY <2>1, <2>2
  <1> QED BY <1>10, <1>12, <1>13, <1>18, <1>19, <1>20, <1>22 DEF DssInv

\* The call returns: what it had obtained becomes the caller's extent and, when there
\* is one, a gap with the edata_t reserved for it.
LEMMA ReturnInv ==
    ASSUME DssInv, NEW t \in DssThreads, DssReturn(t)
    PROVE  DssInv'
  <1> DEFINE c == dsc[t]
             e1 == << DssRet(c), c.size >>
             g == DssGap(c)
  <1>1. /\ DssTypeOK /\ c \in DssCall /\ DssCallOK(c) /\ c.pc = "gap" /\ DssTakenOK(t)
    BY DEF DssInv, DssTypeOK, DssReturn
  <1>2. /\ DssGoto(t, DssIdle)
        /\ dss' = IF g[2] # 0
                  THEN [dss EXCEPT !.ours = dss.ours \cup {e1}, !.gaps = dss.gaps \cup {g}]
                  ELSE [dss EXCEPT !.ours = dss.ours \cup {e1}, !.edatas = dss.edatas + 1]
    BY DEF DssReturn
  <1>3. DssIdle \in DssCall /\ DssIdle.pc = "idle"
    BY DssAssumption DEF DssIdle, DssCall
  <1>4. /\ c.cur \in 0 .. DssLimit /\ << c.size, c.align >> \in DssRequests
        /\ ~DssWraps(c)
    BY <1>1 DEF DssCall, DssCallOK
  <1>5. /\ \A e \in Obtained(c) : e \in Nat \X Nat /\ e[2] > 0 /\ e[1] % DssPage = 0
        /\ \A e, f \in Obtained(c) : e # f => DisjointFrom(e, f)
        /\ e1 \in Obtained(c) /\ e1 # g
    BY <1>4, ObtainedIs
  <1>6. Obtained(c) = IF g[2] # 0 THEN {e1, g} ELSE {e1}
    BY <1>5 DEF Obtained
  <1>7. Taken(t) = Obtained(c)
    BY <1>1 DEF Taken
  <1> HIDE DEF c, e1, g
  <1>8. /\ dss'.ours = dss.ours \cup {e1}
        /\ dss'.gaps = (IF g[2] # 0 THEN dss.gaps \cup {g} ELSE dss.gaps)
        /\ dss'.edatas = (IF g[2] # 0 THEN dss.edatas ELSE dss.edatas + 1)
        /\ dss'.raw = dss.raw /\ dss'.brk = dss.brk /\ dss'.max = dss.max
        /\ dss'.extending = dss.extending
    BY <1>1, <1>2 DEF DssTypeOK
  <1>9. DssTypeOK'
    <2>1. dss.edatas + 1 \in Int
      BY <1>1 DEF DssTypeOK
    <2>2. dsc' \in [DssThreads -> DssCall]
      BY <1>1, <1>2, <1>3 DEF DssTypeOK, DssGoto
    <2>3. dss.ours \cup {e1} \in SUBSET (Nat \X Nat)
      BY <1>1, <1>5 DEF DssTypeOK
    <2>4. g[2] # 0 => dss.gaps \cup {g} \in SUBSET (Nat \X Nat)
      BY <1>1, <1>5, <1>6 DEF DssTypeOK
    <2>5. CASE g[2] # 0
      BY <1>1, <1>2, <2>2, <2>3, <2>4, <2>5 DEF DssTypeOK
    <2>6. CASE g[2] = 0
      BY <1>1, <1>2, <2>1, <2>2, <2>3, <2>6 DEF DssTypeOK
    <2> QED BY <2>5, <2>6
  <1>10. dsc'[t] = DssIdle /\ \A u \in DssThreads : u # t => dsc'[u] = dsc[u]
    BY <1>1, <1>2 DEF DssTypeOK, DssGoto
  <1>11. DssExclusive'
    BY <1>3, <1>8, <1>10 DEF DssInv, DssExclusive, Extending
  <1>12. /\ DssMine' = DssMine \cup Obtained(c) /\ DssAll' = DssAll \cup Obtained(c)
    BY <1>6, <1>8 DEF DssMine, DssAll
  <1>13. /\ \A u \in DssThreads : u # t => Taken(u)' = Taken(u)
         /\ Taken(t)' = {}
    BY <1>3, <1>10 DEF Taken, Obtained, DssRet, DssGap, AddrCeiling
  <1>14. \A e : Proper(e)' <=> Proper(e)
    BY <1>8 DEF Proper, Ends
  <1>15. \A e \in Obtained(c) : /\ Proper(e) /\ Ends(e, dss.max)
                                /\ \A f \in DssAll : DisjointFrom(e, f) /\ DisjointFrom(f, e)
    BY <1>1, <1>7 DEF DssTakenOK, DisjointFrom, c
  <1>16. DssOwnedOK'
    <2>4. Obtained(c) \cap DssAll = {}
      <3>1. ASSUME NEW e \in Obtained(c) PROVE ~DisjointFrom(e, e)
        <4>1. e \in Nat \X Nat /\ e[2] > 0
          BY <1>5
        <4> QED BY <4>1 DEF DisjointFrom, Ends
      <3> QED BY <1>15, <3>1
    <2>5. (dss.ours \cap dss.gaps = {})'
      BY <1>5, <1>6, <1>8, <2>4 DEF DssInv, DssOwnedOK, DssAll, DssMine
    <2>6. (DssMine \cap dss.raw = {})'
      BY <1>8, <1>12, <2>4 DEF DssInv, DssOwnedOK, DssAll
    <2>1. \A e \in DssAll' : Proper(e)'
      BY <1>12, <1>14, <1>15 DEF DssInv, DssOwnedOK
    <2>2. ASSUME NEW e \in DssAll', NEW f \in DssAll', e # f PROVE DisjointFrom(e, f)
      BY <1>5, <1>12, <1>15, <2>2 DEF DssInv, DssOwnedOK
    <2>3. \A e \in DssMine' : e[1] % DssPage = 0 /\ Ends(e, dss.max)
      BY <1>5, <1>12, <1>15 DEF DssInv, DssOwnedOK
    <2> QED BY <1>8, <2>1, <2>2, <2>3, <2>5, <2>6 DEF DssOwnedOK, DisjointFrom, Ends
  <1>17. DssCounted'
    <2>1. Cardinality(DssBusy') = Cardinality(DssBusy) - 1 /\ Cardinality(DssBusy) \in Nat
      BY <1>1, <1>2, <1>3, BusyIs DEF c
    <2>2. IsFiniteSet(dss.gaps) /\ Cardinality(dss.gaps) \in Nat /\ dss.edatas \in Int
      BY <1>1, FS_CardinalityType DEF DssInv, DssCounted, DssTypeOK
    <2>3. DssEdatas = dss.edatas + Cardinality(dss.gaps) + Cardinality(DssBusy)
      BY DEF DssInv, DssCounted
    <2>4. CASE g[2] = 0
      <3>1. dss'.gaps = dss.gaps /\ dss'.edatas = dss.edatas + 1
        BY <1>8, <2>4
      <3> QED BY <2>1, <2>2, <2>3, <3>1 DEF DssCounted
    <2>5. CASE g[2] # 0
      <3>1. g \notin dss.gaps
        <4>1. g \in Obtained(c)
          BY <1>6, <2>5
        <4>2. g \in Nat \X Nat /\ g[2] > 0
          BY <1>5, <4>1
        <4>3. ~DisjointFrom(g, g)
          BY <4>2 DEF DisjointFrom, Ends
        <4> QED BY <1>15, <4>1, <4>3 DEF DssAll, DssMine
      <3>2. /\ IsFiniteSet(dss'.gaps)
            /\ Cardinality(dss'.gaps) = Cardinality(dss.gaps) + 1
        <4>1. dss'.gaps = dss.gaps \cup {g}
          BY <1>8, <2>5
        <4> QED BY <2>2, <3>1, <4>1, FS_AddElement
      <3>3. dss'.edatas = dss.edatas
        BY <1>8, <2>5
      <3> QED BY <2>1, <2>2, <2>3, <3>2, <3>3 DEF DssCounted
    <2> QED BY <2>4, <2>5
  <1>18. ASSUME NEW u \in DssThreads PROVE DssCallOK(dsc[u])'
    <2>1. DssCallOK(DssIdle)
      BY <1>3 DEF DssCallOK
    <2>2. DssCallOK(dsc'[u])
      BY <1>10, <2>1 DEF DssInv
    <2> QED BY <2>2 DEF DssCallOK, DssWraps, DssRet, DssEnd
  <1>19. ASSUME NEW u \in DssThreads, dsc'[u].pc \in {"extend", "store"}
         PROVE  DssBelow(u, dsc[u].cur)'
    <2>1. u # t /\ DssBelow(u, dsc[u].cur) /\ dsc'[u] = dsc[u]
      BY <1>3, <1>10, <1>19 DEF DssInv
    <2>2. \A e \in Obtained(c) : Ends(e, dsc[u].cur)
      BY <1>7, <2>1 DEF DssBelow
    <2> QED BY <1>12, <1>13, <2>1, <2>2 DEF DssBelow, Ends
  <1>20. ASSUME NEW u \in DssThreads PROVE DssTakenOK(u)'
    <2>1. CASE u = t
      BY <1>13, <2>1 DEF DssTakenOK
    <2>2. CASE u # t
      <3>1. DssTakenOK(u) /\ Taken(u)' = Taken(u) /\ dsc'[u] = dsc[u]
        BY <1>10, <1>13, <2>2 DEF DssInv
      <3>2. ASSUME NEW e \in Taken(u), NEW f \in DssAll' PROVE DisjointFrom(e, f)
        BY <1>7, <1>12, <2>2, <3>1, <3>2 DEF DssTakenOK
      <3>3. ASSUME NEW e \in Taken(u), NEW v \in DssThreads \ {u}, NEW f \in Taken(v)'
            PROVE  DisjointFrom(e, f)
        BY <1>13, <3>1, <3>3 DEF DssTakenOK
      <3> QED BY <1>8, <1>14, <3>1, <3>2, <3>3 DEF DssTakenOK, DisjointFrom, Ends
    <2> QED BY <2>1, <2>2
  <1> QED BY <1>9, <1>11, <1>16, <1>17, <1>18, <1>19, <1>20 DEF DssInv

\* A step outside the allocator: the calls are as they were, the allocator owns what
\* it did, and everything left is proper and apart.
LEMMA RawInv ==
    ASSUME DssInv, DssTypeOK', dsc' = dsc,
           dss'.ours = dss.ours, dss'.gaps = dss.gaps, dss'.max = dss.max,
           dss'.extending = dss.extending, dss'.edatas = dss.edatas,
           DssMine \cap dss'.raw = {},
           \A e \in DssAll' : Proper(e)',
           \A t \in DssThreads : \A e \in Taken(t) : Proper(e)',
           \A e, f \in DssAll' : e # f => DisjointFrom(e, f),
           \A t \in DssThreads : \A e \in Taken(t), f \in DssAll' : DisjointFrom(e, f)
    PROVE  DssInv'
  <1>1. DssMine' = DssMine /\ \A t \in DssThreads : Taken(t)' = Taken(t)
    BY DEF DssMine, Taken, Obtained, DssRet, DssGap, AddrCeiling
  <1>2. DssExclusive' /\ DssCounted'
    BY DEF DssInv, DssExclusive, DssCounted, Extending, DssBusy
  <1>3. DssOwnedOK'
    <2>1. (dss.ours \cap dss.gaps = {})' /\ (DssMine \cap dss.raw = {})'
      BY <1>1 DEF DssInv, DssOwnedOK
    <2> QED BY <1>1, <2>1 DEF DssInv, DssOwnedOK, DisjointFrom, Ends
  <1>4. ASSUME NEW t \in DssThreads
        PROVE  /\ DssCallOK(dsc[t])'
               /\ (dsc[t].pc \in {"extend", "store"} => DssBelow(t, dsc[t].cur))'
    BY <1>1 DEF DssInv, DssCallOK, DssWraps, DssRet, DssEnd, DssBelow, Ends
  <1>5. ASSUME NEW t \in DssThreads PROVE DssTakenOK(t)'
    BY <1>1 DEF DssInv, DssTakenOK, DisjointFrom, Ends
  <1> QED BY <1>2, <1>3, <1>4, <1>5 DEF DssInv

LEMMA RawSbrkInv ==
    ASSUME DssInv, RawSbrk
    PROVE  DssInv'
  <1>1. PICK n \in DssRawSizes :
           /\ ~(dss.brk + n > DssLimit) /\ dsc' = dsc
           /\ dss' = [dss EXCEPT !.brk = dss.brk + n, !.raws = dss.raws + 1,
                                 !.raw = dss.raw \cup {<< dss.brk, n >>}]
    BY DEF RawSbrk, SbrkFails
  <1>0. PICK e1 : e1 = << dss.brk, n >>
    OBVIOUS
  <1>2. /\ n \in Nat /\ n > 0 /\ dss.brk \in Nat /\ DssBase \in Nat /\ DssLimit \in Nat
        /\ DssBase <= dss.brk /\ DssTypeOK
    BY DssAssumption DEF DssInv, DssTypeOK
  <1>3. e1 \in Nat \X Nat /\ e1[1] = dss.brk /\ e1[2] = n
    BY <1>0, <1>2
  <1>4. DssTypeOK'
    <2>1. dss.brk + n \in DssBase .. DssLimit /\ dss.raws + 1 \in Nat
      BY <1>1, <1>2 DEF DssTypeOK
    <2>2. dss.raw \cup {e1} \in SUBSET (Nat \X Nat)
      BY <1>2, <1>3 DEF DssTypeOK
    <2> QED BY <1>0, <1>1, <1>2, <2>1, <2>2 DEF DssTypeOK
  <1>5. /\ dss'.ours = dss.ours /\ dss'.gaps = dss.gaps /\ dss'.max = dss.max
        /\ dss'.extending = dss.extending /\ dss'.edatas = dss.edatas
        /\ dss'.raw = dss.raw \cup {e1} /\ dss'.brk = dss.brk + n
    BY <1>0, <1>1, <1>2 DEF DssTypeOK
  <1>6. DssAll' = DssAll \cup {e1}
    BY <1>5 DEF DssAll, DssMine
  <1>7. \A e \in Nat \X Nat : Proper(e) => Proper(e)'
    BY <1>2, <1>5, ProperGrows
  <1>8. Proper(e1)'
    BY <1>2, <1>3, <1>5 DEF Proper, Ends
  <1>9. \A e : Proper(e) => e # e1 /\ DisjointFrom(e, e1) /\ DisjointFrom(e1, e)
    <2>1. ASSUME NEW e, Proper(e) PROVE Ends(e, e1[1])
      BY <1>3, <2>1 DEF Proper
    <2>2. ~Ends(e1, e1[1])
      BY <1>2, <1>3 DEF Ends
    <2> QED BY <2>1, <2>2 DEF DisjointFrom
  <1>10. /\ \A e \in DssAll : Proper(e) /\ e \in Nat \X Nat
         /\ \A t \in DssThreads : \A e \in Taken(t) : Proper(e) /\ e \in Nat \X Nat
    BY ExtentTypes DEF DssInv, DssOwnedOK, DssTakenOK
  <1>11. DssMine \cap dss'.raw = {}
    BY <1>5, <1>9, <1>10 DEF DssInv, DssOwnedOK, DssAll
  <1>12. \A e, f \in DssAll' : e # f => DisjointFrom(e, f)
    BY <1>6, <1>9, <1>10 DEF DssInv, DssOwnedOK
  <1>13. \A t \in DssThreads : \A e \in Taken(t), f \in DssAll' : DisjointFrom(e, f)
    BY <1>6, <1>9, <1>10 DEF DssInv, DssTakenOK
  <1>14. \A e \in DssAll' : Proper(e)'
    BY <1>6, <1>7, <1>8, <1>10
  <1> QED BY <1>1, <1>4, <1>5, <1>7, <1>10, <1>11, <1>12, <1>13, <1>14, RawInv

LEMMA RawReleaseInv ==
    ASSUME DssInv, RawRelease
    PROVE  DssInv'
  <1>1. PICK x \in dss.raw : /\ x[1] + x[2] = dss.brk /\ dsc' = dsc
                             /\ dss' = [dss EXCEPT !.brk = x[1], !.raw = dss.raw \ {x}]
    BY DEF RawRelease
  <1>2. /\ DssTypeOK /\ x \in DssAll /\ x \in Nat \X Nat /\ Proper(x)
        /\ dss.brk \in DssBase .. DssLimit /\ DssBase \in Nat /\ DssLimit \in Nat
    BY <1>1, DssAssumption DEF DssInv, DssTypeOK, DssAll, DssOwnedOK
  <1>3. x[1] \in DssBase .. DssLimit /\ x[1] \in Nat /\ x[2] \in Nat
    BY <1>1, <1>2 DEF Proper
  <1>4. DssTypeOK'
    <2>1. dss.raw \ {x} \in SUBSET (Nat \X Nat)
      BY <1>2 DEF DssTypeOK
    <2> QED BY <1>1, <1>2, <1>3, <2>1 DEF DssTypeOK
  <1>5. /\ dss'.ours = dss.ours /\ dss'.gaps = dss.gaps /\ dss'.max = dss.max
        /\ dss'.extending = dss.extending /\ dss'.edatas = dss.edatas
        /\ dss'.raw = dss.raw \ {x} /\ dss'.brk = x[1]
    BY <1>1, <1>2 DEF DssTypeOK
  <1>6. DssAll' = DssAll \ {x} /\ DssMine \cap dss'.raw = {}
    BY <1>1, <1>5 DEF DssAll, DssMine, DssInv, DssOwnedOK
  <1>7. ASSUME NEW e \in Nat \X Nat, Proper(e), DisjointFrom(e, x) \/ DisjointFrom(x, e)
        PROVE  Proper(e)'
    <2>1. ~Ends(x, e[1])
      BY <1>1, <1>3, <1>7 DEF Proper, Ends
    <2> QED BY <1>5, <1>7, <2>1 DEF Proper, DisjointFrom, Ends
  <1>8. \A e \in DssAll' : Proper(e)'
    BY <1>2, <1>6, <1>7, ExtentTypes DEF DssInv, DssOwnedOK
  <1>9. \A t \in DssThreads : \A e \in Taken(t) : Proper(e)'
    BY <1>2, <1>7, ExtentTypes DEF DssInv, DssTakenOK
  <1>10. \A e, f \in DssAll' : e # f => DisjointFrom(e, f)
    BY <1>6 DEF DssInv, DssOwnedOK
  <1>11. \A t \in DssThreads : \A e \in Taken(t), f \in DssAll' : DisjointFrom(e, f)
    BY <1>6 DEF DssInv, DssTakenOK
  <1> QED BY <1>1, <1>4, <1>5, <1>6, <1>8, <1>9, <1>10, <1>11, RawInv

LEMMA DssInvNext == DssInv /\ [DssNext]_dssvars => DssInv'
  <1> SUFFICES ASSUME DssInv, [DssNext]_dssvars PROVE DssInv'
    OBVIOUS
  <1>1. ASSUME NEW t \in DssThreads, extent_alloc_dss(t) \/ DssStep(t) PROVE DssInv'
    BY <1>1, AllocInv, CriticalInv, ExtendInv, StoreInv, ReturnInv, OomInv DEF DssStep
  <1>2. CASE UNCHANGED dssvars
    <2>1. dss' = dss /\ dsc' = dsc
      BY <1>2 DEF dssvars
    <2>2. DssTypeOK' /\ DssAll' = DssAll
      BY <2>1 DEF DssInv, DssTypeOK, DssAll, DssMine
    <2>3. \A e : Proper(e)' <=> Proper(e)
      BY <2>1 DEF Proper, Ends
    <2> QED BY <2>1, <2>2, <2>3, RawInv DEF DssInv, DssOwnedOK, DssTakenOK
  <1> QED BY <1>1, <1>2, RawSbrkInv, RawReleaseInv DEF DssNext

\* What the allocator's sbrk users own, in the words of the runs.
LEMMA DssInvApart == DssInv => DssApart
  <1> SUFFICES ASSUME DssInv PROVE DssApart
    OBVIOUS
  <1>1. ASSUME NEW e \in Nat \X Nat, NEW f \in Nat \X Nat, DisjointFrom(e, f)
        PROVE  Span(e) \cap Span(f) = {}
    BY <1>1 DEF DisjointFrom, Ends, Span
  <1>2. ASSUME NEW e \in DssMine, NEW a \in Span(e)
        PROVE  extent_in_dss(a) /\ ~extent_dss_mergeable(a, DssBase - 1)
    <2>1. /\ e \in Nat \X Nat /\ DssBase <= e[1] /\ Ends(e, dss.max)
          /\ dss.max \in Nat /\ DssBase \in Nat
      BY ExtentTypes, DssAssumption DEF DssInv, DssOwnedOK, Proper, DssAll
    <2>2. a \in Int /\ DssBase <= a /\ a < dss.max
      BY <1>2, <2>1 DEF Span, Ends
    <2> QED BY <2>1, <2>2 DEF extent_in_dss, extent_dss_mergeable
  <1>3. /\ \A e, f \in DssAll : e # f => Span(e) \cap Span(f) = {}
        /\ \A e \in DssAll : e[1] + e[2] <= dss.brk
    BY <1>1, ExtentTypes DEF DssInv, DssOwnedOK, Proper, Ends
  <1>4. ASSUME NEW t \in DssThreads, NEW e \in Taken(t)
        PROVE  /\ \A f \in DssAll : Span(e) \cap Span(f) = {}
               /\ \A u \in DssThreads \ {t} : \A f \in Taken(u) : Span(e) \cap Span(f) = {}
    BY <1>1, ExtentTypes DEF DssInv, DssTakenOK
  <1>5. /\ dss.ours \cap dss.gaps = {} /\ (dss.ours \cup dss.gaps) \cap dss.raw = {}
        /\ \A e \in DssMine : e[1] % DssPage = 0
    BY DEF DssInv, DssOwnedOK, DssMine
  <1>6. dss.edatas + Cardinality(dss.gaps)
          + Cardinality({t \in DssThreads : dsc[t].pc # "idle"}) = DssEdatas
    BY DEF DssInv, DssCounted, DssBusy
  <1>7. DssAll = dss.ours \cup dss.gaps \cup dss.raw /\ DssMine = dss.ours \cup dss.gaps
    BY DEF DssAll, DssMine
  <1> QED BY <1>2, <1>3, <1>4, <1>5, <1>6, <1>7 DEF DssApart

(* No byte of the data segment has two owners, whatever sbrk calls other code makes
   between the steps of extent_alloc_dss; extent_in_dss knows every extent, and the
   edata_t structures taken from the cache are all accounted for. *)
THEOREM DssApartAlways == DssSpec => []DssApart
  <1>1. DssInit => DssInv
    BY InitInv
  <1>2. DssInv /\ [DssNext]_dssvars => DssInv'
    BY DssInvNext
  <1>3. DssInv => DssApart
    BY DssInvApart
  <1> QED BY <1>1, <1>2, <1>3, PTL DEF DssSpec
=============================================================================
