---------------------------- MODULE CuckooProofs ----------------------------
(***************************************************************************)
(* The cuckoo hash table of ckh.c implements a set of keys (KeySet), for   *)
(* every set of keys, hash functions, table sizes and random choices: no   *)
(* eviction, cycle, rebuild that backs out or failed allocation loses or   *)
(* duplicates a key, but for the one that a failed insertion drops.  The   *)
(* argument is the invariant CkhInv of CuckooHash.                         *)
(***************************************************************************)
EXTENDS CuckooHash, FiniteSetTheorems, TLAPS

-----------------------------------------------------------------------------
(* Arithmetic of buckets and cells. *)

\* A bucket has at least one cell, a table at least one bucket.
LEMMA Sizes ==
    /\ Cells \in Nat \ {0}
    /\ lg_minbuckets \in Nat /\ CkhMaxLg \in Nat
    /\ \A lg \in 0 .. CkhMaxLg : 2 ^ lg \in Nat \ {0}
  BY CkhAssumption, CkhPowers DEF Cells

\* The cells of a bucket of the table are cells of the table.
LEMMA BucketInside ==
    ASSUME NEW n \in Nat, NEW b \in 0 .. n - 1
    PROVE  BucketCells(b) \subseteq 0 .. n * Cells - 1
  <1> DEFINE w == Cells
  <1>1. w \in Nat
    BY Sizes
  <1>2. \A c \in b * w .. (b + 1) * w - 1 : c \in 0 .. n * w - 1
    <2> HIDE DEF w
    <2>1. b * w \in Nat /\ (b + 1) * w <= n * w /\ n * w \in Nat /\ (b + 1) * w \in Nat
      BY <1>1
    <2> QED BY <2>1
  <1> QED BY <1>2 DEF BucketCells, w

\* Both buckets of a key (ckh_isearch, ckh_try_insert) are in the table.
LEMMA BucketRange ==
    ASSUME ckhash \in CkhHashes, NEW t, t.lg \in 0 .. CkhMaxLg,
           NEW k \in CkhKeys, NEW b \in BucketsOf(t, k)
    PROVE  /\ b \in 0 .. 2 ^ t.lg - 1
           /\ BucketCells(b) \subseteq 0 .. 2 ^ t.lg * Cells - 1
  <1> DEFINE n == 2 ^ t.lg
  <1>1. n \in Nat \ {0}
    BY Sizes
  <1>2. ckhash[k][1] \in Nat /\ ckhash[k][2] \in Nat
    BY CkhAssumption
  <1>3. b = ckhash[k][1] % n \/ b = ckhash[k][2] % n
    BY DEF BucketsOf, Bucket
  <1> HIDE DEF n
  <1>4. b \in 0 .. n - 1
    BY <1>1, <1>2, <1>3
  <1> QED BY <1>1, <1>4, BucketInside DEF n

-----------------------------------------------------------------------------
(* What a sound table is. *)

LEMMA TableFacts ==
    ASSUME NEW t, TableOK(t)
    PROVE  /\ t.lg \in 0 .. CkhMaxLg /\ t.lg >= lg_minbuckets
           /\ DOMAIN t.tab = 0 .. 2 ^ t.lg * Cells - 1
           /\ \A c \in DOMAIN t.tab : t.tab[c] \in CkhKeys \cup {NoKey}
           /\ IsFiniteSet(Occupied(t.tab))
           /\ t.count \in Nat
           /\ \A c \in Occupied(t.tab) : c \in DOMAIN t.tab /\ t.tab[c] \in CkhKeys
           /\ Stored(t) \subseteq CkhKeys
  <1>1. t \in [tab : [0 .. 2 ^ t.lg * Cells - 1 -> CkhKeys \cup {NoKey}],
               lg : lg_minbuckets .. CkhMaxLg, count : Nat]
    BY DEF TableOK
  <1>2. t.lg \in 0 .. CkhMaxLg /\ t.lg >= lg_minbuckets
    BY <1>1, Sizes
  <1>3. t.tab \in [0 .. 2 ^ t.lg * Cells - 1 -> CkhKeys \cup {NoKey}]
    BY <1>1
  <1>4. \A c \in Occupied(t.tab) : c \in DOMAIN t.tab /\ t.tab[c] \in CkhKeys
    BY <1>3 DEF Occupied
  <1>5. 2 ^ t.lg * Cells - 1 \in Int
    BY <1>2, Sizes
  <1>6. IsFiniteSet(DOMAIN t.tab)
    BY <1>3, <1>5, FS_Interval
  <1>7. IsFiniteSet(Occupied(t.tab))
    BY <1>6, FS_Subset DEF Occupied
  <1> QED BY <1>1, <1>2, <1>3, <1>4, <1>7 DEF Stored

\* ckh_search finds exactly the keys that are in some cell, and the count is
\* their number.
LEMMA FoundStored ==
    ASSUME ckhash \in CkhHashes, NEW t, TableOK(t)
    PROVE  /\ Found(t) = Stored(t)
           /\ IsFiniteSet(Stored(t))
           /\ t.count = Cardinality(Stored(t))
  <1>1. ASSUME NEW k \in Found(t) PROVE k \in Stored(t)
    <2>1. k \in CkhKeys /\ k # NoKey /\ ckh_isearch(t, k) # {}
      BY CkhAssumption DEF Found, NoKey
    <2>2. PICK b \in BucketsOf(t, k) : \E c \in BucketCells(b) : t.tab[c] = k
      BY <2>1 DEF ckh_isearch, ckh_bucket_search, BucketsOf
    <2>3. BucketCells(b) \subseteq DOMAIN t.tab
      BY <2>1, TableFacts, BucketRange
    <2> QED BY <2>1, <2>2, <2>3 DEF Stored, Occupied
  <1>2. ASSUME NEW k \in Stored(t) PROVE k \in Found(t)
    <2>1. PICK c \in Occupied(t.tab) : t.tab[c] = k
      BY DEF Stored
    <2>2. k \in CkhKeys
      BY <2>1, TableFacts
    <2>3. PICK b \in BucketsOf(t, k) : c \in BucketCells(b)
      BY <2>1 DEF TableOK
    <2>4. ckh_isearch(t, k) # {}
      BY <2>1, <2>3 DEF ckh_isearch, ckh_bucket_search, BucketsOf
    <2> QED BY <2>2, <2>4 DEF Found
  <1>3. Found(t) = Stored(t)
    BY <1>1, <1>2
  <1>4. ExistsBijection(Occupied(t.tab), Stored(t))
    <2> DEFINE f == [c \in Occupied(t.tab) |-> t.tab[c]]
    <2>1. f \in [Occupied(t.tab) -> Stored(t)]
      BY DEF Stored
    <2>2. \A c, d \in Occupied(t.tab) : f[c] = f[d] => c = d
      BY DEF TableOK
    <2>3. \A k \in Stored(t) : \E c \in Occupied(t.tab) : f[c] = k
      BY DEF Stored
    <2> HIDE DEF f
    <2>4. f \in Bijection(Occupied(t.tab), Stored(t))
      BY <2>1, <2>2, <2>3 DEF Bijection, Injection, Surjection, IsInjective
    <2> QED BY <2>4 DEF ExistsBijection
  <1>5. IsFiniteSet(Occupied(t.tab)) /\ t.count = Cardinality(Occupied(t.tab))
    BY TableFacts DEF TableOK
  <1> QED BY <1>3, <1>4, <1>5, FS_Bijection

-----------------------------------------------------------------------------
(* What the operations on cells do to a sound table. *)

\* The fields of a table after an assignment to one cell.
LEMMA CellFields ==
    ASSUME NEW L, NEW D, NEW K, NEW t \in [tab : [D -> K], lg : L, count : Nat],
           NEW c \in D, NEW k \in K, NEW n \in Nat
    PROVE  LET s == [t EXCEPT !.tab[c] = k, !.count = n]
           IN  /\ s \in [tab : [D -> K], lg : L, count : Nat]
               /\ s.tab = [t.tab EXCEPT ![c] = k] /\ s.lg = t.lg /\ s.count = n
  OBVIOUS

LEMMA CellField ==
    ASSUME NEW L, NEW D, NEW K, NEW t \in [tab : [D -> K], lg : L, count : Nat],
           NEW c \in D, NEW k \in K
    PROVE  LET s == [t EXCEPT !.tab[c] = k]
           IN  /\ s \in [tab : [D -> K], lg : L, count : Nat]
               /\ s.tab = [t.tab EXCEPT ![c] = k] /\ s.lg = t.lg /\ s.count = t.count
  OBVIOUS

LEMMA TabFields ==
    ASSUME NEW L, NEW D, NEW K, NEW t \in [tab : [D -> K], lg : L, count : Nat],
           NEW f \in [D -> K], NEW n \in Nat
    PROVE  LET s == [t EXCEPT !.tab = f, !.count = n]
           IN  /\ s \in [tab : [D -> K], lg : L, count : Nat]
               /\ s.tab = f /\ s.lg = t.lg /\ s.count = n
  OBVIOUS

\* ckh_try_bucket_insert puts a new key in a free cell of one of its buckets.
LEMMA PutOK ==
    ASSUME ckhash \in CkhHashes, NEW t, TableOK(t), NEW k \in CkhKeys \ Stored(t),
           NEW b \in BucketsOf(t, k), NEW c \in CkhFree(t, b)
    PROVE  /\ TableOK(Put(t, c, k))
           /\ Stored(Put(t, c, k)) = Stored(t) \cup {k}
           /\ Put(t, c, k).lg = t.lg
  <1> DEFINE s == Put(t, c, k)
             D == 0 .. 2 ^ t.lg * Cells - 1
             K == CkhKeys \cup {NoKey}
  <1>1. t \in [tab : [D -> K], lg : lg_minbuckets .. CkhMaxLg, count : Nat]
    BY DEF TableOK
  <1>2. c \in BucketCells(b) /\ t.tab[c] = NoKey /\ c \in D
    BY TableFacts, BucketRange DEF CkhFree
  <1>3. t.count + 1 \in Nat /\ s = [t EXCEPT !.tab[c] = k, !.count = t.count + 1]
    BY <1>1 DEF Put
  <1> HIDE DEF s, D, K
  <1>4. /\ s \in [tab : [D -> K], lg : lg_minbuckets .. CkhMaxLg, count : Nat]
        /\ s.tab = [t.tab EXCEPT ![c] = k] /\ s.lg = t.lg /\ s.count = t.count + 1
    <2>1. k \in K
      BY DEF K
    <2> QED BY <1>1, <1>2, <1>3, <2>1, CellFields
  <1>5. k # NoKey
    BY CkhAssumption DEF NoKey
  <1>6. t.tab \in [D -> K]
    BY <1>1
  <1>7. Occupied(s.tab) = Occupied(t.tab) \cup {c} /\ c \notin Occupied(t.tab)
    BY <1>2, <1>4, <1>5, <1>6 DEF Occupied
  <1>8. \A d \in Occupied(t.tab) : s.tab[d] = t.tab[d] /\ t.tab[d] # k
    BY <1>2, <1>4, <1>6, <1>7 DEF Occupied, Stored
  <1>9. s.tab[c] = k
    BY <1>2, <1>4, <1>6
  <1>10. s.count = Cardinality(Occupied(s.tab))
    <2>1. IsFiniteSet(Occupied(t.tab)) /\ t.count = Cardinality(Occupied(t.tab))
      BY TableFacts DEF TableOK
    <2> QED BY <1>4, <1>7, <2>1, FS_AddElement
  <1>11. \A j : BucketsOf(s, j) = BucketsOf(t, j)
    BY <1>4 DEF BucketsOf, Bucket
  <1>12. \A d \in Occupied(s.tab) :
           \E a \in BucketsOf(s, s.tab[d]) : d \in BucketCells(a)
    BY <1>2, <1>7, <1>8, <1>9, <1>11 DEF TableOK
  <1>13. \A d, e \in Occupied(s.tab) : s.tab[d] = s.tab[e] => d = e
    BY <1>7, <1>8, <1>9 DEF TableOK
  <1>14. TableOK(s)
    BY <1>4, <1>10, <1>12, <1>13 DEF TableOK, D, K
  <1>15. Stored(s) = Stored(t) \cup {k}
    BY <1>7, <1>8, <1>9 DEF Stored
  <1> QED BY <1>4, <1>14, <1>15 DEF s

\* ckh_evict_reloc_insert swaps the key in hand for the victim in the cell.
LEMMA SwapOK ==
    ASSUME ckhash \in CkhHashes, NEW t, TableOK(t), NEW k \in CkhKeys \ Stored(t),
           NEW b \in BucketsOf(t, k), NEW c \in BucketCells(b), t.tab[c] # NoKey,
           NEW s, s = [t EXCEPT !.tab[c] = k]
    PROVE  /\ TableOK(s) /\ s.lg = t.lg
           /\ t.tab[c] \in Stored(t)
           /\ Stored(s) = (Stored(t) \ {t.tab[c]}) \cup {k}
  <1> DEFINE D == 0 .. 2 ^ t.lg * Cells - 1
             K == CkhKeys \cup {NoKey}
  <1>1. t \in [tab : [D -> K], lg : lg_minbuckets .. CkhMaxLg, count : Nat]
    BY DEF TableOK
  <1>2. c \in D
    BY TableFacts, BucketRange
  <1> HIDE DEF D, K
  <1>4. /\ s \in [tab : [D -> K], lg : lg_minbuckets .. CkhMaxLg, count : Nat]
        /\ s.tab = [t.tab EXCEPT ![c] = k] /\ s.lg = t.lg /\ s.count = t.count
    <2>1. k \in K
      BY DEF K
    <2> QED BY <1>1, <1>2, <2>1, CellField
  <1>5. k # NoKey
    BY CkhAssumption DEF NoKey
  <1>6. t.tab \in [D -> K]
    BY <1>1
  <1>7. Occupied(s.tab) = Occupied(t.tab) /\ c \in Occupied(t.tab)
    BY <1>2, <1>4, <1>5, <1>6 DEF Occupied
  <1>8. \A d \in Occupied(t.tab) : d # c => s.tab[d] = t.tab[d] /\ t.tab[d] # k
    BY <1>2, <1>4, <1>6, <1>7 DEF Occupied, Stored
  <1>9. s.tab[c] = k
    BY <1>2, <1>4, <1>6
  <1>10. s.count = Cardinality(Occupied(s.tab))
    BY <1>4, <1>7 DEF TableOK
  <1>11. \A j : BucketsOf(s, j) = BucketsOf(t, j)
    BY <1>4 DEF BucketsOf, Bucket
  <1>12. \A d \in Occupied(s.tab) :
           \E a \in BucketsOf(s, s.tab[d]) : d \in BucketCells(a)
    BY <1>7, <1>8, <1>9, <1>11 DEF TableOK
  <1>13. \A d, e \in Occupied(s.tab) : s.tab[d] = s.tab[e] => d = e
    BY <1>7, <1>8, <1>9 DEF TableOK
  <1>14. TableOK(s)
    BY <1>4, <1>10, <1>12, <1>13 DEF TableOK, D, K
  <1>15. \A d \in Occupied(t.tab) : t.tab[d] = t.tab[c] => d = c
    BY <1>7 DEF TableOK
  <1>16. Stored(s) = (Stored(t) \ {t.tab[c]}) \cup {k}
    BY <1>7, <1>8, <1>9, <1>15 DEF Stored
  <1> QED BY <1>4, <1>7, <1>14, <1>16 DEF Stored

\* ckh_isearch finds a key in one cell, which ckh_remove empties.
LEMMA ClearOK ==
    ASSUME ckhash \in CkhHashes, NEW t, TableOK(t), NEW k \in CkhKeys,
           ckh_isearch(t, k) # {}
    PROVE  LET s == Cleared(t, ckh_isearch(t, k))
           IN  TableOK(s) /\ s.lg = t.lg /\ k \in Stored(t) /\ Stored(s) = Stored(t) \ {k}
  <1> DEFINE s == Cleared(t, ckh_isearch(t, k))
             D == 0 .. 2 ^ t.lg * Cells - 1
             K == CkhKeys \cup {NoKey}
             f == [c \in DOMAIN t.tab |-> IF c \in ckh_isearch(t, k) THEN NoKey
                                                                  ELSE t.tab[c]]
  <1>1. t \in [tab : [D -> K], lg : lg_minbuckets .. CkhMaxLg, count : Nat]
    BY DEF TableOK
  <1>2. k # NoKey
    BY CkhAssumption DEF NoKey
  <1>3. \A b \in BucketsOf(t, k) : BucketCells(b) \subseteq D
    BY TableFacts, BucketRange
  <1> HIDE DEF D, K
  <1>4. t.tab \in [D -> K]
    BY <1>1
  <1>5. PICK c \in Occupied(t.tab) : ckh_isearch(t, k) = {c} /\ t.tab[c] = k
    <2>1. \A c \in ckh_isearch(t, k) : c \in Occupied(t.tab) /\ t.tab[c] = k
      BY <1>2, <1>3, <1>4
      DEF ckh_isearch, ckh_bucket_search, BucketsOf, Occupied
    <2>2. \A c, d \in ckh_isearch(t, k) : c = d
      BY <2>1 DEF TableOK
    <2> QED BY <2>1, <2>2
  <1>6. f \in [D -> K]
    BY <1>4 DEF K
  <1>7. t.count \in Nat \ {0} /\ IsFiniteSet(Occupied(t.tab))
    BY <1>5, TableFacts, FS_EmptySet DEF TableOK
  <1>8. s = [t EXCEPT !.tab = f, !.count = t.count - 1]
    BY <1>1 DEF Cleared
  <1> HIDE DEF f, s
  <1>9. /\ s \in [tab : [D -> K], lg : lg_minbuckets .. CkhMaxLg, count : Nat]
        /\ s.tab = f /\ s.lg = t.lg /\ s.count = t.count - 1
    <2>1. t.count - 1 \in Nat
      BY <1>7
    <2> QED BY <1>1, <1>6, <1>8, <2>1, TabFields
  <1>10. Occupied(f) = Occupied(t.tab) \ {c}
    BY <1>4, <1>5 DEF f, Occupied
  <1>11. \A d \in Occupied(f) : f[d] = t.tab[d]
    BY <1>4, <1>5, <1>10 DEF f, Occupied
  <1>12. s.count = Cardinality(Occupied(f))
    <2>1. t.count = Cardinality(Occupied(t.tab))
      BY DEF TableOK
    <2>2. Cardinality(Occupied(t.tab) \ {c}) = Cardinality(Occupied(t.tab)) - 1
      BY <1>5, <1>7, FS_RemoveElement
    <2> QED BY <1>9, <1>10, <2>1, <2>2
  <1>13. \A j : BucketsOf(s, j) = BucketsOf(t, j)
    BY <1>9 DEF BucketsOf, Bucket
  <1>14. TableOK(s)
    <2>1. \A d \in Occupied(s.tab) :
            \E a \in BucketsOf(s, s.tab[d]) : d \in BucketCells(a)
      BY <1>9, <1>10, <1>11, <1>13 DEF TableOK
    <2>2. \A d, e \in Occupied(s.tab) : s.tab[d] = s.tab[e] => d = e
      BY <1>9, <1>10, <1>11 DEF TableOK
    <2> QED BY <1>9, <1>12, <2>1, <2>2 DEF TableOK, D, K
  <1>15. Stored(s) = Stored(t) \ {k}
    <2>1. \A d \in Occupied(t.tab) : t.tab[d] = k => d = c
      BY <1>5 DEF TableOK
    <2> QED BY <1>5, <1>9, <1>10, <1>11, <2>1 DEF Stored
  <1> QED BY <1>5, <1>9, <1>14, <1>15 DEF s, Stored

\* A new table is empty.
LEMMA EmptyOK ==
    ASSUME NEW lg \in lg_minbuckets .. CkhMaxLg
    PROVE  LET s == [tab |-> EmptyTab(lg), lg |-> lg, count |-> 0]
           IN  TableOK(s) /\ Stored(s) = {} /\ s.lg = lg
  <1> DEFINE s == [tab |-> EmptyTab(lg), lg |-> lg, count |-> 0]
  <1>1. EmptyTab(lg) \in [0 .. 2 ^ lg * Cells - 1 -> CkhKeys \cup {NoKey}]
    BY DEF EmptyTab
  <1>2. Occupied(s.tab) = {}
    BY DEF Occupied, EmptyTab
  <1>3. s \in [tab : [0 .. 2 ^ s.lg * Cells - 1 -> CkhKeys \cup {NoKey}],
               lg : lg_minbuckets .. CkhMaxLg, count : Nat]
    BY <1>1
  <1>4. s.count = 0
    OBVIOUS
  <1>5. s.lg = lg
    OBVIOUS
  <1> HIDE DEF s
  <1> QED BY <1>2, <1>3, <1>4, <1>5, FS_EmptySet DEF TableOK, Stored, s

-----------------------------------------------------------------------------
(* The steps of a call. *)

\* The hash functions do not change, so a sound table stays sound.
LEMMA TablePrime ==
    ASSUME ckhash' = ckhash, TableOK(ckh')
    PROVE  TableOK(ckh)'
  BY DEF TableOK, BucketsOf, Bucket

LEMMA OldPrime ==
    ASSUME ckhash' = ckhash, TableOK(job'.old)
    PROVE  TableOK(job.old)'
  BY DEF TableOK, BucketsOf, Bucket

LEMMA JobFacts ==
    ASSUME CkhInv, job.pc # "idle"
    PROVE  /\ job \in CkhJobs(job.old)
           /\ job.arg \in CkhKeys /\ job.set \in SUBSET CkhKeys
           /\ job.key \in CkhKeys /\ job.ind \in Nat /\ job.try \in Nat
           /\ job.pc \in {"try", "evict", "grow", "shrink", "rebuild"}
           /\ job.phase \in {"insert", "grow", "shrink"}
           /\ job.bucket \in Nat /\ job.argbucket \in Nat
           /\ job.hold \in CkhKeys \cup {NoKey}
  <1>1. job \in CkhJobs(job.old)
    BY DEF CkhInv, CkhIdle
  <1> QED BY <1>1 DEF CkhJobs

\* A call returns: the table is the set.
LEMMA ReturnInv ==
    ASSUME CkhInv, ckhash' = ckhash, TableOK(ckh'), job' = CkhIdle
    PROVE  CkhInv' /\ AbstractSet' = Stored(ckh')
  <1>1. TableOK(ckh)'
    BY TablePrime
  <1>2. job'.pc = "idle"
    BY DEF CkhIdle
  <1>3. Found(ckh)' = Stored(ckh')
    <2>1. ckhash \in CkhHashes
      BY DEF CkhInv
    <2>2. Found(ckh') = Stored(ckh')
      BY <2>1, FoundStored
    <2>3. Found(ckh)' = Found(ckh')
      BY DEF Found, ckh_isearch, ckh_bucket_search, Bucket
    <2> QED BY <2>2, <2>3
  <1>4. AbstractSet' = Stored(ckh')
    BY <1>2, <1>3 DEF AbstractSet
  <1>5. ckhash' \in CkhHashes
    BY DEF CkhInv
  <1> QED BY <1>1, <1>2, <1>4, <1>5 DEF CkhInv

\* An insertion that returns false added its key.
LEMMA InsertReturns ==
    ASSUME CkhInv, job.pc # "idle", ckhash' = ckhash, TableOK(ckh'),
           CkhReturn("insert", FALSE),
           job.arg \notin job.set, Stored(ckh') = job.set \cup {job.arg}
    PROVE  CkhInv' /\ KeysOf!Next
  <1>1. CkhInv' /\ AbstractSet' = Stored(ckh')
    BY ReturnInv DEF CkhReturn
  <1>2. AbstractSet = job.set /\ job.arg \in CkhKeys
    BY JobFacts DEF AbstractSet
  <1>3. KeysOf!Insert(job.arg)
    BY <1>1, <1>2 DEF KeysOf!Insert, KeysOf!Returned, CkhReturn
  <1> QED BY <1>1, <1>2, <1>3 DEF KeysOf!Next

\* A removal that ran a shrink returns false, and its key is gone.
LEMMA RemoveReturns ==
    ASSUME CkhInv, job.pc # "idle", ckhash' = ckhash, TableOK(ckh'),
           CkhReturn("remove", FALSE),
           job.arg \in job.set, Stored(ckh') = job.set \ {job.arg}
    PROVE  CkhInv' /\ KeysOf!Next
  <1>1. CkhInv' /\ AbstractSet' = Stored(ckh')
    BY ReturnInv DEF CkhReturn
  <1>2. AbstractSet = job.set /\ job.arg \in CkhKeys
    BY JobFacts DEF AbstractSet
  <1>3. ckop'.name = "remove" /\ ckop'.ret = FALSE
    BY DEF CkhReturn
  <1>4. KeysOf!Remove(job.arg)
    BY <1>1, <1>2, <1>3 DEF KeysOf!Remove
  <1> QED BY <1>1, <1>2, <1>4 DEF KeysOf!Next

\* A step within a call does not change the set.
LEMMA Within ==
    ASSUME job.pc # "idle", job'.pc # "idle", job'.set = job.set, ckop' = ckop
    PROVE  UNCHANGED <<AbstractSet, ckop>>
  BY DEF AbstractSet

\* What a call in the hands of ckh_try_insert has: its key and the keys of the
\* table, apart.
LEMMA InHandFacts ==
    ASSUME CkhInv, job.pc \in {"try", "evict"}
    PROVE  /\ job.key \in CkhKeys \ Stored(ckh)
           /\ job.phase = "insert" => Inserting(ckh, job.key)
           /\ job.phase # "insert" =>
                Rebuilding /\ Stored(ckh) \cup {job.key} = Before(job.old, job.ind)
  <1>1. job.key \in CkhKeys
    BY JobFacts
  <1>2. job.phase = "insert" => Inserting(ckh, job.key)
    BY DEF CkhInv
  <1>3. job.phase # "insert" => Rebuilding
    BY DEF CkhInv
  <1>4. InHand = {job.key}
    BY DEF InHand
  <1> QED BY <1>1, <1>2, <1>3, <1>4 DEF Inserting, Rebuilding

\* ckh_try_insert placed the key, or a victim of it.
LEMMA PlacedStep ==
    ASSUME CkhInv, job.pc \in {"try", "evict"}, ckhash' = ckhash, Placed,
           TableOK(ckh'), Stored(ckh') = Stored(ckh) \cup {job.key}
    PROVE  CkhInv' /\ [KeysOf!Next]_<<AbstractSet, ckop>>
  <1>1. CASE job.phase = "insert"
    <2>1. CkhReturn("insert", FALSE)
      BY <1>1 DEF Placed
    <2>2. Inserting(ckh, job.key)
      BY <1>1, InHandFacts
    <2>3. CkhInv' /\ KeysOf!Next
      BY <2>1, <2>2, InsertReturns DEF Inserting
    <2> QED BY <2>3
  <1>2. CASE job.phase # "insert"
    <2>1. job' = [job EXCEPT !.pc = "rebuild"] /\ ckop' = ckop
      BY <1>2 DEF Placed
    <2>2. job \in CkhJobs(job.old)
      BY JobFacts
    <2>3. /\ job' \in CkhJobs(job.old) /\ job'.pc = "rebuild" /\ job'.old = job.old
          /\ job'.arg = job.arg /\ job'.set = job.set /\ job'.phase = job.phase
          /\ job'.key = job.key /\ job'.hold = job.hold /\ job'.ind = job.ind
          /\ job'.try = job.try
      BY <2>1, <2>2 DEF CkhJobs
    <2>4. Rebuilding /\ Stored(ckh') = Before(job.old, job.ind)
      BY <1>2, InHandFacts
    <2>5. TableOK(job.old)'
      BY <2>3, <2>4, OldPrime DEF Rebuilding
    <2>6. InHand' = {}
      BY <2>3 DEF InHand
    <2>7. Rebuilding'
      BY <2>3, <2>4, <2>5, <2>6 DEF Rebuilding, Inserting, Removing
    <2>8. TableOK(ckh)' /\ ckhash' \in CkhHashes
      BY TablePrime DEF CkhInv
    <2>9. CkhInv'
      BY <2>3, <2>7, <2>8 DEF CkhInv
    <2> QED BY <2>1, <2>3, <2>9, Within
  <1> QED BY <1>1, <1>2

\* ckh_evict_reloc_insert met a cycle: every key is in the table or in hand.
LEMMA CycleStep ==
    ASSUME CkhInv, job.pc = "evict", ckhash' = ckhash,
           NEW victim \in CkhKeys, NEW s, Cycle(victim, s), TableOK(s),
           victim \notin Stored(s),
           Stored(s) \cup {victim} = Stored(ckh) \cup {job.key}
    PROVE  CkhInv' /\ [KeysOf!Next]_<<AbstractSet, ckop>>
  <1>0. job \in CkhJobs(job.old) /\ ckhash' \in CkhHashes
    BY JobFacts DEF CkhInv
  <1>1. CASE job.phase = "insert"
    <2>1. /\ ckh' = s /\ ckop' = ckop
          /\ job' = [job EXCEPT !.pc = "grow", !.hold = victim, !.try = s.lg]
      BY <1>1 DEF Cycle
    <2>2. s.lg \in Nat /\ s.lg >= lg_minbuckets
      BY TableFacts, Sizes
    <2>3. /\ job' \in CkhJobs(job.old) /\ job'.pc = "grow" /\ job'.old = job.old
          /\ job'.arg = job.arg /\ job'.set = job.set /\ job'.hold = victim
          /\ job'.try = s.lg
      BY <1>0, <2>1, <2>2 DEF CkhJobs
    <2>4. Inserting(ckh, job.key)
      BY <1>1, InHandFacts
    <2>5. Inserting(ckh, job.hold)'
      BY <2>1, <2>3, <2>4 DEF Inserting
    <2>6. TableOK(ckh)'
      BY <2>1, TablePrime
    <2>7. CkhInv'
      BY <1>0, <2>2, <2>3, <2>5, <2>6 DEF CkhInv
    <2> QED BY <2>1, <2>3, <2>7, Within
  <1>2. CASE job.phase = "grow"
    <2>1. ckh' = job.old /\ ckop' = ckop /\ job' = [job EXCEPT !.pc = "grow"]
      BY <1>2 DEF Cycle
    <2>2. /\ job' \in CkhJobs(job.old) /\ job'.pc = "grow" /\ job'.old = job.old
          /\ job'.arg = job.arg /\ job'.set = job.set /\ job'.hold = job.hold
          /\ job'.try = job.try
      BY <1>0, <2>1 DEF CkhJobs
    <2>3. TableOK(job.old) /\ Inserting(job.old, job.hold) /\ job.try >= lg_minbuckets
      BY <1>2, InHandFacts DEF Rebuilding
    <2>4. TableOK(ckh)'
      BY <2>1, <2>3, TablePrime
    <2>5. Inserting(ckh, job.hold)'
      BY <2>1, <2>2, <2>3 DEF Inserting
    <2>6. CkhInv'
      BY <1>0, <2>2, <2>3, <2>4, <2>5 DEF CkhInv
    <2> QED BY <2>1, <2>2, <2>6, Within
  <1>3. CASE job.phase = "shrink"
    <2>1. ckh' = job.old /\ CkhReturn("remove", FALSE)
      BY <1>3 DEF Cycle
    <2>2. TableOK(job.old) /\ Removing(job.old)
      BY <1>3, InHandFacts DEF Rebuilding
    <2>3. CkhInv' /\ KeysOf!Next
      BY <2>1, <2>2, RemoveReturns DEF Removing
    <2> QED BY <2>3
  <1> QED BY <1>1, <1>2, <1>3, JobFacts

\* ckh_try_insert: the primary bucket, then the secondary one.
LEMMA TryStep ==
    ASSUME CkhInv, ckh_try_insert
    PROVE  CkhInv' /\ [KeysOf!Next]_<<AbstractSet, ckop>>
  <1> DEFINE k == job.key
             first == Bucket(ckh, k, 1)
             second == Bucket(ckh, k, 2)
             where == IF CkhFree(ckh, first) # {} THEN first ELSE second
  <1>0. /\ job.pc = "try" /\ ckhash' = ckhash /\ ckhash \in CkhHashes
        /\ TableOK(ckh) /\ k \in CkhKeys \ Stored(ckh)
    BY InHandFacts DEF ckh_try_insert, CkhInv
  <1>1. where \in BucketsOf(ckh, k) /\ second \in BucketsOf(ckh, k)
    BY DEF BucketsOf
  <1>2. ASSUME NEW c \in CkhFree(ckh, where), ckh' = Put(ckh, c, k), Placed
        PROVE  CkhInv' /\ [KeysOf!Next]_<<AbstractSet, ckop>>
    <2> HIDE DEF where, k
    <2>1. TableOK(ckh') /\ Stored(ckh') = Stored(ckh) \cup {k}
      BY <1>0, <1>1, <1>2, PutOK
    <2> QED BY <1>0, <1>2, <2>1, PlacedStep DEF k
  <1>3. ASSUME CkhFree(ckh, where) = {}, UNCHANGED <<ckh, ckop>>,
               job' = [job EXCEPT !.pc = "evict", !.bucket = second,
                                  !.argbucket = second]
        PROVE  CkhInv' /\ [KeysOf!Next]_<<AbstractSet, ckop>>
    <2>1. CkhFree(ckh, second) = {}
      BY <1>3
    <2>2. second \in Nat
      BY <1>0, <1>1, BucketRange, TableFacts, Sizes
    <2> HIDE DEF second, where, k, first
    <2>3. job \in CkhJobs(job.old)
      BY <1>0, JobFacts
    <2>4. /\ job' \in CkhJobs(job.old) /\ job'.pc = "evict" /\ job'.old = job.old
          /\ job'.arg = job.arg /\ job'.set = job.set /\ job'.phase = job.phase
          /\ job'.key = job.key /\ job'.hold = job.hold /\ job'.ind = job.ind
          /\ job'.try = job.try
          /\ job'.bucket = second
      BY <1>3, <2>2, <2>3 DEF CkhJobs
    <2>5. job.phase = "insert" => Inserting(ckh, job.key)'
      BY <1>0, <1>3, <2>4, InHandFacts DEF Inserting
    <2>6. ASSUME job.phase # "insert" PROVE Rebuilding'
      <3>1. Rebuilding
        BY <1>0, <2>6, InHandFacts
      <3>2. TableOK(job.old)'
        BY <1>0, <2>4, <3>1, OldPrime DEF Rebuilding
      <3>3. InHand' = InHand
        BY <1>0, <2>4 DEF InHand
      <3> QED BY <1>3, <2>4, <3>1, <3>2, <3>3 DEF Rebuilding, Inserting, Removing
    <2>7. Evicting'
      <3>1. BucketsOf(ckh, k)' = BucketsOf(ckh, k)
        BY <1>0, <1>3, <2>4 DEF BucketsOf, Bucket, k
      <3> QED BY <1>1, <1>3, <2>1, <2>4, <3>1 DEF Evicting, CkhFree, k
    <2>8. TableOK(ckh)' /\ ckhash' \in CkhHashes
      BY <1>0, <1>3, TablePrime
    <2>9. CkhInv'
      BY <2>4, <2>5, <2>6, <2>7, <2>8 DEF CkhInv
    <2> QED BY <1>0, <1>3, <2>4, <2>9, Within
  <1> QED BY <1>2, <1>3 DEF ckh_try_insert

\* One turn of the eviction loop.
LEMMA EvictStep ==
    ASSUME CkhInv, NEW i \in 0 .. Cells - 1, CkhEvict(i)
    PROVE  CkhInv' /\ [KeysOf!Next]_<<AbstractSet, ckop>>
  <1>1. PICK b \in 0 .. 2 ^ CkhMaxLg - 1 : EvictCell(b, i)
    BY DEF CkhEvict
  <1> DEFINE c == b * Cells + i
             victim == ckh.tab[c]
             swapped == [ckh EXCEPT !.tab[c] = job.key]
             tbucket == OtherBucket(ckh, victim, b)
  <1>2. /\ job.pc = "evict" /\ job.bucket = b
        /\ ckhash' = ckhash /\ ckhash \in CkhHashes /\ TableOK(ckh)
    BY <1>1 DEF EvictCell, CkhInv
  <1>3. b \in BucketsOf(ckh, job.key) /\ CkhFree(ckh, b) = {}
    BY <1>2 DEF CkhInv, Evicting
  <1>4. job.key \in CkhKeys \ Stored(ckh)
    BY <1>2, InHandFacts
  <1>5. c \in BucketCells(b)
    <2> DEFINE w == Cells
    <2>1. w \in Nat \ {0} /\ b \in Nat
      BY Sizes
    <2>2. b * w + i \in b * w .. (b + 1) * w - 1
      <3> HIDE DEF w
      <3>1. b * w \in Nat /\ (b + 1) * w = b * w + w
        BY <2>1
      <3>2. i \in 0 .. w - 1
        BY DEF w
      <3> QED BY <2>1, <3>1, <3>2
    <2> QED BY <2>2 DEF BucketCells
  <1>6. victim # NoKey
    BY <1>3, <1>5 DEF CkhFree
  <1>7. (\/ tbucket = job.argbucket /\ Cycle(victim, swapped)
         \/ /\ tbucket # job.argbucket
            /\ \E d \in CkhFree(swapped, tbucket) : ckh' = Put(swapped, d, victim)
            /\ Placed
         \/ /\ tbucket # job.argbucket
            /\ CkhFree(swapped, tbucket) = {}
            /\ ckh' = swapped
            /\ job' = [job EXCEPT !.bucket = tbucket, !.key = victim]
            /\ UNCHANGED ckop)
    BY <1>1 DEF EvictCell
  <1> HIDE DEF c
  <1>8. /\ TableOK(swapped) /\ swapped.lg = ckh.lg /\ victim \in Stored(ckh)
        /\ Stored(swapped) = (Stored(ckh) \ {victim}) \cup {job.key}
    <2>1. swapped = [ckh EXCEPT !.tab[c] = job.key]
      OBVIOUS
    <2> HIDE DEF swapped
    <2> QED BY <1>2, <1>3, <1>4, <1>5, <1>6, <2>1, SwapOK
  <1>9. victim \in CkhKeys
    BY <1>2, <1>8, TableFacts
  <1>10. tbucket \in BucketsOf(ckh, victim)
    BY DEF OtherBucket, BucketsOf
  <1>11. tbucket \in BucketsOf(swapped, victim)
    <2> HIDE DEF swapped, tbucket, victim
    <2> QED BY <1>8, <1>10 DEF BucketsOf, Bucket
  <1>12. victim \in CkhKeys \ Stored(swapped)
    BY <1>4, <1>8, <1>9
  <1>13. Stored(swapped) \cup {victim} = Stored(ckh) \cup {job.key}
    BY <1>8
  <1> HIDE DEF swapped, tbucket, victim
  <1>14. CASE tbucket = job.argbucket /\ Cycle(victim, swapped)
    BY <1>2, <1>8, <1>9, <1>12, <1>13, <1>14, CycleStep
  <1>15. CASE (\E d \in CkhFree(swapped, tbucket) : ckh' = Put(swapped, d, victim)) /\ Placed
    <2>1. PICK d \in CkhFree(swapped, tbucket) : ckh' = Put(swapped, d, victim)
      BY <1>15
    <2>2. TableOK(ckh') /\ Stored(ckh') = Stored(swapped) \cup {victim}
      BY <1>2, <1>8, <1>11, <1>12, <2>1, PutOK
    <2> QED BY <1>2, <1>13, <1>15, <2>2, PlacedStep
  <1>16. CASE /\ CkhFree(swapped, tbucket) = {}
              /\ ckh' = swapped
              /\ job' = [job EXCEPT !.bucket = tbucket, !.key = victim]
              /\ ckop' = ckop
    <2>1. tbucket \in Nat
      BY <1>2, <1>9, <1>10, BucketRange, TableFacts, Sizes
    <2>2. job \in CkhJobs(job.old)
      BY <1>2, JobFacts
    <2>3. /\ job' \in CkhJobs(job.old) /\ job'.pc = "evict" /\ job'.old = job.old
          /\ job'.arg = job.arg /\ job'.set = job.set /\ job'.phase = job.phase
          /\ job'.key = victim /\ job'.hold = job.hold /\ job'.ind = job.ind
          /\ job'.try = job.try
          /\ job'.bucket = tbucket
      BY <1>2, <1>9, <1>16, <2>1, <2>2 DEF CkhJobs
    <2>4. job.phase = "insert" => Inserting(ckh, job.key)'
      BY <1>2, <1>12, <1>13, <1>16, <2>3, InHandFacts DEF Inserting
    <2>5. ASSUME job.phase # "insert" PROVE Rebuilding'
      <3>1. Rebuilding /\ Stored(ckh) \cup {job.key} = Before(job.old, job.ind)
        BY <1>2, <2>5, InHandFacts
      <3>2. TableOK(job.old)'
        BY <1>2, <2>3, <3>1, OldPrime DEF Rebuilding
      <3>3. InHand' = {victim}
        BY <2>3 DEF InHand
      <3>4. Stored(ckh') \cup {victim} = Before(job.old, job.ind)
        BY <1>13, <1>16, <3>1
      <3>5. {victim} \cap Stored(ckh') = {}
        BY <1>12, <1>16
      <3> QED BY <2>3, <3>1, <3>2, <3>3, <3>4, <3>5
          DEF Rebuilding, Inserting, Removing
    <2>6. Evicting'
      <3>1. BucketsOf(ckh, job.key)' = BucketsOf(swapped, victim)
        BY <1>2, <1>16, <2>3 DEF BucketsOf, Bucket
      <3> QED BY <1>11, <1>16, <2>3, <3>1 DEF Evicting, CkhFree
    <2>7. TableOK(ckh)' /\ ckhash' \in CkhHashes
      BY <1>2, <1>8, <1>16, TablePrime
    <2>8. CkhInv'
      BY <2>3, <2>4, <2>5, <2>6, <2>7 DEF CkhInv
    <2> QED BY <1>2, <1>16, <2>3, <2>8, Within
  <1> QED BY <1>7, <1>14, <1>15, <1>16

\* The loop over the cells of the old table meets the first one first.
LEMMA MinExists ==
    ASSUME NEW T, T \subseteq Nat, T # {}
    PROVE  \E x \in T : \A d \in T : x <= d
  <1> DEFINE R == {ss \in Nat \X Nat : ss[1] < ss[2]}
  <1>1. IsWellFoundedOn(R, Nat)
    BY NatLessThanWellFounded DEF OpToRel
  <1> HIDE DEF R
  <1>2. \E x \in T : \A d \in T : ~ (<<d, x>> \in R)
    BY <1>1, WFMin
  <1>3. PICK x \in T : \A d \in T : ~ (<<d, x>> \in R)
    BY <1>2
  <1>4. \A d \in T : x <= d
    <2> SUFFICES ASSUME NEW d \in T PROVE ~ d < x
      OBVIOUS
    <2>1. d < x => <<d, x>> \in R
      BY DEF R
    <2> QED BY <1>3, <2>1
  <1> QED BY <1>4

\* A rebuild into a new, empty table begins.
LEMMA RebuildBegins ==
    ASSUME CkhInv, job.pc \in {"grow", "shrink"}, ckhash' = ckhash, ckop' = ckop,
           NEW lg \in lg_minbuckets .. CkhMaxLg,
           ckh' = [tab |-> EmptyTab(lg), lg |-> lg, count |-> 0],
           NEW phase \in {"grow", "shrink"}, NEW try \in Nat,
           job' = [job EXCEPT !.pc = "rebuild", !.phase = phase,
                              !.old = ckh, !.ind = 0, !.try = try],
           \/ phase = "grow" /\ Inserting(ckh, job.hold) /\ try >= lg_minbuckets
           \/ phase = "shrink" /\ Removing(ckh)
    PROVE  CkhInv' /\ [KeysOf!Next]_<<AbstractSet, ckop>>
  <1>1. job \in CkhJobs(job.old) /\ job.pc # "idle"
    BY JobFacts
  <1>2. /\ job' \in CkhJobs(ckh) /\ job'.pc = "rebuild" /\ job'.old = ckh
        /\ job'.arg = job.arg /\ job'.set = job.set /\ job'.phase = phase
        /\ job'.hold = job.hold /\ job'.ind = 0 /\ job'.try = try
    BY <1>1 DEF CkhJobs
  <1>3. TableOK(ckh') /\ Stored(ckh') = {}
    BY EmptyOK
  <1>4. TableOK(ckh)' /\ ckhash' \in CkhHashes /\ TableOK(ckh)
    BY <1>3, TablePrime DEF CkhInv
  <1>5. TableOK(job.old)'
    BY <1>2, <1>4, OldPrime
  <1>6. InHand' = {}
    BY <1>2 DEF InHand
  <1>7. Before(ckh, 0) = {}
    <2>1. \A c \in Occupied(ckh.tab) : c \in 0 .. 2 ^ ckh.lg * Cells - 1
      BY <1>4, TableFacts
    <2>2. \A c \in Occupied(ckh.tab) : ~ c < 0
      BY <2>1, <1>4, TableFacts, Sizes
    <2> QED BY <2>2 DEF Before
  <1>8. Rebuilding'
    BY <1>2, <1>3, <1>5, <1>6, <1>7 DEF Rebuilding, Inserting, Removing
  <1>9. CkhInv'
    BY <1>2, <1>4, <1>8 DEF CkhInv
  <1> QED BY <1>1, <1>2, <1>9, Within

\* ckh_grow: a failed insertion keeps all keys but the one in hand.
LEMMA GrowStep ==
    ASSUME CkhInv, ckh_grow
    PROVE  CkhInv' /\ [KeysOf!Next]_<<AbstractSet, ckop>>
  <1>1. /\ job.pc = "grow" /\ ckhash' = ckhash /\ TableOK(ckh)
        /\ Inserting(ckh, job.hold) /\ job.try >= lg_minbuckets
    BY DEF ckh_grow, CkhInv
  <1>2. CASE CkhReturn("insert", TRUE) /\ ckh' = ckh
    <2>1. CkhInv' /\ AbstractSet' = Stored(ckh)
      BY <1>1, <1>2, ReturnInv DEF CkhReturn
    <2>2. AbstractSet = job.set /\ job.arg \in CkhKeys
      BY <1>1, JobFacts DEF AbstractSet
    <2>3. /\ job.hold \in AbstractSet \cup {job.arg}
          /\ AbstractSet' = (AbstractSet \cup {job.arg}) \ {job.hold}
      BY <1>1, <2>1, <2>2 DEF Inserting
    <2>4. KeysOf!InsertFails(job.arg)
      BY <1>1, <1>2, <2>2, <2>3
      DEF KeysOf!InsertFails, KeysOf!Returned, CkhReturn, Inserting
    <2> QED BY <2>1, <2>2, <2>4 DEF KeysOf!Next
  <1>3. ASSUME job.try + 1 <= CkhMaxLg, ckop' = ckop,
               ckh' = [tab |-> EmptyTab(job.try + 1), lg |-> job.try + 1, count |-> 0],
               job' = [job EXCEPT !.pc = "rebuild", !.phase = "grow",
                                  !.old = ckh, !.ind = 0, !.try = job.try + 1]
        PROVE  CkhInv' /\ [KeysOf!Next]_<<AbstractSet, ckop>>
    <2>1. /\ job.try + 1 \in lg_minbuckets .. CkhMaxLg /\ job.try + 1 \in Nat
          /\ job.try + 1 >= lg_minbuckets
      BY <1>1, <1>3, JobFacts, Sizes
    <2> QED BY <1>1, <1>3, <2>1, RebuildBegins
  <1> QED BY <1>2, <1>3 DEF ckh_grow

\* ckh_shrink: it may fail to allocate, and the removal returns all the same.
LEMMA ShrinkStep ==
    ASSUME CkhInv, ckh_shrink
    PROVE  CkhInv' /\ [KeysOf!Next]_<<AbstractSet, ckop>>
  <1>1. /\ job.pc = "shrink" /\ ckhash' = ckhash /\ TableOK(ckh)
        /\ Removing(ckh) /\ ckh.lg > lg_minbuckets
    BY DEF ckh_shrink, CkhInv
  <1>2. CASE CkhReturn("remove", FALSE) /\ ckh' = ckh
    <2>1. CkhInv' /\ KeysOf!Next
      BY <1>1, <1>2, RemoveReturns DEF Removing
    <2> QED BY <2>1
  <1>3. ASSUME ckop' = ckop,
               ckh' = [tab |-> EmptyTab(ckh.lg - 1), lg |-> ckh.lg - 1, count |-> 0],
               job' = [job EXCEPT !.pc = "rebuild", !.phase = "shrink",
                                  !.old = ckh, !.ind = 0]
        PROVE  CkhInv' /\ [KeysOf!Next]_<<AbstractSet, ckop>>
    <2>1. ckh.lg - 1 \in lg_minbuckets .. CkhMaxLg
      BY <1>1, TableFacts, Sizes
    <2>2. job.try \in Nat /\ job \in CkhJobs(job.old)
      BY <1>1, JobFacts
    <2>3. job' = [job EXCEPT !.pc = "rebuild", !.phase = "shrink",
                             !.old = ckh, !.ind = 0, !.try = job.try]
      BY <1>3, <2>2 DEF CkhJobs
    <2> QED BY <1>1, <1>3, <2>1, <2>2, <2>3, RebuildBegins
  <1> QED BY <1>2, <1>3 DEF ckh_shrink

\* ckh_rebuild: the loop ends, when count items are in the new table, with all
\* of them, and not before the last cell of the old one.
LEMMA RebuildStep ==
    ASSUME CkhInv, ckh_rebuild
    PROVE  CkhInv' /\ [KeysOf!Next]_<<AbstractSet, ckop>>
  <1> DEFINE occ == Occupied(job.old.tab)
             left == {c \in occ : c >= job.ind}
  <1>1. /\ job.pc = "rebuild" /\ ckhash' = ckhash /\ ckh' = ckh
        /\ ckhash \in CkhHashes /\ TableOK(ckh) /\ Rebuilding
    BY DEF ckh_rebuild, CkhInv
  <1>2. /\ TableOK(job.old) /\ Stored(ckh) = Before(job.old, job.ind)
    BY <1>1 DEF Rebuilding, InHand
  <1>3. /\ job \in CkhJobs(job.old) /\ job.ind \in Nat
    BY <1>1, JobFacts
  <1>4. occ \subseteq Nat
    <2>1. \A c \in occ : c \in 0 .. 2 ^ job.old.lg * Cells - 1
      BY <1>2, TableFacts
    <2> QED BY <2>1
  <1>5. Stored(ckh) \subseteq Stored(job.old)
    BY <1>2 DEF Before, Stored
  <1>6. TableOK(ckh)' /\ ckhash' \in CkhHashes
    BY <1>1, TablePrime
  <1>7. CASE ckh.count < job.old.count
    <2>1. left # {}
      <3>1. SUFFICES ASSUME left = {} PROVE FALSE
        OBVIOUS
      <3>2. \A c \in occ : c < job.ind
        BY <1>3, <1>4, <3>1
      <3>3. Stored(ckh) = Stored(job.old)
        BY <1>2, <3>2 DEF Before, Stored
      <3>4. ckh.count = job.old.count /\ ckh.count \in Nat
        BY <1>1, <1>2, <3>3, FoundStored, TableFacts
      <3> QED BY <1>7, <3>4
    <2> DEFINE c == CHOOSE x \in left : \A d \in left : x <= d
    <2>2. c \in left /\ \A d \in left : c <= d
      <3>1. left \subseteq Nat /\ left # {}
        BY <1>4, <2>1
      <3> HIDE DEF left
      <3>2. \E x \in left : \A d \in left : x <= d
        BY <3>1, MinExists
      <3> QED BY <3>2
    <2>3. /\ ckop' = ckop
          /\ job' = [job EXCEPT !.pc = "try", !.ind = c + 1, !.key = job.old.tab[c]]
      BY <1>7 DEF ckh_rebuild
    <2> HIDE DEF c
    <2>4. c \in occ /\ c \in Nat /\ c >= job.ind
      BY <1>4, <2>2
    <2> DEFINE k == job.old.tab[c]
    <2>5. k \in CkhKeys
      BY <1>2, <2>4, TableFacts
    <2>6. Before(job.old, c + 1) = Before(job.old, job.ind) \cup {k}
      <3>1. \A d \in occ : d < c + 1 <=> (d < job.ind \/ d = c)
        BY <1>3, <1>4, <2>2, <2>4
      <3> QED BY <2>4, <3>1 DEF Before
    <2>7. k \notin Before(job.old, job.ind)
      <3>1. \A d \in occ : d < job.ind => d # c
        BY <1>3, <1>4, <2>4
      <3> QED BY <1>2, <2>4, <3>1 DEF Before, TableOK
    <2> HIDE DEF k
    <2>8. /\ job' \in CkhJobs(job.old) /\ job'.pc = "try" /\ job'.old = job.old
          /\ job'.arg = job.arg /\ job'.set = job.set /\ job'.phase = job.phase
          /\ job'.key = k /\ job'.hold = job.hold /\ job'.ind = c + 1
          /\ job'.try = job.try
      <3>1. c + 1 \in Nat
        BY <2>4
      <3>2. job' = [job EXCEPT !.pc = "try", !.ind = c + 1, !.key = k]
        BY <2>3 DEF k
      <3> QED BY <1>3, <2>5, <3>1, <3>2 DEF CkhJobs
    <2>9. InHand' = {k}
      BY <2>8 DEF InHand
    <2>10. TableOK(job.old)'
      BY <1>1, <1>2, <2>8, OldPrime
    <2>11. Rebuilding'
      BY <1>1, <1>2, <2>6, <2>7, <2>8, <2>9, <2>10 DEF Rebuilding, Inserting, Removing
    <2>12. job'.phase # "insert"
      BY <1>1, <2>8 DEF Rebuilding
    <2>13. CkhInv'
      BY <1>6, <2>8, <2>11, <2>12 DEF CkhInv
    <2> QED BY <1>1, <2>3, <2>8, <2>13, Within
  <1>8. CASE ~ ckh.count < job.old.count
    <2>1. Stored(ckh) = Stored(job.old)
      <3>1. /\ IsFiniteSet(Stored(job.old)) /\ IsFiniteSet(Stored(ckh))
            /\ job.old.count = Cardinality(Stored(job.old))
            /\ ckh.count = Cardinality(Stored(ckh))
        BY <1>1, <1>2, FoundStored
      <3>2. ckh.count \in Nat /\ job.old.count \in Nat
        BY <1>1, <1>2, TableFacts
      <3>3. Cardinality(Stored(ckh)) <= Cardinality(Stored(job.old))
        BY <1>5, <3>1, FS_Subset
      <3>4. Cardinality(Stored(ckh)) = Cardinality(Stored(job.old))
        BY <1>8, <3>1, <3>2, <3>3
      <3> QED BY <1>5, <3>1, <3>4, FS_Subset
    <2>2. CASE job.phase = "grow"
      <3>1. /\ ckop' = ckop
            /\ job' = [job EXCEPT !.pc = "try", !.phase = "insert",
                                  !.key = job.hold, !.old = NoTable]
        BY <1>8, <2>2 DEF ckh_rebuild
      <3>2. Inserting(job.old, job.hold)
        BY <1>1, <2>2 DEF Rebuilding
      <3>3. job.hold \in CkhKeys
        BY <3>2 DEF Inserting
      <3>4. /\ job' \in CkhJobs(NoTable) /\ job'.pc = "try" /\ job'.old = NoTable
            /\ job'.arg = job.arg /\ job'.set = job.set /\ job'.phase = "insert"
            /\ job'.key = job.hold
        BY <1>3, <3>1, <3>3 DEF CkhJobs
      <3>5. Inserting(ckh, job.key)'
        BY <1>1, <2>1, <3>2, <3>4 DEF Inserting
      <3>6. CkhInv'
        BY <1>6, <3>4, <3>5 DEF CkhInv
      <3> QED BY <1>1, <3>1, <3>4, <3>6, Within
    <2>3. CASE job.phase # "grow"
      <3>1. CkhReturn("remove", FALSE)
        BY <1>8, <2>3 DEF ckh_rebuild
      <3>2. Removing(job.old)
        BY <1>1, <2>3 DEF Rebuilding
      <3>3. CkhInv' /\ KeysOf!Next
        BY <1>1, <2>1, <3>1, <3>2, RemoveReturns DEF Removing
      <3> QED BY <3>3
    <2> QED BY <2>2, <2>3
  <1> QED BY <1>7, <1>8

\* ckh_insert begins.
LEMMA InsertStep ==
    ASSUME CkhInv, NEW k \in CkhKeys, ckh_insert(k)
    PROVE  CkhInv' /\ [KeysOf!Next]_<<AbstractSet, ckop>>
  <1>1. /\ job.pc = "idle" /\ k \notin Found(ckh) /\ ckhash' = ckhash /\ ckh' = ckh
        /\ job' = CkhJob("try", k, "insert", k) /\ ckop' = ckop
        /\ ckhash \in CkhHashes /\ TableOK(ckh)
    BY DEF ckh_insert, CkhInv
  <1>2. Found(ckh) = Stored(ckh) /\ Stored(ckh) \in SUBSET CkhKeys
    BY <1>1, FoundStored, TableFacts
  <1>3. /\ job' \in CkhJobs(NoTable) /\ job'.old = NoTable /\ job'.pc = "try"
        /\ job'.phase = "insert" /\ job'.set = Found(ckh) /\ job'.arg = k /\ job'.key = k
    BY <1>1, <1>2 DEF CkhJob, CkhJobs
  <1>4. Inserting(ckh, job.key)'
    BY <1>1, <1>2, <1>3 DEF Inserting
  <1>5. TableOK(ckh)' /\ ckhash' \in CkhHashes
    BY <1>1, TablePrime
  <1>6. CkhInv'
    BY <1>3, <1>4, <1>5 DEF CkhInv
  <1>7. AbstractSet' = AbstractSet
    BY <1>1, <1>3 DEF AbstractSet
  <1> QED BY <1>1, <1>6, <1>7

\* ckh_remove, up to its return or to the shrink.
LEMMA RemoveStep ==
    ASSUME CkhInv, NEW k \in CkhKeys, ckh_remove(k)
    PROVE  CkhInv' /\ [KeysOf!Next]_<<AbstractSet, ckop>>
  <1> DEFINE cell == ckh_isearch(ckh, k)
             out == Cleared(ckh, cell)
  <1>1. /\ job.pc = "idle" /\ ckhash' = ckhash /\ ckhash \in CkhHashes /\ TableOK(ckh)
    BY DEF ckh_remove, CkhInv
  <1>2. AbstractSet = Stored(ckh) /\ Stored(ckh) \in SUBSET CkhKeys
        /\ Found(ckh) = Stored(ckh)
    BY <1>1, FoundStored, TableFacts DEF AbstractSet
  <1>3. CASE cell = {} /\ CkhReturn("remove", TRUE) /\ ckh' = ckh
    <2>1. CkhInv' /\ AbstractSet' = Stored(ckh)
      BY <1>1, <1>3, ReturnInv DEF CkhReturn
    <2>2. k \notin AbstractSet
      BY <1>2, <1>3 DEF Found
    <2>3. ckop'.name = "remove" /\ ckop'.ret = TRUE
      BY <1>3 DEF CkhReturn
    <2>4. KeysOf!Remove(k)
      BY <1>2, <2>1, <2>2, <2>3 DEF KeysOf!Remove
    <2> QED BY <2>1, <2>4 DEF KeysOf!Next
  <1>4. ASSUME cell # {}, ckh' = out
        PROVE  /\ TableOK(out) /\ out.lg = ckh.lg /\ k \in Stored(ckh)
               /\ Stored(out) = Stored(ckh) \ {k}
    BY <1>1, <1>4, ClearOK
  <1>5. CASE cell # {} /\ ckh' = out /\ CkhReturn("remove", FALSE)
    <2> HIDE DEF out
    <2>1. CkhInv' /\ AbstractSet' = Stored(out)
      BY <1>1, <1>4, <1>5, ReturnInv DEF CkhReturn
    <2>2. ckop'.name = "remove" /\ ckop'.ret = FALSE
      BY <1>5 DEF CkhReturn
    <2>3. k \in AbstractSet /\ AbstractSet' = AbstractSet \ {k}
      BY <1>2, <1>4, <1>5, <2>1
    <2>4. KeysOf!Remove(k)
      BY <2>2, <2>3 DEF KeysOf!Remove
    <2> QED BY <2>1, <2>4 DEF KeysOf!Next
  <1>6. CASE /\ cell # {} /\ ckh' = out /\ out.lg > lg_minbuckets
             /\ job' = CkhJob("shrink", k, "shrink", k) /\ ckop' = ckop
    <2> HIDE DEF out, cell
    <2>1. /\ TableOK(out) /\ k \in Stored(ckh) /\ Stored(out) = Stored(ckh) \ {k}
      BY <1>4, <1>6
    <2>2. /\ job' \in CkhJobs(NoTable) /\ job'.old = NoTable /\ job'.pc = "shrink"
          /\ job'.set = Found(ckh) /\ job'.arg = k
      BY <1>2, <1>6 DEF CkhJob, CkhJobs
    <2>3. Removing(ckh)'
      BY <1>2, <1>6, <2>1, <2>2 DEF Removing
    <2>4. TableOK(ckh)' /\ ckhash' \in CkhHashes
      BY <1>1, <1>6, <2>1, TablePrime
    <2>5. CkhInv'
      BY <1>6, <2>2, <2>3, <2>4 DEF CkhInv
    <2>6. AbstractSet' = AbstractSet
      BY <1>1, <2>2 DEF AbstractSet
    <2> QED BY <1>6, <2>5, <2>6
  <1> QED BY <1>3, <1>5, <1>6 DEF ckh_remove

-----------------------------------------------------------------------------

\* ckh_new: an empty table.
LEMMA InitStep ==
    ASSUME CkhInit
    PROVE  CkhInv /\ KeysOf!Init
  <1>1. lg_minbuckets \in lg_minbuckets .. CkhMaxLg
    BY CkhAssumption
  <1>2. TableOK(ckh) /\ Stored(ckh) = {}
    BY <1>1, EmptyOK DEF CkhInit, ckh_new
  <1>3. job = CkhIdle /\ job.pc = "idle" /\ ckhash \in CkhHashes
    BY DEF CkhInit, CkhIdle
  <1>4. CkhInv
    BY <1>2, <1>3 DEF CkhInv
  <1>5. AbstractSet = {}
    BY <1>2, <1>3, FoundStored DEF AbstractSet
  <1> QED BY <1>4, <1>5 DEF KeysOf!Init, CkhInit

LEMMA CkhStepOK ==
    ASSUME CkhInv, [CkhNext]_ckhvars
    PROVE  CkhInv' /\ [KeysOf!Next]_<<AbstractSet, ckop>>
  <1>1. CASE CkhNext
    BY <1>1, InsertStep, RemoveStep, TryStep, GrowStep, ShrinkStep, RebuildStep,
       EvictStep DEF CkhNext, CkhStep
  <1>2. CASE UNCHANGED ckhvars
    <2>1. ckh' = ckh /\ job' = job /\ ckhash' = ckhash /\ ckop' = ckop
      BY <1>2 DEF ckhvars
    <2>2. CkhInv'
      BY <2>1 DEF CkhInv, TableOK, BucketsOf, Bucket, Inserting, Removing,
                  Rebuilding, InHand, Evicting, CkhFree
    <2>3. AbstractSet' = AbstractSet
      BY <2>1 DEF AbstractSet, Found, ckh_isearch, ckh_bucket_search, Bucket
    <2> QED BY <2>1, <2>2, <2>3
  <1> QED BY <1>1, <1>2

\* Between calls the table has the shape that ckh_rebuild and ckh_iter rely on.
LEMMA ShapeOK ==
    ASSUME CkhInv
    PROVE  CkhShape
  <1>1. ckhash \in CkhHashes /\ TableOK(ckh)
    BY DEF CkhInv
  <1>2. /\ ckh.count = Cardinality(Occupied(ckh.tab))
        /\ Found(ckh) = Stored(ckh) /\ ckh.count = Cardinality(Stored(ckh))
        /\ ckh.lg >= lg_minbuckets
    BY <1>1, FoundStored, TableFacts DEF TableOK
  <1>3. UNION {ckh_iter(ckh, tabind) : tabind \in DOMAIN ckh.tab} = Occupied(ckh.tab)
    <2>1. \A tabind : ckh_iter(ckh, tabind) \subseteq Occupied(ckh.tab)
      BY DEF ckh_iter
    <2>2. \A c \in Occupied(ckh.tab) : c \in DOMAIN ckh.tab /\ c \in ckh_iter(ckh, c)
      <3>1. DOMAIN ckh.tab \subseteq Int
        <4>1. DOMAIN ckh.tab = 0 .. 2 ^ ckh.lg * Cells - 1
          BY <1>1, TableFacts
        <4> QED BY <4>1
      <3> QED BY <3>1 DEF ckh_iter, Occupied
    <2> QED BY <2>1, <2>2
  <1> QED BY <1>2, <1>3 DEF CkhShape, Stored

(***************************************************************************)
(* Through evictions, cycles, growing, shrinking and failed allocations    *)
(* the table of ckh.c implements the set of keys that KeySet describes,    *)
(* and between calls each key is in one cell, the count is the number of   *)
(* keys, and ckh_iter answers exactly the keys.                            *)
(***************************************************************************)
THEOREM CkhImplementsKeySet == CkhSpec => CkhIsKeySet
  <1>1. CkhInit => CkhInv /\ KeysOf!Init
    BY InitStep
  <1>2. CkhInv /\ [CkhNext]_ckhvars => CkhInv' /\ [KeysOf!Next]_<<AbstractSet, ckop>>
    BY CkhStepOK
  <1>3. CkhInv => CkhShape
    BY ShapeOK
  <1> QED BY <1>1, <1>2, <1>3, PTL DEF CkhSpec, CkhIsKeySet, KeysOf!Spec

=============================================================================
