----------------------------- MODULE CuckooHash -----------------------------
(***************************************************************************)
(* The cuckoo hash table of src/ckh.c, which maps backtraces to profiling  *)
(* contexts and holds the names of the profiling log.                      *)
(*                                                                         *)
(* A cell holds a key (its data moves with it) or NoKey.  Each key hashes  *)
(* to two buckets of 2^LG_CKH_BUCKET_CELLS cells; the hash functions are   *)
(* chosen at the start among CkhHashes and never change.  The cell that    *)
(* the pseudo-random generator picks is a free choice.  A call takes many  *)
(* steps, one per eviction; job is the call in progress.  Allocating a     *)
(* table may fail, and a table of more than 2^CkhMaxLg buckets stands for  *)
(* a size beyond SC_LARGE_MAXCLASS.                                        *)
(***************************************************************************)
EXTENDS Integers, FiniteSets

CONSTANTS CkhKeys, CkhHashes, minitems, LG_CKH_BUCKET_CELLS, CkhMaxLg

VARIABLES ckh, job, ckhash, ckop
ckhvars == <<ckh, job, ckhash, ckop>>

NoKey == 0
Cells == 2 ^ LG_CKH_BUCKET_CELLS

EmptyTab(lg) == [c \in 0 .. 2 ^ lg * Cells - 1 |-> NoKey]

(* ckh_new: the number of buckets that holds minitems at load 3/4. *)
lg_minbuckets ==
  LET mincells == ((minitems + (3 - (minitems % 3))) \div 3) * 4
  IN  CHOOSE lg \in 0 .. minitems + 2 :
        /\ 2 ^ lg * Cells >= mincells
        /\ lg = 0 \/ 2 ^ (lg - 1) * Cells < mincells

(* A larger table than 2^CkhMaxLg buckets is never made, by ckh_new either. *)
ASSUME CkhAssumption == /\ CkhKeys \subseteq Nat \ {0}
                        /\ LG_CKH_BUCKET_CELLS \in Nat \ {0}
                        /\ CkhMaxLg \in Nat
                        /\ lg_minbuckets \in 0 .. CkhMaxLg
                        /\ CkhHashes \subseteq [CkhKeys -> Nat \X Nat]

(* What the provers are not told of exponentiation. *)
ASSUME CkhPowers == Cells > 0 /\ \A lg \in 0 .. CkhMaxLg : 2 ^ lg > 0

ckh_new == [tab |-> EmptyTab(lg_minbuckets), lg |-> lg_minbuckets, count |-> 0]

BucketCells(b) == b * Cells .. (b + 1) * Cells - 1
Bucket(t, k, i) == ckhash[k][i] % 2 ^ t.lg
CkhFree(t, b) == {c \in BucketCells(b) : t.tab[c] = NoKey}

ckh_bucket_search(t, b, k) == {c \in BucketCells(b) : t.tab[c] = k}

(* The cell of k, as a set with at most one member. *)
ckh_isearch(t, k) ==
  LET first == ckh_bucket_search(t, Bucket(t, k, 1), k)
  IN  IF first # {} THEN first ELSE ckh_bucket_search(t, Bucket(t, k, 2), k)

(* ckh_search answers false (found) for these keys. *)
Found(t) == {k \in CkhKeys : ckh_isearch(t, k) # {}}

Occupied(tab) == {c \in DOMAIN tab : tab[c] # NoKey}

(* The cell that ckh_iter() answers from tabind on, as a set with at most  *)
(* one member.                                                             *)
ckh_iter(t, tabind) ==
  {c \in Occupied(t.tab) :
     c >= tabind /\ \A d \in Occupied(t.tab) : d >= tabind => c <= d}

NoTable == [tab |-> <<>>, lg |-> 0, count |-> 0]
CkhIdle == [pc |-> "idle"]

CkhReturn(name, ret) == job' = CkhIdle /\ ckop' = [name |-> name, ret |-> ret]

-----------------------------------------------------------------------------
(* A job in progress has: pc; arg, the key of the call; set, the keys in   *)
(* the table when it began; phase, what the placing of key is part of;     *)
(* hold, the key to insert after growing; old, the table to rebuild from   *)
(* and ind, the next cell of it; and, while evicting, the bucket and       *)
(* argbucket.                                                              *)

CkhJob(pc, arg, phase, key) ==
  [pc |-> pc, arg |-> arg, set |-> Found(ckh), phase |-> phase, key |-> key,
   hold |-> NoKey, old |-> NoTable, ind |-> 0, try |-> 0, bucket |-> 0,
   argbucket |-> 0]

(* ckh_try_insert put the key in its place: an insertion is done; a        *)
(* rebuild goes on with the next item.                                     *)
Placed ==
  IF job.phase = "insert" THEN CkhReturn("insert", FALSE)
  ELSE job' = [job EXCEPT !.pc = "rebuild"] /\ UNCHANGED ckop

(* ckh_try_insert met a cycle, with the victim in its hands: an insertion  *)
(* grows the table, a rebuild backs out of the new table.                  *)
Cycle(victim, t) ==
  IF job.phase = "insert"
  THEN /\ ckh' = t
       /\ job' = [job EXCEPT !.pc = "grow", !.hold = victim, !.try = t.lg]
       /\ UNCHANGED ckop
  ELSE /\ ckh' = job.old
       /\ IF job.phase = "grow"
          THEN job' = [job EXCEPT !.pc = "grow"] /\ UNCHANGED ckop
          ELSE CkhReturn("remove", FALSE)

Put(t, c, k) == [t EXCEPT !.tab[c] = k, !.count = @ + 1]

(* The primary bucket, then the secondary one, then evictions. *)
ckh_try_insert ==
  LET k == job.key
      first == Bucket(ckh, k, 1)
      second == Bucket(ckh, k, 2)
      where == IF CkhFree(ckh, first) # {} THEN first ELSE second
  IN  /\ job.pc = "try"
      /\ \/ \E c \in CkhFree(ckh, where) : ckh' = Put(ckh, c, k) /\ Placed
         \/ /\ CkhFree(ckh, where) = {}
            /\ job' = [job EXCEPT !.pc = "evict", !.bucket = second,
                                  !.argbucket = second]
            /\ UNCHANGED <<ckh, ckop>>
      /\ UNCHANGED ckhash

(* Operators named X_<bug> are X with a bug that the properties must       *)
(* detect.  Here the victim is always looked for in its second bucket.     *)
OtherBucket_second(t, k, b) == Bucket(t, k, 2)

OtherBucket(t, k, b) ==
  IF Bucket(t, k, 2) = b THEN Bucket(t, k, 1) ELSE Bucket(t, k, 2)

(* One turn of the loop of ckh_evict_reloc_insert, with cell i of bucket b *)
(* picked.                                                                 *)
EvictCell(b, i) ==
  LET c == b * Cells + i
      victim == ckh.tab[c]
      swapped == [ckh EXCEPT !.tab[c] = job.key]
      tbucket == OtherBucket(ckh, victim, b)
  IN  /\ job.pc = "evict"
      /\ job.bucket = b
      /\ \/ tbucket = job.argbucket /\ Cycle(victim, swapped)
         \/ /\ tbucket # job.argbucket
            /\ \E d \in CkhFree(swapped, tbucket) : ckh' = Put(swapped, d, victim)
            /\ Placed
         \/ /\ tbucket # job.argbucket
            /\ CkhFree(swapped, tbucket) = {}
            /\ ckh' = swapped
            /\ job' = [job EXCEPT !.bucket = tbucket, !.key = victim]
            /\ UNCHANGED ckop
      /\ UNCHANGED ckhash

(* A larger table, or none: the size is beyond the largest, or allocation  *)
(* fails, and the insertion returns true.                                  *)
ckh_grow ==
  /\ job.pc = "grow"
  /\ \/ CkhReturn("insert", TRUE) /\ UNCHANGED ckh
     \/ LET lg == job.try + 1
        IN  /\ lg <= CkhMaxLg
            /\ ckh' = [tab |-> EmptyTab(lg), lg |-> lg, count |-> 0]
            /\ job' = [job EXCEPT !.pc = "rebuild", !.phase = "grow",
                                  !.old = ckh, !.ind = 0, !.try = lg]
            /\ UNCHANGED ckop
  /\ UNCHANGED ckhash

ckh_shrink ==
  /\ job.pc = "shrink"
  /\ \/ CkhReturn("remove", FALSE) /\ UNCHANGED ckh
     \/ LET lg == ckh.lg - 1
        IN  /\ ckh' = [tab |-> EmptyTab(lg), lg |-> lg, count |-> 0]
            /\ job' = [job EXCEPT !.pc = "rebuild", !.phase = "shrink",
                                  !.old = ckh, !.ind = 0]
            /\ UNCHANGED ckop
  /\ UNCHANGED ckhash

(* Operators named X_<bug>: the item after each one inserted is skipped. *)
ckh_rebuild_skips ==
  LET left == {c \in Occupied(job.old.tab) : c >= job.ind}
  IN  /\ job.pc = "rebuild"
      /\ IF left # {}
         THEN LET c == CHOOSE c \in left : \A d \in left : c <= d
              IN  /\ job' = [job EXCEPT !.pc = "try", !.ind = c + 2,
                                        !.key = job.old.tab[c]]
                  /\ UNCHANGED ckop
         ELSE IF job.phase = "grow"
              THEN /\ job' = [job EXCEPT !.pc = "try", !.phase = "insert",
                                         !.key = job.hold, !.old = NoTable]
                   /\ UNCHANGED ckop
              ELSE CkhReturn("remove", FALSE)
      /\ UNCHANGED <<ckh, ckhash>>

(* The next item of the old table; after the last one, an insertion tries  *)
(* again with the key it holds, and a removal returns.                     *)
ckh_rebuild ==
  LET left == {c \in Occupied(job.old.tab) : c >= job.ind}
  IN  /\ job.pc = "rebuild"
      /\ IF ckh.count < job.old.count
         THEN LET c == CHOOSE c \in left : \A d \in left : c <= d
              IN  /\ job' = [job EXCEPT !.pc = "try", !.ind = c + 1,
                                        !.key = job.old.tab[c]]
                  /\ UNCHANGED ckop
         ELSE IF job.phase = "grow"
              THEN /\ job' = [job EXCEPT !.pc = "try", !.phase = "insert",
                                         !.key = job.hold, !.old = NoTable]
                   /\ UNCHANGED ckop
              ELSE CkhReturn("remove", FALSE)
      /\ UNCHANGED <<ckh, ckhash>>

-----------------------------------------------------------------------------

ckh_insert(k) ==
  /\ job.pc = "idle"
  /\ k \notin Found(ckh)
  /\ job' = CkhJob("try", k, "insert", k)
  /\ UNCHANGED <<ckh, ckhash, ckop>>

Cleared(t, cell) ==
  [t EXCEPT !.tab = [c \in DOMAIN t.tab |-> IF c \in cell THEN NoKey ELSE t.tab[c]],
            !.count = @ - 1]

(* The table is halved when it is less than a quarter full. *)
ckh_remove(k) ==
  LET cell == ckh_isearch(ckh, k)
      out == Cleared(ckh, cell)
  IN  /\ job.pc = "idle"
      /\ \/ cell = {} /\ CkhReturn("remove", TRUE) /\ UNCHANGED ckh
         \/ /\ cell # {}
            /\ ckh' = out
            /\ IF 4 * out.count < 2 ^ out.lg * Cells /\ out.lg > lg_minbuckets
               THEN job' = CkhJob("shrink", k, "shrink", k) /\ UNCHANGED ckop
               ELSE CkhReturn("remove", FALSE)
      /\ UNCHANGED ckhash

CkhInit ==
  /\ ckh = ckh_new
  /\ job = CkhIdle
  /\ ckhash \in CkhHashes
  /\ ckop = [name |-> "new", ret |-> FALSE]

CkhEvict(i) == \E b \in 0 .. 2 ^ CkhMaxLg - 1 : EvictCell(b, i)

CkhStep == ckh_try_insert \/ ckh_grow \/ ckh_shrink \/ ckh_rebuild

CkhNext == \/ \E k \in CkhKeys : ckh_insert(k) \/ ckh_remove(k)
           \/ CkhStep \/ \E i \in 0 .. Cells - 1 : CkhEvict(i)

CkhSpec == CkhInit /\ [][CkhNext]_ckhvars

(* The table goes on with the call in progress, and an eviction that went  *)
(* on forever would pick every cell number again and again, as             *)
(* ckh_evict_reloc_insert requires of the generator.                       *)
CkhFairness == /\ WF_ckhvars(CkhStep)
               /\ \A i \in 0 .. Cells - 1 : SF_ckhvars(CkhEvict(i))

-----------------------------------------------------------------------------
(* Properties. *)

(* Between calls each item is in one cell, of one of its two buckets, and  *)
(* the count is the number of items: what ckh_rebuild's loop over count    *)
(* items relies on not to run past the end of the old table.               *)
CkhShape ==
  job.pc = "idle" =>
    /\ ckh.count = Cardinality(Occupied(ckh.tab))
    /\ ckh.count = Cardinality(Found(ckh))
    /\ {ckh.tab[c] : c \in UNION {ckh_iter(ckh, tabind) :
                                   tabind \in DOMAIN ckh.tab}} = Found(ckh)
    /\ ckh.lg >= lg_minbuckets

(* A call takes effect when it returns. *)
AbstractSet == IF job.pc = "idle" THEN Found(ckh) ELSE job.set

(* What the table promises: the set of keys that KeySet describes. *)
KeysOf == INSTANCE KeySet WITH Keys <- CkhKeys, op <- ckop, set <- AbstractSet

(* Through evictions, cycles, growing, shrinking and failed allocations    *)
(* the table implements KeySet, and keeps its shape.                       *)
CkhIsKeySet == KeysOf!Spec /\ []CkhShape

(* ckh_insert and ckh_remove return: "we are guaranteed to eventually      *)
(* escape this bucket during iteration" (ckh.c).                           *)
CkhReturns == job.pc # "idle" ~> job.pc = "idle"

-----------------------------------------------------------------------------
(* The inductive invariant from which CuckooProofs derives CkhIsKeySet. *)

Stored(t) == {t.tab[c] : c \in Occupied(t.tab)}

BucketsOf(t, k) == {Bucket(t, k, 1), Bucket(t, k, 2)}

(* No key is in two cells, each is in one of its buckets, and the count is *)
(* right: true of the table in use at every step, while a key is in the    *)
(* hands of the eviction loop too.                                         *)
TableOK(t) ==
  /\ t \in [tab : [0 .. 2 ^ t.lg * Cells - 1 -> CkhKeys \cup {NoKey}],
            lg : lg_minbuckets .. CkhMaxLg, count : Nat]
  /\ t.count = Cardinality(Occupied(t.tab))
  /\ \A c \in Occupied(t.tab) :
       \E b \in BucketsOf(t, t.tab[c]) : c \in BucketCells(b)
  /\ \A c, d \in Occupied(t.tab) : t.tab[c] = t.tab[d] => c = d

CkhJobs(old) ==
  [pc : {"try", "evict", "grow", "shrink", "rebuild"}, arg : CkhKeys,
   set : SUBSET CkhKeys, phase : {"insert", "grow", "shrink"},
   key : CkhKeys, hold : CkhKeys \cup {NoKey}, old : {old},
   ind : Nat, try : Nat, bucket : Nat, argbucket : Nat]

(* The keys the call must account for: those in the table with the one in  *)
(* hand are those of before the insertion and its own, or those of before  *)
(* the removal without its own.                                            *)
Inserting(t, k) == /\ job.arg \notin job.set
                   /\ k \in CkhKeys \ Stored(t)
                   /\ Stored(t) \cup {k} = job.set \cup {job.arg}
Removing(t) == job.arg \in job.set /\ Stored(t) = job.set \ {job.arg}

(* A rebuild keeps the old table whole; the new one has its keys up to ind *)
(* but for the one in hand.                                                *)
Before(t, ind) == {t.tab[c] : c \in {d \in Occupied(t.tab) : d < ind}}
InHand == IF job.pc = "rebuild" THEN {} ELSE {job.key}

Rebuilding ==
  /\ TableOK(job.old)
  /\ Stored(ckh) \cup InHand = Before(job.old, job.ind)
  /\ InHand \cap Stored(ckh) = {}
  /\ \/ /\ job.phase = "grow" /\ Inserting(job.old, job.hold)
        /\ job.try >= lg_minbuckets
     \/ job.phase = "shrink" /\ Removing(job.old)

Evicting ==
  /\ job.bucket \in BucketsOf(ckh, job.key)
  /\ CkhFree(ckh, job.bucket) = {}

CkhInv ==
  /\ ckhash \in CkhHashes
  /\ TableOK(ckh)
  /\ job = CkhIdle \/ job \in CkhJobs(job.old)
  /\ job.pc = "grow" => Inserting(ckh, job.hold) /\ job.try >= lg_minbuckets
  /\ job.pc = "shrink" => Removing(ckh) /\ ckh.lg > lg_minbuckets
  /\ job.pc \in {"try", "evict"} /\ job.phase = "insert" => Inserting(ckh, job.key)
  /\ job.pc \in {"try", "evict"} /\ job.phase # "insert" => Rebuilding
  /\ job.pc = "rebuild" => Rebuilding
  /\ job.pc = "evict" => Evicting
=============================================================================
