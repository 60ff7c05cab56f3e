---------------------------- MODULE BootProofs ----------------------------
(***************************************************************************)
(* Initialisation happens once, whichever threads race for it, and the     *)
(* arenas of the CPUs exist: BootInv is inductive and implies BootSound.   *)
(***************************************************************************)
EXTENDS Boot, TLAPS

-----------------------------------------------------------------------------
\* The groups of CPUs: as many as CPUs, or half of them rounded up.
LEMMA GroupsIs ==
    ASSUME NEW mode, NEW n \in Nat \ {0}
    PROVE  /\ percpu_arena_ngroups_for(mode, n) \in 1 .. n
           /\ \A pos \in 0 .. n - 1 :
                percpu_arena_group_of(mode, pos, n)
                  \in 0 .. percpu_arena_ngroups_for(mode, n) - 1
  <1>1. /\ n \div 2 \in Nat /\ n % 2 \in {0, 1} /\ n = 2 * (n \div 2) + (n % 2)
    OBVIOUS
  <1> QED BY <1>1 DEF percpu_arena_ngroups_for, percpu_arena_group_of

\* The map takes every CPU to a group.
LEMMA MapIs ==
    ASSUME NEW mode, NEW ids, NEW n \in Nat \ {0}
    PROVE  percpu_arena_map_build(mode, ids, n)
             \in [0 .. PERCPU_ARENA_MAX_CPUS - 1 -> 0 .. percpu_arena_ngroups_for(mode, n) - 1]
  <1> DEFINE g == percpu_arena_ngroups_for(mode, n)
             id(pos) == IF ids = << >> THEN pos ELSE ids[pos + 1]
             ranks(c) == {pos \in 0 .. n - 1 : id(pos) = c}
             at(c) == IF ranks(c) = {} THEN c % g
                      ELSE percpu_arena_group_of(mode, CHOOSE pos \in ranks(c) : TRUE, n)
  <1>1. g \in 1 .. n
    BY GroupsIs
  <1>2. ASSUME NEW c \in 0 .. PERCPU_ARENA_MAX_CPUS - 1 PROVE at(c) \in 0 .. g - 1
    <2>1. CASE ranks(c) = {}
      <3>1. c \in Nat /\ g \in Nat \ {0}
        BY <1>1, BootAssumption
      <3> HIDE DEF g
      <3>2. c % g \in 0 .. g - 1
        BY <3>1
      <3> QED BY <2>1, <3>2
    <2>2. CASE ranks(c) # {}
      <3>1. (CHOOSE pos \in ranks(c) : TRUE) \in ranks(c)
        BY <2>2
      <3>2. (CHOOSE pos \in ranks(c) : TRUE) \in 0 .. n - 1
        BY <3>1
      <3> QED BY <2>2, <3>2, GroupsIs
    <2> QED BY <2>1, <2>2
  <1>3. percpu_arena_map_build(mode, ids, n)
          = [c \in 0 .. PERCPU_ARENA_MAX_CPUS - 1 |-> at(c)]
    BY DEF percpu_arena_map_build
  <1> HIDE DEF at, g
  <1>4. [c \in 0 .. PERCPU_ARENA_MAX_CPUS - 1 |-> at(c)]
          \in [0 .. PERCPU_ARENA_MAX_CPUS - 1 -> 0 .. g - 1]
    BY <1>2
  <1> QED BY <1>3, <1>4 DEF g

\* What malloc_init_narenas leaves.
LEMMA NarenasIs ==
    ASSUME BootTypeOK, ~TooManyCpus, boot' = malloc_init_narenas, bopt' = bopt
    PROVE  /\ ArenasOK'
           /\ boot'.narenas \in Nat /\ boot'.total \in Nat /\ boot'.manual \in Nat
           /\ boot'.ngroups \in Nat
           /\ boot'.map \in {<< >>} \cup [0 .. PERCPU_ARENA_MAX_CPUS - 1 -> Nat]
           /\ \A p \in {"a0", "recursible", "finish"} : boot'.ran[p] = boot.ran[p]
           /\ boot'.ran["narenas"] = boot.ran["narenas"] + 1
           /\ boot'.ran \in [BootPhases -> Nat]
           /\ boot'.lock = boot.lock /\ boot'.state = boot.state
           /\ boot'.initializer = boot.initializer /\ boot'.percpu = boot.percpu
           /\ boot'.failed = boot.failed
           /\ boot' \in BootGlobals
  <1> DEFINE k == percpu_arena_ngroups_for(PercpuMode, bopt.ncpus)
             n == Clamped(Narenas)
             on == PercpuMode # "disabled"
             m == percpu_arena_boot(PercpuMode)
             M == 0 .. PERCPU_ARENA_MAX_CPUS - 1
             rn == [boot.ran EXCEPT !["narenas"] = boot.ran["narenas"] + 1]
  <1>1. /\ bopt.ncpus \in Nat \ {0} /\ bopt.narenas \in Nat /\ bopt.ratio \in Nat
        /\ FXP_UNIT \in Nat \ {0} /\ ARENA_LIMIT \in Nat \ {0, 1}
    BY BootAssumption DEF BootTypeOK, BootGlobals, BootOptionType
  <1>2. k \in 1 .. bopt.ncpus
    BY <1>1, GroupsIs
  <1>3. m \in [M -> 0 .. k - 1]
    BY <1>1, MapIs DEF percpu_arena_boot
  <1>4. malloc_narenas_default \in Nat \ {0}
    <2> DEFINE goal == (bopt.ncpus * bopt.ratio + FXP_UNIT \div 2) \div FXP_UNIT
    <2>1. goal \in Nat
      <3>1. FXP_UNIT \div 2 \in Nat /\ bopt.ncpus * bopt.ratio \in Nat
        BY <1>1
      <3>2. \A a \in Nat, b \in Nat \ {0} : a \div b \in Nat
        OBVIOUS
      <3>3. bopt.ncpus * bopt.ratio + FXP_UNIT \div 2 \in Nat
        BY <3>1
      <3> QED BY <1>1, <3>2, <3>3
    <2> HIDE DEF goal
    <2>2. malloc_narenas_default = IF bopt.ncpus > 1 /\ goal > 0 THEN goal ELSE 1
      BY DEF malloc_narenas_default, goal
    <2> QED BY <2>1, <2>2
  <1>5. Narenas \in Nat \ {0} /\ (on => Narenas >= k)
    <2> HIDE DEF k
    <2>1. Narenas = LET opt == IF on /\ bopt.narenas < k THEN k ELSE bopt.narenas
                    IN  IF opt = 0 THEN malloc_narenas_default ELSE opt
      BY DEF Narenas, k
    <2> QED BY <1>1, <1>2, <1>4, <2>1
  <1>6. on => k < ARENA_LIMIT
    BY <1>1, <1>2 DEF TooManyCpus
  <1>7. n \in 1 .. ARENA_LIMIT - 1 /\ (on => k <= n)
    <2> HIDE DEF k
    <2> QED BY <1>1, <1>2, <1>5, <1>6 DEF Clamped
  <1>8. /\ boot \in BootGlobals
        /\ boot.ran \in [BootPhases -> Nat]
    BY DEF BootTypeOK, BootGlobals
  <1>9. rn \in [BootPhases -> Nat]
    BY <1>8 DEF BootPhases
  <1>10. boot' = [boot EXCEPT !.ran = rn, !.narenas = n,
                    !.map = IF on THEN m ELSE << >>, !.ngroups = IF on THEN k ELSE 0,
                    !.total = IF bopt.huge THEN n + 1 ELSE n,
                    !.manual = IF bopt.huge THEN n + 1 ELSE n]
    BY <1>8 DEF malloc_init_narenas, Runs
  <1> HIDE DEF rn, k, n, m
  <1>11. /\ boot'.narenas = n /\ boot'.map = (IF on THEN m ELSE << >>)
         /\ boot'.ngroups = (IF on THEN k ELSE 0) /\ boot'.ran = rn
         /\ boot'.total = (IF bopt.huge THEN n + 1 ELSE n) /\ boot'.manual = boot'.total
         /\ boot'.lock = boot.lock /\ boot'.state = boot.state
         /\ boot'.initializer = boot.initializer /\ boot'.percpu = boot.percpu
         /\ boot'.failed = boot.failed
    BY <1>8, <1>10 DEF BootGlobals
  <1>12. /\ boot'.narenas \in Nat /\ boot'.total \in Nat /\ boot'.manual \in Nat
         /\ boot'.ngroups \in Nat /\ boot'.narenas <= boot'.manual
    BY <1>1, <1>2, <1>7, <1>11
  <1>13. boot'.map \in {<< >>} \cup [M -> Nat]
    <2>1. m \in [M -> Nat]
      BY <1>2, <1>3
    <2> QED BY <1>11, <2>1
  <1>14. boot' \in BootGlobals
    BY <1>8, <1>9, <1>10, <1>11, <1>12, <1>13 DEF BootGlobals
  <1>15. (PercpuMode # "disabled")' = on
    BY DEF PercpuMode
  <1>16. on => /\ boot'.ngroups \in 1 .. boot'.narenas
               /\ boot'.map \in [M -> 0 .. boot'.ngroups - 1]
    BY <1>1, <1>2, <1>3, <1>7, <1>11
  <1>17. ArenasOK'
    BY <1>7, <1>11, <1>12, <1>15, <1>16 DEF ArenasOK
  <1>18. /\ \A p \in {"a0", "recursible", "finish"} : boot'.ran[p] = boot.ran[p]
         /\ boot'.ran["narenas"] = boot.ran["narenas"] + 1
    BY <1>8, <1>11 DEF rn, BootPhases
  <1> QED BY <1>9, <1>11, <1>12, <1>13, <1>14, <1>17, <1>18

-----------------------------------------------------------------------------
\* A step of thread t that changes of the globals at most init_lock, and whether a
\* phase has failed.
LEMMA KeepInv ==
    ASSUME BootInv, NEW t \in BootThreads, NEW r \in BootCallType,
           NEW l \in BootThreads \cup {NoThread}, NEW f \in BOOLEAN,
           bcall' = [bcall EXCEPT ![t] = r], bopt' = bopt,
           boot' = [boot EXCEPT !.lock = l, !.failed = f],
           boot.failed => f,
           \A u \in BootThreads : u # t => (l = u <=> boot.lock = u),
           BootCallOK(t)', Inside(t) => f \/ Inside(t)'
    PROVE  BootInv'
  <1>1. BootTypeOK /\ BootRanOK /\ \A u \in BootThreads : BootCallOK(u)
    BY DEF BootInv
  <1>2. /\ boot'.lock = l /\ boot'.failed = f /\ boot'.state = boot.state
        /\ boot'.initializer = boot.initializer /\ boot'.ran = boot.ran
        /\ boot'.narenas = boot.narenas /\ boot'.manual = boot.manual
        /\ boot'.total = boot.total /\ boot'.ngroups = boot.ngroups
        /\ boot'.map = boot.map /\ boot'.percpu = boot.percpu
    BY <1>1 DEF BootTypeOK, BootGlobals
  <1>3. bcall'[t] = r /\ \A u \in BootThreads : u # t => bcall'[u] = bcall[u]
    BY <1>1 DEF BootTypeOK, BootGlobals
  <1>4. BootTypeOK'
    BY <1>1 DEF BootTypeOK, BootGlobals, BootCallType
  <1>5. BootRanOK'
    BY <1>1, <1>2 DEF BootRanOK, malloc_initialized
  <1>6. ASSUME NEW u \in BootThreads, u # t PROVE BootCallOK(u)' /\ Inside(u)' = Inside(u)
    <2>1. BootCallOK(u) /\ bcall'[u] = bcall[u]
      BY <1>1, <1>3, <1>6
    <2>2. Inside(u)' = Inside(u)
      BY <2>1 DEF Inside
    <2> QED BY <1>2, <1>6, <2>1, <2>2
            DEF BootCallOK, Inside, malloc_initialized, Recursive, malloc_is_initializer
  <1>7. boot'.state = "recursible" => boot'.failed \/ \E u \in BootThreads : Inside(u)'
    BY <1>2, <1>6 DEF BootInv
  <1>8. PercpuMode' = PercpuMode
    BY DEF PercpuMode
  <1>9. (boot.ran["narenas"] = 1 => ArenasOK)' /\ (boot.percpu => PercpuMode # "disabled")'
    BY <1>2, <1>8 DEF BootInv, ArenasOK
  <1>10. (boot.state \in {"a0_initialized", "recursible"} => malloc_initializer_is_set)'
    BY <1>2 DEF BootInv, malloc_initializer_is_set
  <1> QED BY <1>4, <1>5, <1>6, <1>7, <1>9, <1>10 DEF BootInv

\* The registers of a thread, and the globals after a step that leaves all but the
\* lock alone.
LEMMA BootTypes ==
    ASSUME BootInv
    PROVE  /\ \A t \in BootThreads : bcall[t] \in BootCallType
           /\ boot.lock \in BootThreads \cup {NoThread} /\ boot.failed \in BOOLEAN
           /\ NoThread \notin BootThreads
           /\ boot = [boot EXCEPT !.lock = boot.lock, !.failed = boot.failed]
           /\ \A l : [boot EXCEPT !.lock = l]
                       = [boot EXCEPT !.lock = l, !.failed = boot.failed]
  BY BootAssumption DEF BootInv, BootTypeOK, BootGlobals, BootCallType

\* Calls begin.
LEMMA CallInv ==
    ASSUME BootInv, NEW t \in BootThreads, malloc_init(t) \/ NestedCall(t)
    PROVE  BootInv'
  <1> DEFINE c == bcall[t]
             p == IF c.pc = "recursible" THEN "lock"
                  ELSE IF malloc_initialized THEN "ready" ELSE "lock"
             r == [c EXCEPT !.pc = p, !.nested = IF c.pc = "recursible" THEN TRUE ELSE c.nested,
                            !.calls = c.calls - 1]
  <1>1. /\ c \in BootCallType /\ BootCallOK(t) /\ c.calls > 0 /\ bopt' = bopt /\ boot' = boot
        /\ c.pc \in BootResting \cup {"recursible"} /\ bcall \in [BootThreads -> BootCallType]
    BY BootTypes DEF BootInv, malloc_init, NestedCall, BootTypeOK, BootGlobals, BootCallType
  <1>2. c.calls - 1 \in Nat
    BY <1>1 DEF BootCallType
  <1>3. bcall' = [bcall EXCEPT ![t] = r]
    <2>1. CASE malloc_init(t)
      <3>1. bcall' = [bcall EXCEPT ![t].calls = c.calls - 1, ![t].pc = p]
            /\ c.pc # "recursible"
        BY <2>1 DEF malloc_init, BootResting
      <3>2. r = [c EXCEPT !.calls = c.calls - 1, !.pc = p]
        BY <1>1, <3>1 DEF BootCallType
      <3> QED BY <1>1, <3>1, <3>2
    <2>2. CASE NestedCall(t)
      BY <1>1, <2>2 DEF NestedCall, BootCallType
    <2> QED BY <2>1, <2>2
  <1>4. /\ r \in BootCallType /\ r.pc = p /\ r.reentrancy = c.reentrancy
        /\ r.nested = IF c.pc = "recursible" THEN TRUE ELSE c.nested
    BY <1>1, <1>2 DEF BootCallType, BootResting
  <1>5. bcall'[t] = r
    BY <1>1, <1>3
  <1> HIDE DEF r
  <1>6. BootCallOK(t)' /\ (Inside(t) => Inside(t)')
    <2>1. CASE c.pc = "recursible"
      BY <1>1, <1>4, <1>5, <2>1
         DEF BootCallOK, Inside, malloc_initialized, Recursive, malloc_is_initializer
    <2>2. CASE c.pc \in BootResting
      BY <1>1, <1>4, <1>5, <2>2 DEF BootCallOK, Inside, malloc_initialized, Recursive,
         malloc_is_initializer, BootResting
    <2> QED BY <1>1, <2>1, <2>2
  <1> QED BY <1>1, <1>3, <1>4, <1>6, BootTypes, KeepInv

\* A thread takes init_lock.
LEMMA LockInv ==
    ASSUME BootInv, NEW t \in BootThreads,
           malloc_init_hard(t) \/ BusyLock(t) \/ malloc_init_hard_recursible(t)
    PROVE  BootInv'
  <1> DEFINE c == bcall[t]
             p == IF c.pc = "recursible" THEN "narenas" ELSE "needed"
             r == [c EXCEPT !.pc = p]
  <1>1. /\ c \in BootCallType /\ BootCallOK(t) /\ bopt' = bopt
        /\ boot.lock = NoThread /\ boot' = [boot EXCEPT !.lock = t]
        /\ c.pc \in {"lock", "spin", "recursible"}
        /\ bcall \in [BootThreads -> BootCallType] /\ bcall' = [bcall EXCEPT ![t].pc = p]
    BY BootTypes DEF BootInv, malloc_init_hard, BusyLock, malloc_init_hard_recursible,
       InitLock, Goes, BootTypeOK, BootGlobals, BootCallType
  <1>2. bcall' = [bcall EXCEPT ![t] = r]
    BY <1>1
  <1>3. /\ r \in BootCallType /\ r.pc = p /\ r.reentrancy = c.reentrancy
        /\ r.nested = c.nested
    BY <1>1 DEF BootCallType
  <1>4. bcall'[t] = r /\ boot'.lock = t /\ boot'.state = boot.state
        /\ boot'.initializer = boot.initializer /\ boot'.ran = boot.ran
    BY <1>1, <1>2 DEF BootInv, BootTypeOK, BootGlobals
  <1> HIDE DEF r
  <1>5. BootCallOK(t)' /\ (Inside(t) => Inside(t)')
    BY <1>1, <1>3, <1>4
       DEF BootCallOK, Inside, malloc_initialized, Recursive, malloc_is_initializer
  <1>6. boot' = [boot EXCEPT !.lock = t, !.failed = boot.failed]
    BY <1>1, BootTypes
  <1>7. \A u \in BootThreads : u # t => (t = u <=> boot.lock = u)
    BY <1>1, BootTypes
  <1>8. /\ t \in BootThreads \cup {NoThread} /\ boot.failed \in BOOLEAN
        /\ (Inside(t) => boot.failed \/ Inside(t)')
    BY <1>5, BootTypes
  <1>9. bopt' = bopt /\ r \in BootCallType /\ BootCallOK(t)' /\ (boot.failed => boot.failed)
    BY <1>1, <1>3, <1>5
  <1> QED BY ONLY BootInv, t \in BootThreads, <1>2, <1>6, <1>7, <1>8, <1>9, KeepInv, Zenon

\* malloc_init_hard_needed finds nothing to do, or another thread at it.
LEMMA NeededInv ==
    ASSUME BootInv, NEW t \in BootThreads, NotNeeded(t) \/ BusyWait(t)
    PROVE  BootInv'
  <1> DEFINE c == bcall[t]
             p == IF BusyWait(t) THEN "spin" ELSE IF c.nested THEN "recursible" ELSE "ready"
             r == [c EXCEPT !.pc = p, !.nested = FALSE]
  <1>1. /\ c \in BootCallType /\ BootCallOK(t) /\ bopt' = bopt
        /\ boot' = [boot EXCEPT !.lock = NoThread] /\ c.pc = "needed" /\ boot.lock = t
        /\ bcall \in [BootThreads -> BootCallType]
    BY BootTypes DEF BootInv, NotNeeded, BusyWait, BootTypeOK, BootGlobals, BootCallType, BootCallOK
  <1>2. BusyWait(t) => ~c.nested /\ c.nested = FALSE
    BY <1>1 DEF BusyWait, BootCallOK, Inside, malloc_is_initializer, BootCallType
  <1>3. bcall' = [bcall EXCEPT ![t] = r]
    <2>1. CASE BusyWait(t)
      <3>1. bcall' = [bcall EXCEPT ![t].pc = "spin"]
        BY <2>1 DEF BusyWait, Goes
      <3>2. r = [c EXCEPT !.pc = "spin"]
        BY <1>1, <1>2, <2>1 DEF BootCallType
      <3> QED BY <1>1, <3>1, <3>2
    <2>2. CASE ~BusyWait(t)
      <3>1. NotNeeded(t)
        BY <2>2
      <3>2. bcall' = [bcall EXCEPT ![t].pc = p, ![t].nested = FALSE]
        BY <2>2, <3>1 DEF NotNeeded, Done
      <3> QED BY <1>1, <3>2
    <2> QED BY <2>1, <2>2
  <1>4. /\ r \in BootCallType /\ r.pc = p /\ r.reentrancy = c.reentrancy
        /\ r.nested = FALSE
    BY <1>1 DEF BootCallType, BootResting
  <1>5. bcall'[t] = r /\ boot'.lock = NoThread /\ boot'.state = boot.state
        /\ boot'.initializer = boot.initializer /\ boot'.ran = boot.ran
        /\ boot'.failed = boot.failed
    BY <1>1, <1>3 DEF BootInv, BootTypeOK, BootGlobals
  <1>6. p = "ready" => malloc_initialized \/ (boot.failed /\ Recursive(t))
    <2> SUFFICES ASSUME p = "ready", ~malloc_initialized
                 PROVE  boot.failed /\ Recursive(t)
      OBVIOUS
    <2>1. Recursive(t) /\ ~c.nested
      BY DEF NotNeeded
    <2>2. boot.failed \/ \E u \in BootThreads : Inside(u)
      BY <2>1 DEF BootInv, Recursive
    <2>3. ASSUME NEW u \in BootThreads, Inside(u) PROVE FALSE
      BY <1>1, <2>1, <2>3 DEF BootInv, BootCallOK, Recursive, malloc_is_initializer, Inside
    <2> QED BY <2>1, <2>2, <2>3
  <1>7. c.nested => p = "recursible"
    BY <1>2
  <1> HIDE DEF r, p
  <1>8. p \in {"spin", "recursible", "ready"} /\ (p = "recursible" => c.nested)
    BY DEF p
  <1>9. BootCallOK(t)' /\ (Inside(t) => Inside(t)')
    BY <1>1, <1>4, <1>5, <1>6, <1>7, <1>8, BootTypes
       DEF BootCallOK, Inside, malloc_initialized, Recursive, malloc_is_initializer
  <1>10. boot' = [boot EXCEPT !.lock = NoThread, !.failed = boot.failed]
    BY <1>1, BootTypes
  <1>11. \A u \in BootThreads : u # t => (NoThread = u <=> boot.lock = u)
    BY <1>1, BootTypes
  <1>12. /\ NoThread \in BootThreads \cup {NoThread} /\ boot.failed \in BOOLEAN
         /\ (Inside(t) => boot.failed \/ Inside(t)') /\ (boot.failed => boot.failed)
         /\ bopt' = bopt /\ r \in BootCallType /\ BootCallOK(t)'
    BY <1>1, <1>4, <1>9, BootTypes
  <1> QED BY ONLY BootInv, t \in BootThreads, <1>3, <1>10, <1>11, <1>12, KeepInv, Zenon

\* A failure past a0, and the creation of the first background thread.
LEMMA FailInv ==
    ASSUME BootInv, NEW t \in BootThreads, LateFailure(t)
    PROVE  BootInv'
  <1> DEFINE c == bcall[t]
             r == [c EXCEPT !.pc = "failed", !.reentrancy = 0]
             l == IF boot.lock = t THEN NoThread ELSE boot.lock
  <1>1. /\ c \in BootCallType /\ BootCallOK(t) /\ bopt' = bopt
        /\ boot' = [boot EXCEPT !.lock = l, !.failed = TRUE]
        /\ c.pc \in {"tsd", "recursible", "narenas", "finish"}
        /\ bcall \in [BootThreads -> BootCallType] /\ bcall' = [bcall EXCEPT ![t] = r]
    BY BootTypes DEF BootInv, LateFailure, BootTypeOK, BootGlobals, BootCallType
  <1>2. /\ r \in BootCallType /\ r.pc = "failed" /\ r.reentrancy = 0 /\ r.nested = c.nested
    BY <1>1 DEF BootCallType, BootResting
  <1>3. /\ l \in BootThreads \cup {NoThread} /\ l # t
        /\ \A u \in BootThreads : u # t => (l = u <=> boot.lock = u)
    BY BootTypes
  <1>4. bcall'[t] = r /\ boot'.lock = l
    BY <1>1 DEF BootInv, BootTypeOK, BootGlobals
  <1> HIDE DEF r, l
  <1>5. BootCallOK(t)'
    BY <1>1, <1>2, <1>3, <1>4 DEF BootCallOK, Inside
  <1>6. TRUE \in BOOLEAN /\ (boot.failed => TRUE) /\ (Inside(t) => TRUE \/ Inside(t)')
    OBVIOUS
  <1> QED BY <1>1, <1>2, <1>3, <1>5, <1>6, KeepInv, Zenon

LEMMA BackgroundInv ==
    ASSUME BootInv, NEW t \in BootThreads, BootBackground(t)
    PROVE  BootInv'
  <1> DEFINE c == bcall[t]
  <1>1. PICK p \in {"ready", "failed"} : bcall' = [bcall EXCEPT ![t].pc = p]
    BY DEF BootBackground, Goes
  <1> DEFINE r == [c EXCEPT !.pc = p]
  <1>2. /\ c \in BootCallType /\ BootCallOK(t) /\ bopt' = bopt /\ boot' = boot
        /\ c.pc = "background" /\ bcall \in [BootThreads -> BootCallType]
        /\ bcall' = [bcall EXCEPT ![t] = r]
    BY <1>1, BootTypes DEF BootInv, BootBackground, BootTypeOK, BootGlobals, BootCallType
  <1>3. /\ r \in BootCallType /\ r.pc = p /\ r.reentrancy = c.reentrancy
        /\ r.nested = c.nested
    BY <1>2 DEF BootCallType, BootResting
  <1>4. bcall'[t] = r
    BY <1>2
  <1> HIDE DEF r
  <1>5. BootCallOK(t)' /\ (Inside(t) => Inside(t)')
    BY <1>2, <1>3, <1>4 DEF BootCallOK, Inside, malloc_initialized
  <1> QED BY <1>2, <1>3, <1>5, BootTypes, KeepInv

-----------------------------------------------------------------------------
\* Nobody is past the busy wait while the state is uninitialized, and at most the
\* initializer later.
LEMMA Alone ==
    ASSUME BootInv, NEW u \in BootThreads, Inside(u) \/ bcall[u].pc = "tsd"
    PROVE  boot.initializer = u /\ boot.state \in {"a0_initialized", "recursible"}
  BY DEF BootInv, BootCallOK

LEMMA GlobalsUpdate ==
    ASSUME NEW b \in BootGlobals, NEW rn \in [BootPhases -> Nat],
           NEW i \in BootThreads \cup {NoThread}, NEW l \in BootThreads \cup {NoThread},
           NEW s \in {"uninitialized", "a0_initialized", "recursible", "initialized"},
           NEW n \in Nat, NEW m \in Nat, NEW x \in BOOLEAN
    PROVE  /\ [b EXCEPT !.ran = rn, !.initializer = i, !.lock = l, !.state = s,
                        !.narenas = n, !.manual = m] \in BootGlobals
           /\ [b EXCEPT !.initializer = i, !.lock = l] \in BootGlobals
           /\ [b EXCEPT !.ran = rn, !.state = s] \in BootGlobals
           /\ [b EXCEPT !.ran = rn, !.state = s, !.lock = l, !.percpu = x] \in BootGlobals
  <1>1. [b EXCEPT !.ran = rn, !.initializer = i, !.lock = l, !.state = s,
                  !.narenas = n, !.manual = m] \in BootGlobals
    BY DEF BootGlobals
  <1>2. [b EXCEPT !.initializer = i, !.lock = l] \in BootGlobals
    BY DEF BootGlobals
  <1>3. [b EXCEPT !.ran = rn, !.state = s] \in BootGlobals
    BY DEF BootGlobals
  <1>4. [b EXCEPT !.ran = rn, !.state = s, !.lock = l, !.percpu = x] \in BootGlobals
    BY DEF BootGlobals
  <1> QED BY <1>1, <1>2, <1>3, <1>4

\* Arena 0 is set up by t, within a call or in the C library's bootstrap.
LEMMA A0LockedInv ==
    ASSUME BootInv, NEW t \in BootThreads, NEW r \in BootCallType,
           bcall' = [bcall EXCEPT ![t] = r], bopt' = bopt,
           boot.state = "uninitialized", boot.lock \in {t, NoThread},
           boot' = malloc_init_hard_a0_locked(t),
           r.nested = FALSE, r.pc \in {"idle", "failed", "tsd"}, r.reentrancy = 0
    PROVE  BootInv'
  <1> DEFINE rn == [boot.ran EXCEPT !["a0"] = boot.ran["a0"] + 1]
  <1>1. BootTypeOK /\ BootRanOK /\ \A u \in BootThreads : BootCallOK(u)
    BY DEF BootInv
  <1>2. boot' = [boot EXCEPT !.ran = rn,
                   !.initializer = t, !.lock = NoThread, !.state = "a0_initialized",
                   !.narenas = 1, !.manual = 2]
    BY <1>1 DEF malloc_init_hard_a0_locked, Runs, BootTypeOK, BootGlobals
  <1>11. boot.ran \in [BootPhases -> Nat] /\ boot \in BootGlobals
    BY <1>1 DEF BootTypeOK, BootGlobals
  <1>12. /\ rn \in [BootPhases -> Nat] /\ rn["a0"] = boot.ran["a0"] + 1
         /\ \A q \in {"recursible", "narenas", "finish"} : rn[q] = boot.ran[q]
    BY <1>11 DEF BootPhases
  <1> HIDE DEF rn
  <1>3. /\ boot'.lock = NoThread /\ boot'.failed = boot.failed
        /\ boot'.state = "a0_initialized" /\ boot'.initializer = t
        /\ boot'.percpu = boot.percpu /\ boot'.ran = rn
    BY <1>2, <1>11 DEF BootGlobals
  <1>4. bcall'[t] = r /\ \A u \in BootThreads : u # t => bcall'[u] = bcall[u]
    BY <1>1 DEF BootTypeOK, BootGlobals
  <1>5. BootTypeOK'
    <2>1. /\ t \in BootThreads \cup {NoThread} /\ NoThread \in BootThreads \cup {NoThread}
          /\ 1 \in Nat /\ 2 \in Nat /\ TRUE \in BOOLEAN /\ "a0_initialized" \in
               {"uninitialized", "a0_initialized", "recursible", "initialized"}
      OBVIOUS
    <2>2. boot' \in BootGlobals
      BY ONLY <1>2, <1>11, <1>12, <2>1, GlobalsUpdate, Zenon
    <2> QED BY <1>1, <2>2 DEF BootTypeOK
  <1>6. BootRanOK'
    BY <1>1, <1>3, <1>12 DEF BootRanOK, malloc_initialized
  <1>7. ASSUME NEW u \in BootThreads, u # t PROVE BootCallOK(u)'
    <2>1. BootCallOK(u) /\ bcall'[u] = bcall[u] /\ u # NoThread /\ boot.lock # u
      BY <1>1, <1>4, <1>7, BootTypes
    <2>2. ~Inside(u) /\ bcall[u].pc # "tsd"
      BY Alone
    <2>3. bcall[u].pc # "ready" /\ bcall[u].pc # "background"
      BY <2>1 DEF BootCallOK, malloc_initialized, Recursive
    <2> QED BY <1>3, <2>1, <2>2, <2>3 DEF BootCallOK, Inside
  <1>8. BootCallOK(t)' /\ ~Inside(t)'
    <2>1. t # NoThread
      BY BootTypes
    <2> QED BY <1>3, <1>4, <2>1 DEF BootCallOK, Inside
  <1>9. PercpuMode' = PercpuMode
    BY DEF PercpuMode
  <1>10. /\ (boot.ran["narenas"] = 1 => ArenasOK)'
         /\ (boot.percpu => PercpuMode # "disabled")'
         /\ malloc_initializer_is_set'
    <2>1. boot'.ran["narenas"] = 0 /\ t # NoThread
      BY <1>1, <1>3, <1>12, BootTypes DEF BootRanOK
    <2>2. (boot.percpu => PercpuMode # "disabled")'
      BY <1>3, <1>9 DEF BootInv
    <2> QED BY <1>3, <2>1, <2>2 DEF malloc_initializer_is_set
  <1> QED BY <1>3, <1>5, <1>6, <1>7, <1>8, <1>10 DEF BootInv

LEMMA A0Inv ==
    ASSUME BootInv, NEW t \in BootThreads, A0(t) \/ malloc_init_hard_a0(t)
    PROVE  BootInv'
  <1> DEFINE c == bcall[t]
  <1>1. /\ c \in BootCallType /\ BootCallOK(t) /\ bopt' = bopt /\ BootTypeOK
        /\ bcall \in [BootThreads -> BootCallType]
    BY BootTypes DEF BootInv, A0, malloc_init_hard_a0, BootTypeOK, BootGlobals, BootCallType
  <1>2. CASE malloc_init_hard_a0(t)
    <2> DEFINE r == [c EXCEPT !.a0 = c.a0 - 1]
    <2>1. /\ bcall' = [bcall EXCEPT ![t] = r] /\ boot.state = "uninitialized"
          /\ boot.lock = NoThread /\ boot' = malloc_init_hard_a0_locked(t)
          /\ c.pc \in BootResting /\ c.a0 > 0
      BY <1>1, <1>2 DEF malloc_init_hard_a0
    <2>2. c.a0 - 1 \in Nat
      BY <1>1, <2>1 DEF BootCallType
    <2>3. r \in BootCallType /\ r.pc = c.pc /\ r.nested = c.nested
          /\ r.reentrancy = c.reentrancy
      BY <1>1, <2>2 DEF BootCallType
    <2>4. c.pc \in {"idle", "failed"} /\ c.nested = FALSE /\ c.reentrancy = 0
      BY <1>1, <2>1 DEF BootCallOK, BootResting, Recursive, malloc_initialized, BootCallType
    <2> HIDE DEF r
    <2> QED BY <1>1, <2>1, <2>3, <2>4, A0LockedInv
  <1>3. CASE A0(t)
    <2> DEFINE r == [c EXCEPT !.pc = "tsd"]
    <2>1. /\ bcall' = [bcall EXCEPT ![t] = r] /\ c.pc = "needed" /\ Needed(t)
          /\ boot.lock = t
      BY <1>1, <1>3 DEF A0, Goes, BootCallOK
    <2>2. r \in BootCallType /\ r.pc = "tsd" /\ r.nested = c.nested
          /\ r.reentrancy = c.reentrancy
      BY <1>1 DEF BootCallType
    <2>3. c.nested = FALSE /\ c.reentrancy = 0 /\ ~Inside(t)
      BY <1>1, <2>1
         DEF BootCallOK, Inside, Needed, Recursive, malloc_is_initializer, BootCallType
    <2>4. bcall'[t] = r
      BY <1>1, <2>1
    <2> HIDE DEF r
    <2>5. CASE boot.state = "a0_initialized"
      <3>1. boot' = [boot EXCEPT !.lock = NoThread]
        BY <1>3, <2>5 DEF A0
      <3>2. boot.initializer = t
        BY <2>1, <2>5 DEF BootInv, Needed, malloc_is_initializer
      <3>3. /\ boot'.lock = NoThread /\ boot'.initializer = boot.initializer
            /\ boot'.state = boot.state
        BY <1>1, <3>1 DEF BootTypeOK, BootGlobals
      <3>4. BootCallOK(t)'
        BY <2>2, <2>3, <2>4, <2>5, <3>2, <3>3, BootTypes DEF BootCallOK, Inside
      <3>5. /\ boot' = [boot EXCEPT !.lock = NoThread, !.failed = boot.failed]
            /\ \A u \in BootThreads : u # t => (NoThread = u <=> boot.lock = u)
        BY <2>1, <3>1, BootTypes
      <3>6. /\ NoThread \in BootThreads \cup {NoThread} /\ boot.failed \in BOOLEAN
            /\ (Inside(t) => boot.failed \/ Inside(t)') /\ (boot.failed => boot.failed)
        BY <2>3, BootTypes
      <3>7. bopt' = bopt /\ bcall' = [bcall EXCEPT ![t] = r] /\ r \in BootCallType
        BY <1>1, <2>1, <2>2
      <3> QED BY ONLY BootInv, t \in BootThreads, <3>4, <3>5, <3>6, <3>7, KeepInv, Zenon
    <2>6. CASE boot.state # "a0_initialized"
      <3>1. boot' = malloc_init_hard_a0_locked(t)
        BY <1>3, <2>6 DEF A0
      <3>2. boot.state = "uninitialized"
        BY <1>1, <2>1, <2>6 DEF BootInv, Needed, Recursive, malloc_is_initializer,
           malloc_initialized, BootTypeOK, BootGlobals
      <3> QED BY <1>1, <2>1, <2>2, <2>3, <3>1, <3>2, A0LockedInv
    <2> QED BY <2>5, <2>6
  <1> QED BY <1>2, <1>3

\* A boot function of arena 0 fails.
LEMMA A0FailsInv ==
    ASSUME BootInv, NEW t \in BootThreads, A0Fails(t)
    PROVE  BootInv'
  <1> DEFINE c == bcall[t]
             r == [c EXCEPT !.pc = "failed", !.nested = FALSE]
  <1>1. /\ BootTypeOK /\ BootRanOK /\ c \in BootCallType
        /\ \A u \in BootThreads : BootCallOK(u)
        /\ c.pc = "needed" /\ Needed(t) /\ boot.state # "a0_initialized"
    BY BootTypes DEF BootInv, A0Fails
  <1>2. boot.state = "uninitialized" /\ boot.lock = t
    BY <1>1 DEF BootInv, Needed, Recursive, malloc_is_initializer,
       malloc_initialized, BootTypeOK, BootGlobals, BootCallOK
  <1>3. ~c.nested /\ c.reentrancy = 0
    BY <1>1, <1>2 DEF BootCallOK, Inside
  <1>4. /\ boot' = [boot EXCEPT !.initializer = t, !.lock = NoThread]
        /\ bopt' = [bopt EXCEPT !.fails = bopt.fails \ {"a0"}]
        /\ bcall' = [bcall EXCEPT ![t] = r]
    BY <1>1, <1>3 DEF A0Fails, Done, BootTypeOK
  <1>5. r \in BootCallType /\ r.pc = "failed" /\ r.nested = FALSE /\ r.reentrancy = 0
    BY <1>1, <1>3 DEF BootCallType, BootResting
  <1> HIDE DEF r
  <1>6. BootTypeOK'
    <2>1. /\ t \in BootThreads \cup {NoThread} /\ NoThread \in BootThreads \cup {NoThread}
          /\ boot \in BootGlobals
      BY <1>1 DEF BootTypeOK
    <2>2. boot' \in BootGlobals
      BY <1>4, <2>1 DEF BootGlobals
    <2>3. bopt' \in BootOptionType
      BY <1>1, <1>4 DEF BootTypeOK, BootOptionType
    <2> QED BY <1>1, <1>4, <1>5, <2>2, <2>3 DEF BootTypeOK
  <1>7. bcall'[t] = r /\ \A u \in BootThreads : u # t => bcall'[u] = bcall[u]
    BY <1>1, <1>4 DEF BootTypeOK
  <1>8. /\ boot'.lock = NoThread /\ boot'.state = boot.state /\ boot'.initializer = t
        /\ boot'.ran = boot.ran /\ boot'.percpu = boot.percpu
    BY <1>1, <1>4 DEF BootTypeOK, BootGlobals
  <1>9. BootRanOK' /\ boot'.ran["narenas"] = 0
    BY <1>1, <1>2, <1>8 DEF BootRanOK, malloc_initialized
  <1>10. ASSUME NEW u \in BootThreads PROVE BootCallOK(u)'
    <2>1. CASE u = t
      BY <1>5, <1>7, <1>8, <2>1, BootTypes DEF BootCallOK, Inside
    <2>2. CASE u # t
      <3>1. BootCallOK(u) /\ bcall'[u] = bcall[u] /\ u # NoThread /\ boot.lock # u
        BY <1>1, <1>2, <1>7, <2>2, BootTypes
      <3>2. ~Inside(u) /\ bcall[u].pc # "tsd"
        BY <1>2, Alone
      <3>3. bcall[u].pc # "ready" /\ bcall[u].pc # "background"
        BY <1>2, <3>1 DEF BootCallOK, malloc_initialized, Recursive
      <3> QED BY <1>8, <3>1, <3>2, <3>3 DEF BootCallOK, Inside
    <2> QED BY <2>1, <2>2
  <1>11. PercpuMode' = PercpuMode
    BY <1>1, <1>4 DEF PercpuMode, BootTypeOK, BootOptionType
  <1>12. (boot.percpu => PercpuMode # "disabled")'
    BY <1>8, <1>11 DEF BootInv
  <1> QED BY <1>2, <1>6, <1>8, <1>9, <1>10, <1>12 DEF BootInv

\* The initializer goes on to a further phase: the globals change, the other threads
\* are not past the busy wait.
LEMMA PhaseInv ==
    ASSUME BootInv, NEW t \in BootThreads, NEW r \in BootCallType,
           bcall' = [bcall EXCEPT ![t] = r], bopt' = bopt, boot' \in BootGlobals,
           bcall[t].pc = "tsd" \/ Inside(t), boot'.initializer = boot.initializer,
           boot'.state \in {"recursible", "initialized"}, boot'.failed = boot.failed,
           \A u \in BootThreads : u # t => (boot'.lock = u <=> boot.lock = u),
           BootRanOK', BootCallOK(t)', boot'.state = "recursible" => Inside(t)',
           (boot.ran["narenas"] = 1 => ArenasOK)', (boot.percpu => PercpuMode # "disabled")'
    PROVE  BootInv'
  <1>1. BootTypeOK /\ boot.initializer = t /\ \A u \in BootThreads : BootCallOK(u)
    BY Alone DEF BootInv
  <1>2. bcall'[t] = r /\ \A u \in BootThreads : u # t => bcall'[u] = bcall[u]
    BY <1>1 DEF BootTypeOK
  <1>3. BootTypeOK'
    BY <1>1 DEF BootTypeOK
  <1>4. ASSUME NEW u \in BootThreads, u # t PROVE BootCallOK(u)'
    <2>1. BootCallOK(u) /\ bcall'[u] = bcall[u]
      BY <1>1, <1>2, <1>4
    <2>2. ~Inside(u) /\ bcall[u].pc # "tsd"
      BY <1>1, <1>4, Alone
    <2>3. boot.state \in {"a0_initialized", "recursible"}
      BY Alone
    <2>4. bcall[u].pc # "ready" /\ bcall[u].pc # "background"
      BY <1>1, <1>4, <2>1, <2>3
         DEF BootCallOK, malloc_initialized, Recursive, malloc_is_initializer
    <2> QED BY <1>4, <2>1, <2>2, <2>4 DEF BootCallOK, Inside
  <1>5. malloc_initializer_is_set'
    BY <1>1, BootTypes DEF malloc_initializer_is_set
  <1> QED BY <1>3, <1>4, <1>5 DEF BootInv

LEMMA TsdBoot0Inv ==
    ASSUME BootInv, NEW t \in BootThreads, TsdBoot0(t)
    PROVE  BootInv'
  <1> DEFINE c == bcall[t]
             r == [c EXCEPT !.pc = "recursible"]
             rn == [boot.ran EXCEPT !["recursible"] = boot.ran["recursible"] + 1]
  <1>1. /\ BootTypeOK /\ BootRanOK /\ c \in BootCallType /\ BootCallOK(t) /\ c.pc = "tsd"
        /\ boot \in BootGlobals /\ bopt' = bopt
    BY BootTypes DEF BootInv, TsdBoot0, BootTypeOK
  <1>2. /\ boot.state = "a0_initialized" /\ boot.initializer = t /\ ~c.nested
        /\ c.reentrancy = 0 /\ boot.lock # t
    BY <1>1 DEF BootCallOK
  <1>3. boot.ran \in [BootPhases -> Nat]
    BY <1>1 DEF BootGlobals
  <1>4. /\ rn \in [BootPhases -> Nat] /\ rn["recursible"] = boot.ran["recursible"] + 1
        /\ \A q \in {"a0", "narenas", "finish"} : rn[q] = boot.ran[q]
    BY <1>3 DEF BootPhases
  <1>5. /\ boot' = [boot EXCEPT !.ran = rn, !.state = "recursible"]
        /\ bcall' = [bcall EXCEPT ![t] = r]
    BY <1>1 DEF TsdBoot0, Runs, Goes, BootGlobals
  <1>6. /\ r \in BootCallType /\ r.pc = "recursible" /\ ~r.nested /\ r.reentrancy = 0
    BY <1>1, <1>2 DEF BootCallType
  <1> HIDE DEF r, rn
  <1>7. bcall'[t] = r
    BY <1>1, <1>5 DEF BootTypeOK
  <1>8. /\ boot'.lock = boot.lock /\ boot'.state = "recursible"
        /\ boot'.initializer = boot.initializer /\ boot'.ran = rn
        /\ boot'.percpu = boot.percpu /\ boot'.failed = boot.failed
    BY <1>1, <1>5 DEF BootGlobals
  <1>9. boot' \in BootGlobals
    BY <1>1, <1>4, <1>5 DEF BootGlobals
  <1>10. BootRanOK' /\ boot'.ran["narenas"] = 0
    BY <1>1, <1>2, <1>4, <1>8 DEF BootRanOK, malloc_initialized
  <1>11. BootCallOK(t)' /\ Inside(t)'
    BY <1>2, <1>6, <1>7, <1>8, <1>10 DEF BootCallOK, Inside
  <1>12. (boot.percpu => PercpuMode # "disabled")'
    BY <1>1, <1>8 DEF BootInv, PercpuMode
  <1>13. (boot.ran["narenas"] = 1 => ArenasOK)'
    BY <1>10
  <1> QED BY <1>1, <1>5, <1>6, <1>8, <1>9, <1>10, <1>11, <1>12, <1>13, PhaseInv

LEMMA NarenasStepInv ==
    ASSUME BootInv, NEW t \in BootThreads, NarenasStep(t)
    PROVE  BootInv'
  <1> DEFINE c == bcall[t]
             r == [c EXCEPT !.pc = "finish", !.reentrancy = c.reentrancy + 1]
  <1>1. /\ BootTypeOK /\ BootRanOK /\ c \in BootCallType /\ BootCallOK(t)
        /\ c.pc = "narenas" /\ ~TooManyCpus /\ boot' = malloc_init_narenas /\ bopt' = bopt
        /\ bcall' = [bcall EXCEPT ![t] = r]
    BY BootTypes DEF BootInv, NarenasStep, BootTypeOK, BootCallType
  <1>2. /\ boot.state = "recursible" /\ boot.initializer = t /\ ~c.nested
        /\ c.reentrancy = 0 /\ boot.lock = t /\ boot.ran["narenas"] = 0 /\ Inside(t)
    BY <1>1 DEF BootCallOK, Inside
  <1>3. r \in BootCallType /\ r.pc = "finish" /\ ~r.nested /\ r.reentrancy = 1
    <2>1. c.reentrancy + 1 = 1 /\ 1 \in Nat
      BY <1>2
    <2> HIDE DEF c
    <2> QED BY ONLY <1>1, <1>2, <2>1 DEF BootCallType
  <1> HIDE DEF r
  <1>4. bcall'[t] = r
    BY <1>1 DEF BootTypeOK
  <1>5. /\ ArenasOK' /\ boot' \in BootGlobals
        /\ \A p \in {"a0", "recursible", "finish"} : boot'.ran[p] = boot.ran[p]
        /\ boot'.ran["narenas"] = boot.ran["narenas"] + 1
        /\ boot'.lock = boot.lock /\ boot'.state = boot.state
        /\ boot'.initializer = boot.initializer /\ boot'.percpu = boot.percpu
        /\ boot'.failed = boot.failed
    BY <1>1, NarenasIs
  <1>6. BootRanOK' /\ boot'.ran["narenas"] = 1
    BY <1>1, <1>2, <1>5 DEF BootRanOK, malloc_initialized
  <1>7. BootCallOK(t)' /\ Inside(t)'
    BY <1>2, <1>3, <1>4, <1>5, <1>6 DEF BootCallOK, Inside
  <1>8. (boot.percpu => PercpuMode # "disabled")'
    BY <1>1, <1>5 DEF BootInv, PercpuMode
  <1> QED BY <1>1, <1>2, <1>3, <1>5, <1>6, <1>7, <1>8, PhaseInv

LEMMA FinishInv ==
    ASSUME BootInv, NEW t \in BootThreads, malloc_init_hard_finish(t)
    PROVE  BootInv'
  <1> DEFINE c == bcall[t]
             p == IF bopt.bg THEN "background" ELSE "ready"
             r == [c EXCEPT !.pc = p, !.reentrancy = c.reentrancy - 1]
             on == PercpuMode # "disabled"
             rn == [boot.ran EXCEPT !["finish"] = boot.ran["finish"] + 1]
  <1>1. /\ BootTypeOK /\ BootRanOK /\ c \in BootCallType /\ BootCallOK(t)
        /\ c.pc = "finish" /\ bopt' = bopt /\ boot \in BootGlobals
        /\ bcall' = [bcall EXCEPT ![t] = r]
    BY BootTypes DEF BootInv, malloc_init_hard_finish, BootTypeOK, BootCallType
  <1>2. /\ boot.state = "recursible" /\ boot.initializer = t /\ ~c.nested
        /\ c.reentrancy = 1 /\ boot.lock = t /\ boot.ran["narenas"] = 1 /\ Inside(t)
    BY <1>1 DEF BootCallOK, Inside
  <1>3. boot.ran \in [BootPhases -> Nat]
    BY <1>1 DEF BootGlobals
  <1>4. /\ rn \in [BootPhases -> Nat] /\ rn["finish"] = boot.ran["finish"] + 1
        /\ \A q \in {"a0", "recursible", "narenas"} : rn[q] = boot.ran[q]
    BY <1>3 DEF BootPhases
  <1>5. boot' = [boot EXCEPT !.ran = rn, !.state = "initialized", !.lock = NoThread,
                             !.percpu = on]
    BY <1>1 DEF malloc_init_hard_finish, Runs, BootGlobals
  <1>6. /\ r \in BootCallType /\ r.pc = p /\ ~r.nested /\ r.reentrancy = 0
    <2>1. c.reentrancy - 1 = 0 /\ 0 \in Nat
      BY <1>2
    <2>2. p \in BootResting \cup {"background"}
      BY DEF BootResting
    <2> HIDE DEF p, c
    <2> QED BY ONLY <1>1, <1>2, <2>1, <2>2 DEF BootCallType
  <1>7. p \in {"background", "ready"}
    OBVIOUS
  <1> HIDE DEF r, rn, p
  <1>8. bcall'[t] = r
    BY <1>1 DEF BootTypeOK
  <1>9. /\ boot'.lock = NoThread /\ boot'.state = "initialized"
        /\ boot'.initializer = boot.initializer /\ boot'.ran = rn
        /\ boot'.percpu = on /\ boot'.failed = boot.failed
        /\ boot'.narenas = boot.narenas /\ boot'.manual = boot.manual
        /\ boot'.total = boot.total /\ boot'.ngroups = boot.ngroups /\ boot'.map = boot.map
    BY <1>1, <1>5 DEF BootGlobals
  <1>10. boot' \in BootGlobals
    <2>1. on \in BOOLEAN /\ NoThread \in BootThreads \cup {NoThread}
      OBVIOUS
    <2> QED BY <1>1, <1>4, <1>5, <2>1 DEF BootGlobals
  <1>11. BootRanOK' /\ boot'.ran["narenas"] = 1
    BY <1>1, <1>2, <1>4, <1>9 DEF BootRanOK, malloc_initialized
  <1>12. t # NoThread
    BY BootTypes
  <1>13. BootCallOK(t)'
    BY <1>6, <1>7, <1>8, <1>9, <1>12 DEF BootCallOK, Inside, malloc_initialized
  <1>14. PercpuMode' = PercpuMode
    BY <1>1 DEF PercpuMode
  <1>15. ArenasOK' /\ (boot.percpu => PercpuMode # "disabled")'
    BY <1>2, <1>9, <1>14 DEF BootInv, ArenasOK
  <1>16. \A u \in BootThreads : u # t => (boot'.lock = u <=> boot.lock = u)
    BY <1>2, <1>9, BootTypes
  <1> QED BY <1>1, <1>2, <1>6, <1>9, <1>10, <1>11, <1>13, <1>15, <1>16, PhaseInv
-----------------------------------------------------------------------------
LEMMA BootInitInv == BootInit => BootInv
  <1> SUFFICES ASSUME BootInit PROVE BootInv
    OBVIOUS
  <1>1. /\ bopt \in BootOptionType
        /\ \A t \in BootThreads :
             bcall[t] = [pc |-> "idle", nested |-> FALSE, reentrancy |-> 0,
                         calls |-> bopt.calls[t], a0 |-> bopt.a0[t]]
    BY BootAssumption DEF BootInit
  <1>2. /\ boot.lock = NoThread /\ boot.state = "uninitialized"
        /\ boot.initializer = NoThread /\ boot.percpu = FALSE /\ boot.ran = Count
    BY DEF BootInit
  <1>3. \A p \in BootPhases : Count[p] = 0
    BY DEF Count
  <1>4. boot \in BootGlobals
    <2>1. Count \in [BootPhases -> Nat]
      BY DEF Count
    <2> QED BY <2>1 DEF BootInit, BootGlobals
  <1>5. bcall \in [BootThreads -> BootCallType]
    BY <1>1 DEF BootInit, BootCallType, BootResting, BootOptionType
  <1>6. BootRanOK
    BY <1>2, <1>3 DEF BootRanOK, malloc_initialized, BootPhases
  <1>7. ASSUME NEW t \in BootThreads PROVE BootCallOK(t)
    <2>1. bcall[t].pc = "idle" /\ bcall[t].nested = FALSE /\ bcall[t].reentrancy = 0
      <3>1. bcall[t] = [pc |-> "idle", nested |-> FALSE, reentrancy |-> 0,
                        calls |-> bopt.calls[t], a0 |-> bopt.a0[t]]
        BY <1>1
      <3> QED BY ONLY <3>1
    <2> QED BY <1>2, <2>1, BootAssumption DEF BootCallOK, Inside
  <1>8. boot.ran["narenas"] = 0
    BY <1>2, <1>3 DEF BootPhases
  <1> QED BY <1>1, <1>2, <1>4, <1>5, <1>6, <1>7, <1>8 DEF BootInv, BootTypeOK

LEMMA BootNextInv == BootInv /\ [BootNext]_bootvars => BootInv'
  <1> SUFFICES ASSUME BootInv, [BootNext]_bootvars PROVE BootInv'
    OBVIOUS
  <1>1. ASSUME NEW t \in BootThreads,
               malloc_init(t) \/ malloc_init_hard_a0(t) \/ NestedCall(t) \/ BootStep(t)
        PROVE  BootInv'
    BY <1>1, CallInv, LockInv, NeededInv, FailInv, BackgroundInv, A0Inv, A0FailsInv,
       TsdBoot0Inv, NarenasStepInv, FinishInv DEF BootStep
  <1>2. CASE UNCHANGED bootvars
    <2>1. bopt' = bopt /\ boot' = boot /\ bcall' = bcall
      BY <1>2 DEF bootvars
    <2> QED BY <2>1 DEF BootInv, BootTypeOK, BootRanOK, BootCallOK, ArenasOK, Inside,
               malloc_initialized, Recursive, malloc_is_initializer,
               malloc_initializer_is_set, PercpuMode
  <1> QED BY <1>1, <1>2 DEF BootNext

LEMMA BootInvSound == BootInv => BootSound
  <1> SUFFICES ASSUME BootInv PROVE BootSound
    OBVIOUS
  <1>1. BootOnce
    <2>1. malloc_initialized => \A p \in DOMAIN boot.ran : boot.ran[p] = 1
      BY DEF BootInv, BootTypeOK, BootGlobals, BootPhases, BootRanOK, malloc_initialized
    <2>2. ASSUME NEW t \in BootThreads
          PROVE  /\ bcall[t].pc = "ready" => malloc_initialized \/ (boot.failed /\ Recursive(t))
                 /\ bcall[t].pc \in {"tsd", "recursible", "narenas", "finish"}
                       => malloc_is_initializer(t) /\ ~malloc_initialized
                 /\ bcall[t].nested => Recursive(t)
                 /\ bcall[t].pc \in BootResting => bcall[t].reentrancy = 0
                 /\ boot.lock = t <=> bcall[t].pc \in {"needed", "narenas", "finish"}
      <3>1. BootCallOK(t)
        BY DEF BootInv
      <3> QED BY <3>1 DEF BootCallOK, Inside, malloc_is_initializer, malloc_initialized,
                 Recursive, BootResting
    <2> QED BY <2>1, <2>2 DEF BootOnce
  <1>2. PercpuInRange
    <2> SUFFICES ASSUME malloc_initialized PROVE
          /\ boot.narenas \in 1 .. ARENA_LIMIT - 1
          /\ boot.narenas <= boot.manual /\ boot.manual = boot.total
          /\ boot.percpu =>
               /\ boot.ngroups \in 1 .. boot.narenas
               /\ \A c \in 0 .. 2 * PERCPU_ARENA_MAX_CPUS :
                    percpu_arena_choose(c) < boot.ngroups
      BY DEF PercpuInRange
    <2>1. ArenasOK /\ (boot.percpu => PercpuMode # "disabled")
      BY DEF BootInv, BootRanOK
    <2>2. ASSUME boot.percpu, NEW c \in 0 .. 2 * PERCPU_ARENA_MAX_CPUS
          PROVE  percpu_arena_choose(c) < boot.ngroups
      <3> DEFINE k == boot.ngroups
      <3>1. /\ k \in 1 .. boot.narenas /\ boot.narenas \in Nat
            /\ boot.map \in [0 .. PERCPU_ARENA_MAX_CPUS - 1 -> 0 .. k - 1]
        BY <2>1, <2>2, BootAssumption DEF ArenasOK
      <3>2. c \in Nat /\ k \in Nat \ {0} /\ PERCPU_ARENA_MAX_CPUS \in Nat
        BY <3>1, BootAssumption
      <3> HIDE DEF k
      <3>3. c % k \in 0 .. k - 1
        BY <3>2
      <3>4. CASE c >= PERCPU_ARENA_MAX_CPUS
        BY <3>2, <3>3, <3>4 DEF percpu_arena_choose, k
      <3>5. CASE c < PERCPU_ARENA_MAX_CPUS
        <4>1. boot.map[c] \in 0 .. k - 1
          BY <3>1, <3>2, <3>5
        <4> QED BY <3>2, <3>5, <4>1 DEF percpu_arena_choose, k
      <3> QED BY <3>2, <3>4, <3>5
    <2> QED BY <2>1, <2>2 DEF ArenasOK
  <1> QED BY <1>1, <1>2 DEF BootSound

(* Whatever threads race to initialise, and whatever fails on the way: a call goes on
   to allocate only when every phase of malloc_init_hard ran exactly once, except the
   initializer's own after a failure past arena 0, and every CPU has an arena. *)
THEOREM BootSoundAlways == BootSpec => []BootSound
  <1>1. BootInit => BootInv
    BY BootInitInv
  <1>2. BootInv /\ [BootNext]_bootvars => BootInv'
    BY BootNextInv
  <1>3. BootInv => BootSound
    BY BootInvSound
  <1> QED BY <1>1, <1>2, <1>3, PTL DEF BootSpec
=============================================================================
