------------------------------- MODULE Boot -------------------------------
(*
Initialisation of the allocator (jemalloc_init.c) and the CPU-to-arena map
(percpu_arena.c), with JEMALLOC_THREADED_INIT: the first allocations of several
threads race to initialise, one of them becomes malloc_initializer, allocates
recursively half way, with init_lock dropped, and the others spin on the lock.

A call is the part of an allocation before its work: malloc_init().  A nested
call is an allocation made by the initializer itself inside
malloc_init_hard_recursible.  "ready" is a call that went on to allocate, "failed"
one that returned out of memory.
Operators named X_<bug> are X with a bug that the properties must detect.
*)
EXTENDS Naturals, FiniteSets, Sequences

CONSTANTS
    BootThreads,
    BootOptions,    \* set of [calls, a0 : thread -> Nat, fails, ncpus, cpus,
                    \*         deterministic, getcpu, mode, narenas, ratio, huge, bg]
    ARENA_LIMIT,    \* MALLOCX_ARENA_LIMIT
    FXP_UNIT,       \* 1.0 as an fxp_t
    PERCPU_ARENA_MAX_CPUS

NoThread == "nobody"

BootOptionType ==
    [calls : [BootThreads -> Nat], a0 : [BootThreads -> Nat],
     fails : SUBSET {"a0", "late", "locked", "background"}, ncpus : Nat \ {0},
     cpus : Seq(Nat), deterministic : BOOLEAN, getcpu : BOOLEAN,
     mode : {"disabled", "percpu", "phycpu"}, narenas : Nat, ratio : Nat,
     huge : BOOLEAN, bg : BOOLEAN]

ASSUME BootAssumption ==
    /\ NoThread \notin BootThreads
    /\ ARENA_LIMIT \in Nat \ {0, 1} /\ FXP_UNIT \in Nat \ {0}
    /\ PERCPU_ARENA_MAX_CPUS \in Nat
    /\ \A o \in BootOptions : o \in BootOptionType

VARIABLES
    bopt,   \* the options and the machine
    boot,   \* [lock, state, initializer, narenas, total, manual, map, ngroups,
            \*  percpu, ran, failed]: the globals; ran counts the runs of each
            \*  phase, failed tells whether one past a0 failed
    bcall   \* thread -> [pc, nested, reentrancy, calls, a0]

bootvars == << bopt, boot, bcall >>


BootResting == {"idle", "ready", "failed"}
BootPhases == {"a0", "recursible", "narenas", "finish"}
Count == [p \in BootPhases |-> 0]

BootInit ==
    /\ bopt \in BootOptions
    /\ boot = [lock |-> NoThread, state |-> "uninitialized", initializer |-> NoThread,
               narenas |-> 0, total |-> 0, manual |-> 0, map |-> << >>, ngroups |-> 0,
               percpu |-> FALSE, ran |-> Count, failed |-> FALSE]
    /\ bcall = [t \in BootThreads |->
                  [pc |-> "idle", nested |-> FALSE, reentrancy |-> 0,
                   calls |-> bopt.calls[t], a0 |-> bopt.a0[t]]]

malloc_initialized == boot.state = "initialized"
malloc_is_initializer(t) == boot.initializer = t
malloc_initializer_is_set == boot.initializer # NoThread

Goes(t, p) == bcall' = [bcall EXCEPT ![t].pc = p]
Runs(phase) == [boot EXCEPT !.ran[phase] = @ + 1]

(* Where a nested call resumes: the initializer goes on with its own phase. *)
Done(t, result) ==
    bcall' = [bcall EXCEPT ![t].pc = IF bcall[t].nested THEN "recursible" ELSE result,
                           ![t].nested = FALSE]

-----------------------------------------------------------------------------
(* The number of arenas and the map. *)

(* malloc_narenas_default: ratio arenas per CPU, rounded to nearest. *)
malloc_narenas_default ==
    LET goal == (bopt.ncpus * bopt.ratio + FXP_UNIT \div 2) \div FXP_UNIT
    IN  IF bopt.ncpus > 1 /\ goal > 0 THEN goal ELSE 1

percpu_arena_ngroups_for(mode, n) ==
    IF mode = "phycpu" /\ n > 1 THEN n \div 2 + (n % 2) ELSE n

percpu_arena_group_of(mode, pos, n) ==
    IF mode = "phycpu" /\ pos >= n \div 2 THEN pos - n \div 2 ELSE pos

(* cpu_ids is a sequence, << >> for NULL.  A CPU that is listed goes by its rank,
   any other by its number modulo the groups. *)
percpu_arena_map_build(mode, cpu_ids, n) ==
    LET id(pos) == IF cpu_ids = << >> THEN pos ELSE cpu_ids[pos + 1]
        ranks(c) == {pos \in 0 .. n - 1 : id(pos) = c}
    IN  [c \in 0 .. PERCPU_ARENA_MAX_CPUS - 1 |->
           IF ranks(c) = {} THEN c % percpu_arena_ngroups_for(mode, n)
           ELSE percpu_arena_group_of(mode, CHOOSE pos \in ranks(c) : TRUE, n)]

(* The affinity mask is trusted only if it lists every CPU counted. *)
percpu_arena_boot(mode) ==
    percpu_arena_map_build(mode,
        IF Cardinality(DOMAIN bopt.cpus) = bopt.ncpus THEN bopt.cpus ELSE << >>,
        bopt.ncpus)

(* malloc_init_hard_recursible and malloc_init_narenas give up the per-CPU arenas
   when the count of CPUs is not deterministic (and narenas is not set), or getcpu
   does not work. *)
PercpuMode ==
    IF \/ ~bopt.getcpu
       \/ ~bopt.deterministic /\ bopt.narenas = 0
    THEN "disabled" ELSE bopt.mode

Narenas ==
    LET n == percpu_arena_ngroups_for(PercpuMode, bopt.ncpus)
        opt == IF PercpuMode # "disabled" /\ bopt.narenas < n THEN n ELSE bopt.narenas
    IN  IF opt = 0 THEN malloc_narenas_default ELSE opt

Clamped(n) == IF n >= ARENA_LIMIT THEN ARENA_LIMIT - 1 ELSE n

malloc_init_narenas ==
    LET n == Clamped(Narenas)
        on == PercpuMode # "disabled"
    IN  [Runs("narenas") EXCEPT
           !.narenas = n,
           !.map = IF on THEN percpu_arena_boot(PercpuMode) ELSE << >>,
           !.ngroups = IF on THEN percpu_arena_ngroups_for(PercpuMode, bopt.ncpus) ELSE 0,
           !.total = IF bopt.huge THEN n + 1 ELSE n,
           !.manual = IF bopt.huge THEN n + 1 ELSE n]

(* percpu_arena_choose for a CPU of any number. *)
percpu_arena_choose(cpu) ==
    IF cpu >= PERCPU_ARENA_MAX_CPUS THEN cpu % boot.ngroups ELSE boot.map[cpu]

-----------------------------------------------------------------------------
(* malloc_init: an unlocked read. *)
malloc_init(t) ==
    /\ bcall[t].pc \in BootResting
    /\ bcall[t].calls > 0
    /\ bcall' = [bcall EXCEPT ![t].calls = @ - 1,
                   ![t].pc = IF malloc_initialized THEN "ready" ELSE "lock"]
    /\ UNCHANGED << bopt, boot >>

InitLock(t, at, to) ==
    /\ bcall[t].pc = at
    /\ boot.lock = NoThread
    /\ boot' = [boot EXCEPT !.lock = t]
    /\ Goes(t, to)
    /\ UNCHANGED bopt

malloc_init_hard(t) == InitLock(t, "lock", "needed")

(* malloc_init_hard_needed, under init_lock. *)
Recursive(t) == malloc_is_initializer(t) /\ boot.state = "recursible"

NotNeeded(t) ==
    /\ bcall[t].pc = "needed"
    /\ malloc_initialized \/ Recursive(t)
    /\ boot' = [boot EXCEPT !.lock = NoThread]
    /\ Done(t, "ready")
    /\ UNCHANGED bopt

(* The busy wait drops the lock and takes it again. *)
BusyWait(t) ==
    /\ bcall[t].pc = "needed"
    /\ ~malloc_initialized /\ malloc_initializer_is_set /\ ~malloc_is_initializer(t)
    /\ boot' = [boot EXCEPT !.lock = NoThread]
    /\ Goes(t, "spin")
    /\ UNCHANGED bopt

BusyLock(t) == InitLock(t, "spin", "needed")

Needed_racy(t) == ~malloc_initialized /\ ~Recursive(t)

Needed(t) ==
    /\ ~malloc_initialized /\ ~Recursive(t)
    /\ malloc_initializer_is_set => malloc_is_initializer(t)

(* malloc_init_hard_a0_locked, on success: arena 0 and the scaffolding for it. *)
malloc_init_hard_a0_locked(t) ==
    [Runs("a0") EXCEPT !.initializer = t, !.lock = NoThread,
                       !.state = "a0_initialized", !.narenas = 1, !.manual = 2]

(* Arena 0 is initialised unless an allocation of the C library's own bootstrap
   did it (malloc_init_a0). *)
A0(t) ==
    /\ bcall[t].pc = "needed" /\ Needed(t)
    /\ boot' = IF boot.state = "a0_initialized" THEN [boot EXCEPT !.lock = NoThread]
               ELSE malloc_init_hard_a0_locked(t)
    /\ Goes(t, "tsd")
    /\ UNCHANGED bopt

malloc_init_hard_a0(t) ==
    /\ bcall[t].pc \in BootResting /\ bcall[t].a0 > 0
    /\ boot.state = "uninitialized" /\ boot.lock = NoThread
    /\ boot' = malloc_init_hard_a0_locked(t)
    /\ bcall' = [bcall EXCEPT ![t].a0 = @ - 1]
    /\ UNCHANGED bopt

(* One of its boot functions fails: malloc_initializer stays set, and the same
   thread may try again. *)
A0Fails(t) ==
    /\ bcall[t].pc = "needed" /\ Needed(t)
    /\ "a0" \in bopt.fails
    /\ boot.state # "a0_initialized"
    /\ boot' = [boot EXCEPT !.initializer = t, !.lock = NoThread]
    /\ Done(t, "failed")
    /\ bopt' = [bopt EXCEPT !.fails = @ \ {"a0"}]

(* malloc_tsd_boot0, before anything may recurse. *)
TsdBoot0(t) ==
    /\ bcall[t].pc = "tsd"
    /\ boot' = [Runs("recursible") EXCEPT !.state = "recursible"]
    /\ Goes(t, "recursible")
    /\ UNCHANGED bopt

(* malloc_init_hard_recursible: the C library may allocate. *)
NestedCall(t) ==
    /\ bcall[t].pc = "recursible"
    /\ bcall[t].calls > 0
    /\ bcall' = [bcall EXCEPT ![t].pc = "lock", ![t].nested = TRUE, ![t].calls = @ - 1]
    /\ UNCHANGED << bopt, boot >>

malloc_init_hard_recursible(t) == InitLock(t, "recursible", "narenas")

(* A failure past a0: of malloc_tsd_boot0, pthread_atfork or
   background_thread_boot0 with the lock dropped, or of a boot function under it
   (malloc_init_narenas when the per-CPU arenas exceed the limit, and any of those
   called after it), which malloc_init_hard_cleanup follows.  The state stays where
   it was. *)
TooManyCpus == PercpuMode # "disabled" /\ bopt.ncpus >= ARENA_LIMIT

LateFailure(t) ==
    /\ \/ bcall[t].pc \in {"tsd", "recursible"} /\ "late" \in bopt.fails
       \/ bcall[t].pc \in {"narenas", "finish"} /\ "locked" \in bopt.fails
       \/ bcall[t].pc = "narenas" /\ TooManyCpus
    /\ boot' = [boot EXCEPT !.lock = IF @ = t THEN NoThread ELSE @, !.failed = TRUE]
    /\ bcall' = [bcall EXCEPT ![t].pc = "failed", ![t].reentrancy = 0]
    /\ UNCHANGED bopt

(* The phase under the lock and pre_reentrancy. *)
NarenasStep(t) ==
    /\ bcall[t].pc = "narenas"
    /\ ~TooManyCpus
    /\ boot' = malloc_init_narenas
    /\ bcall' = [bcall EXCEPT ![t].pc = "finish", ![t].reentrancy = @ + 1]
    /\ UNCHANGED bopt

(* malloc_init_percpu and malloc_init_hard_finish, post_reentrancy, unlock. *)
malloc_init_hard_finish(t) ==
    /\ bcall[t].pc = "finish"
    /\ boot' = [Runs("finish") EXCEPT !.state = "initialized", !.lock = NoThread,
                  !.percpu = (PercpuMode # "disabled")]
    /\ bcall' = [bcall EXCEPT ![t].pc = IF bopt.bg THEN "background" ELSE "ready",
                              ![t].reentrancy = @ - 1]
    /\ UNCHANGED bopt

(* opt_background_thread: thread 0 is created with no lock held.  The call fails
   if that fails, although the allocator is initialised. *)
BootBackground(t) ==
    /\ bcall[t].pc = "background"
    /\ \/ Goes(t, "ready")
       \/ "background" \in bopt.fails /\ Goes(t, "failed")
    /\ UNCHANGED << bopt, boot >>

BootStep(t) ==
    \/ malloc_init_hard(t) \/ NotNeeded(t) \/ BusyWait(t) \/ BusyLock(t)
    \/ A0(t) \/ A0Fails(t) \/ TsdBoot0(t) \/ malloc_init_hard_recursible(t)
    \/ LateFailure(t) \/ NarenasStep(t) \/ malloc_init_hard_finish(t)
    \/ BootBackground(t)

BootNext == \E t \in BootThreads : malloc_init(t) \/ malloc_init_hard_a0(t)
                                    \/ NestedCall(t) \/ BootStep(t)

BootSpec == BootInit /\ [][BootNext]_bootvars
            /\ \A t \in BootThreads : SF_bootvars(BootStep(t))
-----------------------------------------------------------------------------
(* A call that goes on to allocate finds the allocator initialised by exactly one
   run of every phase; only the initializer is past the busy wait, nested calls are
   its own, and nothing allocates with init_lock held (malloc_init_hard).  One case
   is left: after a failure past a0 the state stays "recursible", and the
   initializer's next call takes itself for a nested one; the calls of the other
   threads never do. *)
BootOnce ==
    /\ \A t \in BootThreads :
         bcall[t].pc = "ready" => malloc_initialized \/ (boot.failed /\ Recursive(t))
    /\ malloc_initialized => \A p \in DOMAIN boot.ran : boot.ran[p] = 1
    /\ \A t \in BootThreads :
         /\ bcall[t].pc \in {"tsd", "recursible", "narenas", "finish"}
               => malloc_is_initializer(t) /\ ~malloc_initialized
         /\ bcall[t].nested => Recursive(t)
         /\ bcall[t].pc \in BootResting => bcall[t].reentrancy = 0
         /\ boot.lock = t <=> bcall[t].pc \in {"needed", "narenas", "finish"}

(* Every CPU number, mapped or not, chooses an automatic arena, and a manual arena
   or the huge arena is never among them (malloc_init_narenas,
   percpu_arena_map_build, percpu_arena_choose); hyper threads of one core share. *)
PercpuInRange ==
    malloc_initialized =>
      /\ boot.narenas \in 1 .. ARENA_LIMIT - 1
      /\ boot.narenas <= boot.manual /\ boot.manual = boot.total
      /\ boot.percpu =>
           /\ boot.ngroups \in 1 .. boot.narenas
           /\ \A c \in 0 .. 2 * PERCPU_ARENA_MAX_CPUS :
                percpu_arena_choose(c) < boot.ngroups

(* Both: initialisation happens once, and every CPU gets an arena that exists
   (malloc_init_hard, percpu_arena_boot). *)
BootSound == BootOnce /\ PercpuInRange

(* The inductive invariant.  Who is inside the phase that may recurse is the
   initializer, the phases that ran follow from the state, and the number of arenas
   and the map fit each other once they are computed. *)
Inside(t) == bcall[t].nested \/ bcall[t].pc \in {"recursible", "narenas", "finish"}

BootGlobals ==
    [lock : BootThreads \cup {NoThread},
     state : {"uninitialized", "a0_initialized", "recursible", "initialized"},
     initializer : BootThreads \cup {NoThread}, narenas : Nat, total : Nat, manual : Nat,
     map : {<< >>} \cup [0 .. PERCPU_ARENA_MAX_CPUS - 1 -> Nat], ngroups : Nat,
     percpu : BOOLEAN, ran : [BootPhases -> Nat], failed : BOOLEAN]

BootCallType ==
    [pc : BootResting \cup {"lock", "needed", "spin", "tsd", "recursible", "narenas",
                            "finish", "background"},
     nested : BOOLEAN, reentrancy : Nat, calls : Nat, a0 : Nat]

BootTypeOK == /\ bopt \in BootOptionType /\ boot \in BootGlobals
              /\ bcall \in [BootThreads -> BootCallType]

BootCallOK(t) ==
    /\ boot.lock = t <=> bcall[t].pc \in {"needed", "narenas", "finish"}
    /\ bcall[t].pc = "tsd" => boot.initializer = t /\ boot.state = "a0_initialized"
    /\ Inside(t) => /\ boot.initializer = t /\ boot.state = "recursible"
                    /\ boot.ran["narenas"] = IF bcall[t].pc = "finish" THEN 1 ELSE 0
    /\ bcall[t].nested => bcall[t].pc \in {"lock", "needed"}
    /\ bcall[t].reentrancy = IF bcall[t].pc = "finish" THEN 1 ELSE 0
    /\ bcall[t].pc = "ready" => malloc_initialized \/ (boot.failed /\ Recursive(t))
    /\ bcall[t].pc = "background" => malloc_initialized

BootRanOK ==
    /\ boot.ran["a0"] = IF boot.state = "uninitialized" THEN 0 ELSE 1
    /\ boot.ran["recursible"] = IF boot.state \in {"recursible", "initialized"} THEN 1 ELSE 0
    /\ boot.ran["finish"] = IF malloc_initialized THEN 1 ELSE 0
    /\ boot.ran["narenas"] \in {0, 1}
    /\ boot.state \in {"uninitialized", "a0_initialized"} => boot.ran["narenas"] = 0
    /\ malloc_initialized => boot.ran["narenas"] = 1

ArenasOK ==
    /\ boot.narenas \in 1 .. ARENA_LIMIT - 1
    /\ boot.narenas <= boot.manual /\ boot.manual = boot.total
    /\ PercpuMode # "disabled" =>
         /\ boot.ngroups \in 1 .. boot.narenas
         /\ boot.map \in [0 .. PERCPU_ARENA_MAX_CPUS - 1 -> 0 .. boot.ngroups - 1]

BootInv ==
    /\ BootTypeOK /\ BootRanOK /\ \A t \in BootThreads : BootCallOK(t)
    /\ boot.state = "recursible" => boot.failed \/ \E t \in BootThreads : Inside(t)
    /\ boot.state \in {"a0_initialized", "recursible"} => malloc_initializer_is_set
    /\ boot.ran["narenas"] = 1 => ArenasOK
    /\ boot.percpu => PercpuMode # "disabled"

(* Every call returns: the spinning threads see the initialisation end. *)
BootReturns == \A t \in BootThreads :
                 bcall[t].pc \notin BootResting ~> bcall[t].pc \in BootResting
=============================================================================
