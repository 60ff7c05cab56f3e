---------------------------- MODULE Background ----------------------------
(* Background threads (background_thread.c) and the life of arenas         *)
(* (arenas_management.c and the arena calls of ctl.c): application threads *)
(* create, reset, destroy and choose arenas, switch background threads on  *)
(* and off, and fork, while the background threads create and stop each    *)
(* other, sleep on condition variables and work on the arenas.             *)
(*                                                                         *)
(* What happens while all locks that its readers need are held is one      *)
(* step.  enabled, n and the table of arenas are also read without a lock. *)
EXTENDS Naturals, FiniteSets, Sequences, SequencesExt

CONSTANTS
  BgApps,                     \* application threads
  BgOptions,
  narenas_auto,
  MALLOCX_ARENA_LIMIT,
  opt_max_background_threads

VARIABLES
  bgopt,        \* which calls each thread makes, which allocations may fail
  owner,        \* who holds ctl_mtx, arenas_lock and background_thread_lock
  glob,         \* enabled, n and max of background threads, narenas_total
  info,         \* background_thread_info: state, indefinite_sleep, mtx
  worker,       \* the background threads themselves
  arenas,       \* the table of arenas
  ctl,          \* ctl_arenas: number of arenas, destroyed indices
  app,          \* what each application thread is doing
  left          \* bound on the calls each thread may still make

bgvars == <<bgopt, owner, glob, info, worker, arenas, ctl, app, left>>

Workers == 0 .. opt_max_background_threads - 1
Inds == 0 .. MALLOCX_ARENA_LIMIT - 1
NoOwner == "free"
NoArena == MALLOCX_ARENA_LIMIT

NoCall == [pc |-> "idle", ind |-> NoArena, val |-> 0, then |-> "idle",
         flag |-> FALSE, set |-> {}]
Asleep == [pc |-> "none", i |-> 0, created |-> {}, arenas |-> {}]
Absent == [live |-> FALSE, hpa |-> FALSE, deferral |-> FALSE, work |-> FALSE,
           nthreads |-> <<0, 0>>]
arena_is_auto(a) == a < narenas_auto

(* State after boot: arena 0 exists, background threads are off. *)
BgInit ==
  /\ bgopt \in BgOptions
  /\ owner = [l \in {"ctl", "arenas", "bg"} |-> NoOwner]
  /\ glob = [enabled |-> FALSE, n |-> 0, max |-> bgopt.max,
             narenas |-> narenas_auto, forkEnabled |-> FALSE, forked |-> FALSE]
  /\ info = [i \in Workers |-> [state |-> "stopped", indefinite |-> FALSE,
                                mtx |-> NoOwner]]
  /\ worker = [i \in Workers |-> Asleep]
  /\ arenas = [a \in Inds |->
                 IF a = 0 THEN [Absent EXCEPT !.live = TRUE, !.hpa = TRUE]
                 ELSE Absent]
  /\ ctl = [narenas |-> narenas_auto, destroyed |-> <<>>, known |-> {}]
  /\ app = [t \in BgApps |-> [call |-> NoCall, arena |-> NoArena,
                              iarena |-> NoArena]]
  /\ left = bgopt.left

-----------------------------------------------------------------------------
(* Locks, condition variables and calls. *)

Pc(t) == app[t].call.pc
To(t, pc) == app' = [app EXCEPT ![t].call.pc = pc]
Returns(t) == app' = [app EXCEPT ![t].call = NoCall]
Holds(t, l) == owner[l] = t
Locked(t, l) == owner[l] = NoOwner /\ owner' = [owner EXCEPT ![l] = t]
Released(ls) == owner' = [l \in DOMAIN owner |->
                            IF l \in ls THEN NoOwner ELSE owner[l]]
MtxFree(i) == info[i].mtx = NoOwner

background_thread_info_get(a) == a % glob.max

(* A signal on the condition variable of i; lost when i does not wait. *)
Signalled(i) ==
  [worker EXCEPT ![i].pc = IF @ = "sleep" THEN "woken"
                           ELSE IF @ = "pausewait" THEN "pausewoken" ELSE @]

-----------------------------------------------------------------------------
(* Switching background threads on and off: background_thread_ctl and      *)
(* max_background_threads_ctl.  The caller holds ctl_mtx and               *)
(* background_thread_lock from BgCtl to BgDone.                            *)

(* Applications do not use an arena that another thread destroys. *)
Unused(t, a) ==
  \A u \in BgApps \ {t} :
    app[u].call.pc # "idle" =>
      /\ app[u].call.ind # a
      /\ ~(app[u].call.pc \in {"ctl", "destroy"} /\ app[u].call.then = "destroy"
           /\ app[u].call.val = a)

BgCall(t, op, val) ==
  /\ Pc(t) = "idle"
  /\ app' = [app EXCEPT ![t].call = [NoCall EXCEPT !.pc = "ctl", !.then = op,
                                                 !.val = val]]
  /\ UNCHANGED <<bgopt, owner, glob, info, worker, arenas, ctl>>

CtlLock(t) ==
  /\ Pc(t) = "ctl" /\ Locked(t, "ctl") /\ To(t, app[t].call.then)
  /\ UNCHANGED <<bgopt, glob, info, worker, arenas, ctl>>

(* background_threads_enable up to the creation of thread 0: every info    *)
(* that serves an arena is marked as started, for thread 0 to create.      *)
Marked(max) == {0} \cup {a % max : a \in {b \in Inds : arenas[b].live}}
Enabling(t, max) ==
  LET marked == Marked(max)
  IN  /\ glob' = [glob EXCEPT !.enabled = TRUE, !.max = max,
                              !.n = @ + Cardinality(marked)]
      /\ info' = [i \in Workers |->
                    IF i \in marked
                    THEN [info[i] EXCEPT !.state = "started", !.indefinite = FALSE]
                    ELSE info[i]]
      /\ app' = [app EXCEPT ![t].call.pc = "create0",
                            ![t].call.ind = glob.narenas]

BgCtl(t) ==
  /\ Pc(t) \in {"toggle", "setmax"} /\ owner["bg"] = NoOwner
  /\ LET call == app[t].call
         same == IF call.pc = "toggle" THEN (call.val = 1) = glob.enabled
                 ELSE call.val = glob.max
     IN  \/ /\ same \/ (call.pc = "setmax"
                        /\ call.val \notin 1 .. opt_max_background_threads)
            /\ Released({"ctl"}) /\ Returns(t)
            /\ UNCHANGED <<glob, info>>
         \/ /\ ~same /\ call.pc = "setmax" /\ ~glob.enabled
            /\ call.val \in 1 .. opt_max_background_threads
            /\ glob' = [glob EXCEPT !.max = call.val]
            /\ Released({"ctl"}) /\ Returns(t)
            /\ UNCHANGED info
         \/ /\ ~same /\ call.pc = "toggle" /\ call.val = 1
            /\ owner' = [owner EXCEPT !["bg"] = t]
            /\ Enabling(t, glob.max)
         \/ /\ ~same /\ glob.enabled
            /\ call.pc = "setmax" => call.val \in 1 .. opt_max_background_threads
            /\ owner' = [owner EXCEPT !["bg"] = t]
            /\ glob' = [glob EXCEPT !.enabled = FALSE]
            /\ app' = [app EXCEPT ![t].call.pc = "stop0",
                                  ![t].call.then = call.pc]
            /\ UNCHANGED info
  /\ UNCHANGED <<bgopt, worker, arenas, ctl>>

(* The end of background_thread_create_locked and                          *)
(* background_threads_enable.                                              *)
BgCreate0(t) ==
  /\ Pc(t) = "create0" /\ MtxFree(0)
  /\ \/ /\ worker' = [worker EXCEPT ![0] = [Asleep EXCEPT !.pc = "start"]]
        /\ To(t, "allow")
        /\ UNCHANGED <<owner, glob, info>>
     \/ /\ "thread" \in bgopt.fails
        /\ glob' = [glob EXCEPT !.enabled = FALSE,
              !.n = @ - Cardinality({i \in Workers : info[i].state = "started"})]
        /\ info' = [i \in Workers |-> [info[i] EXCEPT !.state = "stopped"]]
        /\ Released({"ctl", "bg"}) /\ Returns(t)
        /\ UNCHANGED worker
  /\ UNCHANGED <<bgopt, arenas, ctl>>

Deferral(narenas, allowed) ==
  arenas' = [a \in Inds |-> IF a < narenas /\ arenas[a].live /\ arenas[a].hpa
                            THEN [arenas[a] EXCEPT !.deferral = allowed]
                            ELSE arenas[a]]

BgAllow(t) ==
  /\ Pc(t) = "allow" /\ Deferral(app[t].call.ind, TRUE)
  /\ Released({"ctl", "bg"}) /\ Returns(t)
  /\ UNCHANGED <<bgopt, glob, info, worker, ctl>>

(* background_threads_disable: stop thread 0 and join it. *)
BgStop0(t) ==
  /\ Pc(t) = "stop0" /\ MtxFree(0)
  /\ IF info[0].state = "started"
     THEN /\ info' = [info EXCEPT ![0].state = "stopped"]
          /\ worker' = Signalled(0) /\ To(t, "join0")
     ELSE To(t, "disabled") /\ UNCHANGED <<info, worker>>
  /\ UNCHANGED <<bgopt, owner, glob, arenas, ctl>>

BgJoin0(t) ==
  /\ Pc(t) = "join0" /\ worker[0].pc = "exited"
  /\ worker' = [worker EXCEPT ![0] = Asleep]
  /\ glob' = [glob EXCEPT !.n = @ - 1]
  /\ To(t, "disabled")
  /\ UNCHANGED <<bgopt, owner, info, arenas, ctl>>

BgDisabled(t) ==
  /\ Pc(t) = "disabled" /\ Deferral(glob.narenas, FALSE)
  /\ IF app[t].call.then = "setmax"
     THEN Enabling(t, app[t].call.val) /\ UNCHANGED owner
     ELSE Released({"ctl", "bg"}) /\ Returns(t) /\ UNCHANGED <<glob, info>>
  /\ UNCHANGED <<bgopt, worker, ctl>>

-----------------------------------------------------------------------------
(* Creating arenas.  A caller of arena_init waits for arenas_lock at       *)
(* "init", sets the arena at ArenaNew, turns on its huge page allocator    *)
(* with the value of enabled it read before, and then asks for a           *)
(* background thread; call.then says what the caller does next.            *)

ArenasCreate(t) ==
  /\ Pc(t) = "create"
  /\ LET ind == IF ctl.destroyed # <<>> THEN Last(ctl.destroyed)
                ELSE ctl.narenas
     IN  /\ app' = [app EXCEPT ![t].call.pc = "init", ![t].call.ind = ind,
                               ![t].call.then = "created"]
         /\ ctl' = [ctl EXCEPT !.destroyed =
                      IF @ = <<>> THEN @ ELSE Front(@)]
  /\ UNCHANGED <<bgopt, owner, glob, info, worker, arenas>>

NewArena(a) == [arenas EXCEPT ![a] = [Absent EXCEPT !.live = TRUE]]

(* arena_init_locked. *)
ArenaNew(t) ==
  /\ Pc(t) = "init" /\ owner["arenas"] = NoOwner
  /\ LET a == app[t].call.ind
         fails == a >= MALLOCX_ARENA_LIMIT \/ "arena" \in bgopt.fails
     IN  \/ /\ fails
            /\ app' = [app EXCEPT ![t].call.pc = "bgcreate",
                                  ![t].call.val = NoArena]
            /\ glob' = [glob EXCEPT !.narenas =
                          IF a = @ /\ a < MALLOCX_ARENA_LIMIT THEN @ + 1 ELSE @]
            /\ UNCHANGED <<owner, arenas>>
         \/ /\ a < MALLOCX_ARENA_LIMIT /\ arenas[a].live
            /\ app' = [app EXCEPT ![t].call.pc = "bgcreate", ![t].call.val = a]
            /\ UNCHANGED <<owner, arenas, glob>>
         \/ /\ a < MALLOCX_ARENA_LIMIT /\ ~arenas[a].live
            /\ arenas' = NewArena(a)
            /\ glob' = [glob EXCEPT !.narenas = IF a = @ THEN @ + 1 ELSE @]
            /\ owner' = [owner EXCEPT !["arenas"] = t]
            /\ app' = [app EXCEPT ![t].call.pc = "hpa", ![t].call.val = a,
                                  ![t].call.flag = glob.enabled]
  /\ UNCHANGED <<bgopt, info, worker, ctl>>

(* pa_shard_enable_hpa in arena_new. *)
ArenaEnableHpa(t) ==
  /\ Pc(t) = "hpa"
  /\ arenas' = [arenas EXCEPT ![app[t].call.ind].hpa = TRUE,
                              ![app[t].call.ind].deferral = app[t].call.flag]
  /\ Released({"arenas"}) /\ To(t, "bgcreate")
  /\ UNCHANGED <<bgopt, glob, info, worker, ctl>>

(* background_thread_create. *)
BgCreateLock(t) ==
  /\ Pc(t) = "bgcreate" /\ app[t].call.ind # 0
  /\ Locked(t, "bg") /\ To(t, "bgmark")
  /\ UNCHANGED <<bgopt, glob, info, worker, arenas, ctl>>

BgMark(t) ==
  LET i == background_thread_info_get(app[t].call.ind)
  IN  /\ Pc(t) = "bgmark" /\ MtxFree(i)
      /\ IF glob.enabled /\ info[i].state = "stopped" /\ i # 0
         THEN /\ info' = [info EXCEPT ![i].state = "started",
                                      ![i].indefinite = FALSE]
              /\ glob' = [glob EXCEPT !.n = @ + 1]
              /\ To(t, "signal0") /\ UNCHANGED owner
         ELSE /\ Released({"bg"}) /\ To(t, app[t].call.then)
              /\ UNCHANGED <<info, glob>>
      /\ UNCHANGED <<bgopt, worker, arenas, ctl>>

BgSignal0(t) ==
  /\ Pc(t) = "signal0" /\ MtxFree(0)
  /\ worker' = Signalled(0)
  /\ Released({"bg"}) /\ To(t, app[t].call.then)
  /\ UNCHANGED <<bgopt, glob, info, arenas, ctl>>

(* The rest of ctl_arena_init and arenas_create_ctl. *)
ArenasCreated(t) ==
  /\ Pc(t) = "created"
  /\ ctl' = IF app[t].call.val = NoArena THEN ctl
            ELSE [ctl EXCEPT
                    !.narenas = IF app[t].call.ind = @ THEN @ + 1 ELSE @,
                    !.known = @ \cup {app[t].call.ind}]
  /\ Released({"ctl"}) /\ Returns(t)
  /\ UNCHANGED <<bgopt, glob, info, worker, arenas>>

-----------------------------------------------------------------------------
(* Choosing an arena, arena_choose_hard: the least loaded arena, or a new  *)
(* one when all are in use.  internal is the second half of the pair.      *)

Nth(a, j) == arenas[a].nthreads[j]
LeastLoaded(j) ==
  LET live == {a \in 0 .. narenas_auto - 1 : arenas[a].live}
      least == {a \in live : \A b \in live : Nth(a, j) <= Nth(b, j)}
  IN  CHOOSE a \in least : \A b \in least : a <= b
FirstNull ==
  LET null == {a \in 1 .. narenas_auto - 1 : ~arenas[a].live}
  IN  IF null = {} THEN narenas_auto
      ELSE CHOOSE a \in null : \A b \in null : a <= b
Chosen(j) ==
  IF Nth(LeastLoaded(j), j) = 0 \/ FirstNull = narenas_auto
  THEN LeastLoaded(j) ELSE FirstNull

Bind(table, a, j) == [table EXCEPT ![a].nthreads[j] = @ + 1]

arena_choose_hard(t) ==
  /\ Pc(t) = "idle" /\ "choose" \in bgopt.calls[t]
  /\ app[t].arena = NoArena \/ app[t].iarena = NoArena
  /\ owner["arenas"] = NoOwner
  /\ LET c1 == Chosen(1)
         c2 == Chosen(2)
         new == {c1, c2} \cap {FirstNull}
         made == IF new = {} THEN arenas ELSE NewArena(FirstNull)
         bound == [app[t] EXCEPT !.arena = c1, !.iarena = c2]
     IN  \/ /\ arenas' = Bind(Bind(made, c1, 1), c2, 2)
            /\ app' = [app EXCEPT ![t] =
                 IF new = {} THEN bound
                 ELSE [bound EXCEPT
                         !.call = [NoCall EXCEPT !.pc = "hpa", !.ind = FirstNull,
                                   !.then = "idle", !.flag = glob.enabled]]]
            /\ owner' = IF new = {} THEN owner
                        ELSE [owner EXCEPT !["arenas"] = t]
         \/ \* arena_new fails
            /\ "arena" \in bgopt.fails /\ new # {}
            /\ IF c1 \in new THEN UNCHANGED <<arenas, app>>
               ELSE /\ arenas' = Bind(arenas, c1, 1)
                    /\ app' = [app EXCEPT ![t].arena = c1]
            /\ UNCHANGED owner
  /\ UNCHANGED <<bgopt, glob, info, worker, ctl>>

(* thread_arena_ctl: move to another arena, which is created when it does  *)
(* not exist.                                                              *)
arena_migrate(t, new) ==
  LET old == app[t].arena
      moved == [arenas EXCEPT ![old].nthreads[1] = @ - 1,
                              ![new].nthreads[1] = @ + 1]
  IN  /\ arenas' = [moved EXCEPT ![old].work =
                      IF moved[old].nthreads[1] = 0 /\ ~glob.enabled
                      THEN FALSE ELSE @]
      /\ app' = [app EXCEPT ![t].arena = new, ![t].call = NoCall]

ThreadArena(t, new) ==
  /\ Pc(t) = "idle" /\ "thread.arena" \in bgopt.calls[t]
  /\ app[t].arena # NoArena /\ new # app[t].arena /\ new < glob.narenas
  /\ Unused(t, new)
  /\ IF arenas[new].live
     THEN /\ arena_is_auto(new) \/ new \in ctl.known
          /\ arena_migrate(t, new)
     ELSE /\ arena_is_auto(new) \/ bgopt.revive
          /\ app' = [app EXCEPT ![t].call =
                       [NoCall EXCEPT !.pc = "init", !.ind = new,
                                    !.then = "migrate"]]
          /\ UNCHANGED arenas
  /\ UNCHANGED <<bgopt, owner, glob, info, worker, ctl>>

ThreadArenaMoves(t) ==
  /\ Pc(t) = "migrate"
  /\ IF app[t].call.val = NoArena THEN Returns(t) /\ UNCHANGED arenas
     ELSE arena_migrate(t, app[t].call.ind)
  /\ UNCHANGED <<bgopt, owner, glob, info, worker, ctl>>

(* arena_cleanup and iarena_cleanup when the thread exits. *)
ThreadExit(t) ==
  /\ Pc(t) = "idle" /\ "exit" \in bgopt.calls[t] /\ app[t].arena # NoArena
  /\ LET less == [arenas EXCEPT ![app[t].arena].nthreads[1] = @ - 1]
     IN  arenas' = IF app[t].iarena = NoArena THEN less
                   ELSE [less EXCEPT ![app[t].iarena].nthreads[2] = @ - 1]
  /\ app' = [app EXCEPT ![t] = [call |-> NoCall, arena |-> NoArena,
                                iarena |-> NoArena]]
  /\ UNCHANGED <<bgopt, owner, glob, info, worker, ctl>>

-----------------------------------------------------------------------------
(* Resetting and destroying an arena, between                              *)
(* background_thread_arena_reset_begin and _finish.                        *)

ArenaReset(t, a) ==
  /\ Pc(t) = "idle" /\ "reset" \in bgopt.calls[t]
  /\ a \in ctl.known \cap bgopt.resets /\ arenas[a].live /\ Unused(t, a)
  /\ app' = [app EXCEPT ![t].call = [NoCall EXCEPT !.pc = "resetlock", !.ind = a,
                                                 !.then = "reset"]]
  /\ UNCHANGED <<bgopt, owner, glob, info, worker, arenas, ctl>>

(* arena_i_destroy_ctl, holding ctl_mtx. *)
ArenaDestroy(t, a) ==
  /\ Pc(t) = "destroy" /\ a = app[t].call.val
  /\ IF ~arenas[a].live \/ arenas[a].nthreads # <<0, 0>>
     THEN Released({"ctl"}) /\ Returns(t)
     ELSE /\ app' = [app EXCEPT ![t].call.pc = "resetlock", ![t].call.ind = a]
          /\ UNCHANGED owner
  /\ UNCHANGED <<bgopt, glob, info, worker, arenas, ctl>>

ResetLock(t) ==
  /\ Pc(t) = "resetlock" /\ Locked(t, "bg")
  /\ To(t, IF glob.enabled THEN "pause" ELSE "body")
  /\ UNCHANGED <<bgopt, glob, info, worker, arenas, ctl>>

background_thread_arena_reset_begin_unlocked(t) ==
  /\ Pc(t) = "pause"
  /\ info' = [info EXCEPT ![background_thread_info_get(app[t].call.ind)].state = "paused"]
  /\ To(t, "body")
  /\ UNCHANGED <<bgopt, owner, glob, worker, arenas, ctl>>

background_thread_arena_reset_begin(t) ==
  LET i == background_thread_info_get(app[t].call.ind)
  IN  /\ Pc(t) = "pause" /\ MtxFree(i)
      /\ info' = [info EXCEPT ![i].state = "paused"]
      /\ To(t, "body")
      /\ UNCHANGED <<bgopt, owner, glob, worker, arenas, ctl>>

ResetBody(t) ==
  /\ Pc(t) = "body"
  /\ IF app[t].call.then = "destroy"
     THEN /\ arenas' = [arenas EXCEPT ![app[t].call.ind] = Absent]
          /\ ctl' = [ctl EXCEPT
                       !.destroyed = Append(@, app[t].call.ind),
                       !.known = @ \ {app[t].call.ind}]
     ELSE UNCHANGED <<arenas, ctl>>
  /\ To(t, "finish")
  /\ UNCHANGED <<bgopt, owner, glob, info, worker>>

background_thread_arena_reset_finish(t) ==
  LET i == background_thread_info_get(app[t].call.ind)
  IN  /\ Pc(t) = "finish"
      /\ glob.enabled => MtxFree(i)
      /\ IF glob.enabled
         THEN /\ info' = [info EXCEPT ![i].state = "started"]
              /\ worker' = Signalled(i)
         ELSE UNCHANGED <<info, worker>>
      /\ Released(IF app[t].call.then = "destroy" THEN {"bg", "ctl"} ELSE {"bg"})
      /\ Returns(t)
      /\ UNCHANGED <<bgopt, glob, arenas, ctl>>

(* arena_set_extent_hooks, serialized with the background thread. *)
ArenaSetExtentHooks(t, a) ==
  /\ Pc(t) = "idle" /\ "hooks" \in bgopt.calls[t]
  /\ arenas[a].live /\ arenas[a].hpa
  /\ arena_is_auto(a) \/ a \in ctl.known
  /\ MtxFree(background_thread_info_get(a))
  /\ arenas' = [arenas EXCEPT ![a].hpa = FALSE, ![a].deferral = FALSE]
  /\ UNCHANGED <<bgopt, owner, glob, info, worker, ctl, app>>

(* A free leaves work for later in the arena of the thread, and            *)
(* pac_wake_bg_on_deferred wakes a background thread that sleeps.          *)
DeferWork(t) ==
  LET a == app[t].arena
      i == background_thread_info_get(a)
  IN  /\ Pc(t) = "idle" /\ "free" \in bgopt.calls[t]
      /\ a # NoArena /\ ~arenas[a].work
      /\ arenas' = [arenas EXCEPT ![a].work = glob.enabled]
      /\ worker' = IF glob.enabled /\ info[i].indefinite /\ MtxFree(i)
                      /\ info[i].state = "started"
                   THEN Signalled(i) ELSE worker
      /\ UNCHANGED <<bgopt, owner, glob, info, ctl, app>>


-----------------------------------------------------------------------------
(* Background threads.  Thread w holds the mutex of info[w] in every state *)
(* except while it sleeps, is woken, starts, and while thread 0 scans for  *)
(* threads to create.                                                      *)

WGoto(w, pc) == worker' = [worker EXCEPT ![w].pc = pc]
Held(w, b) == IF b THEN [info EXCEPT ![w].mtx = "worker"]
              ELSE [info EXCEPT ![w].mtx = NoOwner]

(* The start of background_work, and the return of a wait. *)
WorkerStart(w) ==
  /\ worker[w].pc = "start" /\ MtxFree(w)
  /\ info' = [info EXCEPT ![w].mtx = "worker", ![w].indefinite = TRUE]
  /\ WGoto(w, "check")
  /\ UNCHANGED <<bgopt, owner, glob, arenas, ctl, app>>

WorkerWakes(w) ==
  /\ worker[w].pc \in {"woken", "pausewoken", "relock"} /\ MtxFree(w)
  /\ info' = Held(w, TRUE) /\ WGoto(w, "check")
  /\ UNCHANGED <<bgopt, owner, glob, arenas, ctl, app>>

WorkerTimeout(w) ==
  /\ worker[w].pc = "sleep" /\ ~info[w].indefinite
  /\ WGoto(w, "woken")
  /\ UNCHANGED <<bgopt, owner, glob, info, arenas, ctl, app>>

(* Condition variables may wake up a thread for no reason. *)
WorkerSpurious(w) ==
  /\ worker[w].pc \in {"sleep", "pausewait"}
  /\ worker' = Signalled(w)
  /\ UNCHANGED <<bgopt, owner, glob, info, arenas, ctl, app>>

(* One turn of the loops of background_work and background_thread0_work up *)
(* to the call of background_work_sleep_once.                              *)
WorkerCheck(w) ==
  /\ worker[w].pc = "check"
  /\ \/ /\ info[w].state = "stopped"
        /\ IF w = 0
           THEN /\ worker' = [worker EXCEPT ![0].pc = "shutdown", ![0].i = 1]
                /\ UNCHANGED info
           ELSE /\ WGoto(w, "exited")
                /\ info' = [info EXCEPT ![w].mtx = NoOwner, ![w].indefinite = FALSE]
     \/ /\ info[w].state = "paused"
        /\ info' = Held(w, FALSE) /\ WGoto(w, "pausewait")
     \/ /\ info[w].state = "started"
        /\ IF w = 0 /\ Cardinality(worker[0].created) + 1 # glob.n
           THEN /\ info' = Held(0, FALSE)
                /\ worker' = [worker EXCEPT ![0].pc = "scan", ![0].i = 1]
           ELSE WGoto(w, "work") /\ UNCHANGED info
  /\ UNCHANGED <<bgopt, owner, glob, arenas, ctl, app>>

(* check_background_thread_creation, without the mutex of info[0].  When   *)
(* no thread is to be created, thread 0 goes on to its work.               *)
ScanDone(w) ==
  /\ worker[w].pc = "scan" /\ worker[w].i >= glob.max /\ MtxFree(0)
  /\ info' = Held(0, TRUE) /\ WGoto(0, "work")
  /\ UNCHANGED <<bgopt, owner, glob, arenas, ctl, app>>

ScanNext(w) ==
  LET i == worker[w].i
  IN  /\ worker[w].pc = "scan" /\ i < glob.max
      /\ i \notin worker[w].created => MtxFree(i)
      /\ worker' = [worker EXCEPT
           ![w].pc = IF i \notin worker[w].created /\ info[i].state = "started"
                     THEN "spawn" ELSE "scan",
           ![w].i = IF i \notin worker[w].created /\ info[i].state = "started"
                    THEN i ELSE i + 1]
      /\ UNCHANGED <<bgopt, owner, glob, info, arenas, ctl, app>>

ScanCreate(w) ==
  LET i == worker[w].i
  IN  /\ worker[w].pc = "spawn"
      /\ \/ worker' = [worker EXCEPT ![w].pc = "relock",
                                      ![w].created = @ \cup {i},
                                      ![i] = [Asleep EXCEPT !.pc = "start"]]
         \/ "thread" \in bgopt.fails /\ WGoto(w, "relock")
      /\ UNCHANGED <<bgopt, owner, glob, info, arenas, ctl, app>>

(* background_work_sleep_once: look up the arenas, work on them unless the *)
(* thread slept indefinitely, and sleep until the next work is due.        *)
WorkerArenas(w) ==
  /\ worker[w].pc = "work"
  /\ worker' = [worker EXCEPT ![w].pc = "working", ![w].arenas =
                  {a \in Inds : a < glob.narenas /\ a % glob.max = w
                                /\ arenas[a].live}]
  /\ UNCHANGED <<bgopt, owner, glob, info, arenas, ctl, app>>

WorkerSleep(w) ==
  /\ worker[w].pc = "working"
  /\ \E rest \in SUBSET {a \in worker[w].arenas : arenas[a].work} :
       /\ info[w].indefinite => \A a \in worker[w].arenas :
                                  arenas[a].work => a \in rest
       /\ arenas' = [a \in Inds |-> IF a \in worker[w].arenas
                       THEN [arenas[a] EXCEPT !.work = a \in rest] ELSE arenas[a]]
       /\ info' = [info EXCEPT ![w].indefinite = rest = {}, ![w].mtx = NoOwner]
  /\ worker' = [worker EXCEPT ![w].pc = "sleep", ![w].arenas = {}]
  /\ UNCHANGED <<bgopt, owner, glob, ctl, app>>

(* The end of background_thread0_work: thread 0, holding its own mutex,    *)
(* stops the other threads (background_threads_disable_single).            *)
Shutdown(w) ==
  LET i == worker[w].i
  IN  /\ worker[w].pc = "shutdown"
      /\ \/ /\ i >= glob.max
            /\ info' = [info EXCEPT ![w].state = "stopped",
                            ![w].indefinite = FALSE, ![w].mtx = NoOwner]
            /\ worker' = [worker EXCEPT ![w].pc = "exited", ![w].created = {}]
            /\ UNCHANGED glob
         \/ /\ i < glob.max /\ i \in worker[w].created /\ MtxFree(i)
            /\ info' = [info EXCEPT ![i].state = "stopped"]
            /\ worker' = [Signalled(i) EXCEPT ![w].pc = "join"]
            /\ UNCHANGED glob
         \/ /\ i < glob.max /\ i \notin worker[w].created /\ MtxFree(i)
            /\ glob' = [glob EXCEPT !.n = IF info[i].state = "stopped"
                                          THEN @ ELSE @ - 1]
            /\ info' = [info EXCEPT ![i].state = "stopped"]
            /\ worker' = [worker EXCEPT ![w].i = i + 1]
      /\ UNCHANGED <<bgopt, owner, arenas, ctl, app>>

ShutdownJoin(w) ==
  LET i == worker[w].i
  IN  /\ worker[w].pc = "join" /\ worker[i].pc = "exited"
      /\ worker' = [worker EXCEPT ![i] = Asleep, ![w].pc = "shutdown",
                                  ![w].i = i + 1]
      /\ glob' = [glob EXCEPT !.n = @ - 1]
      /\ UNCHANGED <<bgopt, owner, info, arenas, ctl, app>>

-----------------------------------------------------------------------------
(* fork: jemalloc_prefork takes all mutexes, jemalloc_postfork_parent and  *)
(* jemalloc_postfork_child release them.                                   *)

Fork(t) ==
  /\ Pc(t) = "idle" /\ "fork" \in bgopt.calls[t]
  /\ app' = [app EXCEPT ![t].call = [NoCall EXCEPT !.pc = "ctl",
                               !.then = "forkarenas", !.val = glob.narenas]]
  /\ UNCHANGED <<bgopt, owner, glob, info, worker, arenas, ctl>>

ForkArenas(t) ==
  /\ Pc(t) = "forkarenas" /\ Locked(t, "arenas") /\ To(t, "forkbg")
  /\ UNCHANGED <<bgopt, glob, info, worker, arenas, ctl>>

background_thread_prefork0(t) ==
  /\ Pc(t) = "forkbg" /\ Locked(t, "bg")
  /\ glob' = [glob EXCEPT !.forkEnabled = glob.enabled]
  /\ app' = [app EXCEPT ![t].call.pc = "forkinfo", ![t].call.ind = 0]
  /\ UNCHANGED <<bgopt, info, worker, arenas, ctl>>

background_thread_prefork1(t) ==
  /\ Pc(t) = "forkinfo"
  /\ LET i == app[t].call.ind
     IN  IF i < glob.max
         THEN /\ MtxFree(i) /\ info' = [info EXCEPT ![i].mtx = t]
              /\ app' = [app EXCEPT ![t].call.ind = i + 1]
         ELSE /\ app' = [app EXCEPT ![t].call.pc = "forked", ![t].call.set =
                          {a \in Inds : a < app[t].call.val /\ arenas[a].live}]
              /\ UNCHANGED info
  /\ UNCHANGED <<bgopt, owner, glob, worker, arenas, ctl>>

jemalloc_postfork_parent(t) ==
  /\ Pc(t) = "forked"
  /\ info' = [i \in Workers |-> IF info[i].mtx = t
                 THEN [info[i] EXCEPT !.mtx = NoOwner] ELSE info[i]]
  /\ Released({"ctl", "arenas", "bg"}) /\ Returns(t)
  /\ UNCHANGED <<bgopt, glob, worker, arenas, ctl>>

(* background_thread_postfork_child. *)
Disabled_count_kept(on) ==
  /\ glob' = IF on THEN [glob EXCEPT !.enabled = FALSE, !.forked = TRUE]
             ELSE [glob EXCEPT !.forked = TRUE]
  /\ info' = [i \in Workers |->
                IF on THEN [state |-> "stopped", indefinite |-> FALSE, mtx |-> NoOwner]
                ELSE [info[i] EXCEPT !.mtx = NoOwner]]

Disabled(on) ==
  /\ glob' = IF on THEN [glob EXCEPT !.n = 0, !.enabled = FALSE, !.forked = TRUE]
             ELSE [glob EXCEPT !.forked = TRUE]
  /\ info' = [i \in Workers |->
                IF on THEN [state |-> "stopped", indefinite |-> FALSE, mtx |-> NoOwner]
                ELSE [info[i] EXCEPT !.mtx = NoOwner]]

(* In the child only the forking thread exists. *)
jemalloc_postfork_child(t) ==
  /\ Pc(t) = "forked"
  /\ Disabled(glob.forkEnabled)
  /\ worker' = [i \in Workers |-> Asleep]
  /\ arenas' = [a \in Inds |-> [arenas[a] EXCEPT !.nthreads =
                 <<IF app[t].arena = a THEN 1 ELSE 0,
                   IF app[t].iarena = a THEN 1 ELSE 0>>]]
  /\ app' = [u \in BgApps |->
               IF u = t THEN [app[t] EXCEPT !.call = NoCall]
               ELSE [call |-> [NoCall EXCEPT !.pc = "gone"], arena |-> NoArena,
                     iarena |-> NoArena]]
  /\ Released({"ctl", "arenas", "bg"})
  /\ UNCHANGED <<bgopt, ctl>>

-----------------------------------------------------------------------------
AppCalls(t) ==
  \/ "enable" \in bgopt.calls[t] /\ BgCall(t, "toggle", 1)
  \/ "disable" \in bgopt.calls[t] /\ BgCall(t, "toggle", 0)
  \/ /\ "setmax" \in bgopt.calls[t]
     /\ \E n \in 0 .. opt_max_background_threads : BgCall(t, "setmax", n)
  \/ "create" \in bgopt.calls[t] /\ BgCall(t, "create", 0)
  \/ /\ "destroy" \in bgopt.calls[t]
     /\ \E a \in ctl.known \cap bgopt.resets : Unused(t, a) /\ BgCall(t, "destroy", a)
  \/ \E a \in Inds : \/ ThreadArena(t, a) \/ ArenaReset(t, a)
                      \/ ArenaSetExtentHooks(t, a)
  \/ arena_choose_hard(t) \/ ThreadExit(t) \/ DeferWork(t) \/ Fork(t)

AppCall(t) ==
  left[t] > 0 /\ AppCalls(t) /\ left' = [left EXCEPT ![t] = @ - 1]

AppSteps(t) ==
  \/ CtlLock(t) \/ BgCtl(t) \/ BgCreate0(t) \/ BgAllow(t)
  \/ BgStop0(t) \/ BgJoin0(t) \/ BgDisabled(t)
  \/ ArenasCreate(t) \/ ArenaNew(t) \/ ArenaEnableHpa(t) \/ BgCreateLock(t)
  \/ BgMark(t) \/ BgSignal0(t) \/ ArenasCreated(t) \/ ThreadArenaMoves(t)
  \/ ArenaDestroy(t, app[t].call.val) \/ ResetLock(t)
  \/ background_thread_arena_reset_begin(t) \/ ResetBody(t)
  \/ background_thread_arena_reset_finish(t)
  \/ ForkArenas(t) \/ background_thread_prefork0(t)
  \/ background_thread_prefork1(t)
  \/ jemalloc_postfork_parent(t) \/ jemalloc_postfork_child(t)

AppStep(t) == AppSteps(t) /\ UNCHANGED left

WorkerSteps(w) ==
  \/ WorkerStart(w) \/ WorkerWakes(w) \/ WorkerTimeout(w) \/ WorkerCheck(w)
  \/ ScanDone(w) \/ ScanNext(w) \/ ScanCreate(w)
  \/ WorkerArenas(w) \/ WorkerSleep(w) \/ Shutdown(w) \/ ShutdownJoin(w)

WorkerStep(w) == WorkerSteps(w) /\ UNCHANGED left

BgNext ==
  \/ \E t \in BgApps : AppCall(t) \/ AppStep(t)
  \/ \E w \in Workers : WorkerStep(w) \/ (WorkerSpurious(w) /\ UNCHANGED left)


Started == {i \in Workers : info[i].state # "stopped"}
Running == {i \in Workers : worker[i].pc \notin {"none", "exited"}}
Pending(a) == \E t \in BgApps : /\ Pc(t) \in {"hpa", "bgcreate", "bgmark"}
                               /\ app[t].call.ind = a

(* n_background_threads counts the infos that are not stopped, only those  *)
(* below max_background_threads are, a thread runs only for one of them,   *)
(* and thread 0 runs exactly when background threads are enabled.  The     *)
(* count is what thread 0 compares with the threads it created             *)
(* (background_thread.c:425) and what the asserts at its end test.         *)
BgCounted ==
  owner["bg"] = NoOwner \/ (\E t \in BgApps : Holds(t, "bg") /\ Pc(t) = "forked") =>
    /\ glob.n = Cardinality(Started)
    /\ Started \subseteq 0 .. glob.max - 1
    /\ Running \subseteq Started
    /\ glob.enabled = (0 \in Running)

(* While background threads are enabled every arena that its creator has   *)
(* finished with has a background thread, created or about to be: of a     *)
(* creation and an enabling that overlap, one marks the thread             *)
(* (background_thread.c:596 and :679).                                     *)
BgServed ==
  (owner["bg"] = NoOwner /\ glob.enabled) =>
    \A a \in Inds : arenas[a].live =>
      Pending(a) \/ background_thread_info_get(a) \in Started

(* A background thread never works on an arena that is being reset or is   *)
(* gone: reset_begin waits for the mutex that the thread works under       *)
(* (background_thread.c:50).                                               *)
BgApart ==
  \A w \in Workers : worker[w].pc = "working" =>
    \A a \in worker[w].arenas :
      /\ arenas[a].live
      /\ ~ \E t \in BgApps : Pc(t) \in {"body", "finish"} /\ app[t].call.ind = a

(* "Thread waits on its condition variable when paused (arena_reset)", as  *)
(* background_thread.h:27 has it: no background thread works while it is   *)
(* paused.                                                                 *)
PausedIdle ==
  \A w \in Workers : worker[w].pc = "working" => info[w].state # "paused"

(* The assertions of background_thread.c and arenas_management.c. *)
BgAsserts ==
  /\ \A t \in BgApps :
       /\ Pc(t) = "pause" =>
            info[background_thread_info_get(app[t].call.ind)].state = "started"
       /\ (Pc(t) = "finish" /\ glob.enabled) =>
            info[background_thread_info_get(app[t].call.ind)].state = "paused"
       /\ Pc(t) = "stop0" => info[0].state # "paused"
       /\ Pc(t) = "disabled" => glob.n = 0
  /\ worker[0].pc \in {"shutdown", "join"} =>
       /\ ~glob.enabled
       /\ \A i \in Workers : info[i].state # "paused"
       /\ worker[0].pc = "shutdown" /\ worker[0].i >= glob.max => glob.n = 1

(* The thread counts of an arena are those of the threads bound to it, so  *)
(* that arena.i.destroy (ctl.c:2866) sees every user; a failed arena_new   *)
(* in arena_choose_hard may only leave them too large.                     *)
NthreadsExact ==
  \A a \in Inds : arenas[a].live =>
    LET apps == Cardinality({t \in BgApps : app[t].arena = a})
        internal == Cardinality({t \in BgApps : app[t].iarena = a})
    IN  /\ arenas[a].nthreads[1] >= apps /\ arenas[a].nthreads[2] >= internal
        /\ "arena" \notin bgopt.fails => arenas[a].nthreads = <<apps, internal>>

(* The indices kept for recycling (ctl.c:2882) are distinct indices of     *)
(* arenas that do not exist, so arenas.create never returns an arena that  *)
(* is in use.                                                              *)
RecycledUnused ==
  /\ \A i \in DOMAIN ctl.destroyed : ~arenas[ctl.destroyed[i]].live
  /\ IsInjective(ctl.destroyed)
  /\ \A t \in BgApps : Pc(t) = "init" /\ app[t].call.then = "created"
       /\ app[t].call.ind < MALLOCX_ARENA_LIMIT => ~arenas[app[t].call.ind].live

(* fork releases the mutexes of exactly the arenas whose mutexes it took   *)
(* (jemalloc_fork.c:57 and :133).                                          *)
ForkExact ==
  \A t \in BgApps : Pc(t) = "forked" =>
    app[t].call.set = {a \in Inds : a < glob.narenas /\ arenas[a].live}

(* The background threads and the arenas they serve are counted and kept   *)
(* exactly, whatever calls of the control interface, thread exits and      *)
(* forks do at the same time.                                              *)
BgSound == /\ BgCounted /\ BgServed /\ BgAsserts
           /\ NthreadsExact /\ RecycledUnused /\ ForkExact

(* Every call returns: background threads are stopped synchronously, as    *)
(* doc/jemalloc.xml.in says of background_thread.                          *)
BgReturns == \A t \in BgApps : (Pc(t) # "idle") ~> (Pc(t) \in {"idle", "gone"})

BgSpec == BgInit /\ [][BgNext]_bgvars
          /\ \A t \in BgApps : SF_bgvars(AppStep(t))
          /\ \A w \in Workers : SF_bgvars(WorkerStep(w))
=============================================================================
