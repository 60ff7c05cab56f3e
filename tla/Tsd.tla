-------------------------------- MODULE Tsd --------------------------------
(* The life of one thread's data (tsd.c, tsd.h) and its thread events      *)
(* (thread_event.c): from the first call of the thread, through reentrant  *)
(* calls of event handlers, to its destructors, which may call malloc and  *)
(* free after the data was cleaned up.  Counters are 64 bit in the code    *)
(* and count modulo TeWords here.                                          *)
EXTENDS Naturals, Sequences, FiniteSets, SequencesExt

CONSTANTS
  TeWords,               \* 2^64
  TE_LOOKUP_MAXCLASS,    \* the largest size of the fast paths
  TE_MAX_INTERVAL,
  BuiltinWaits,          \* intervals of the events every thread has
  TE_MAX_USER_EVENTS,
  TSD_MIN_INIT_STATE_MAX_FETCHED,
  PTHREAD_DESTRUCTOR_ITERATIONS,
  TsdOptions             \* option records: calls, mallocs, frees (sizes),
                         \* slow, tcache, users, anytime

VARIABLES
  tsopt,      \* the options of this thread
  tsd,        \* its thread specific data
  uevents,    \* registered user events: interval, alloc_only
  life        \* destructors: what the thread does, is one registered, rounds

tsvars == <<tsopt, tsd, uevents, life>>

TE_MAX_START_WAIT == TeWords - 1
TE_MIN_START_WAIT == 1
TE_NEXT_EVENT_FAST_MAX == TeWords - 1 - TE_LOOKUP_MAXCLASS + 1
Minus(x, y) == (x + TeWords - y) % TeWords
Plus(x, y) == (x + y) % TeWords
TeLeast(S) == CHOOSE x \in S : \A y \in S : x <= y

Events == 1 .. Len(BuiltinWaits) + TE_MAX_USER_EVENTS
Sides == {"alloc", "dalloc"}
User(e) == e - Len(BuiltinWaits)

(* te_user_event_enabled, and the built-in handlers. *)
Enabled(side, e) ==
  \/ e <= Len(BuiltinWaits)
  \/ /\ User(e) \in DOMAIN uevents
     /\ side = "alloc" \/ ~uevents[User(e)].alloc_only
new_event_wait(e) ==
  IF e <= Len(BuiltinWaits) THEN BuiltinWaits[e] ELSE uevents[User(e)].interval

\* since is not in the code: bytes since the event fired or began.
TeNew == [cur |-> 0, last |-> 0, next |-> 0, fast |-> 0,
          wait |-> [e \in Events |-> 0], since |-> [e \in Events |-> 0]]
TSD_INITIALIZER ==
  [state |-> "uninitialized", tcache |-> FALSE, reentrancy |-> 0,
   nfetched |-> 0, arena |-> FALSE, alloc |-> TeNew, dalloc |-> TeNew,
   todo |-> <<>>]

TsdInit ==
  /\ tsopt \in TsdOptions
  /\ tsd = TSD_INITIALIZER
  /\ uevents = <<>>
  /\ life = [pc |-> "runs", armed |-> FALSE, round |-> 0]

-----------------------------------------------------------------------------
(* Thresholds. *)

FastThreshold(t, side) ==
  IF t.state = "nominal" /\ t[side].next <= TE_NEXT_EVENT_FAST_MAX
  THEN t[side].next ELSE 0
te_recompute_fast_threshold(t) ==
  [t EXCEPT !.alloc.fast = FastThreshold(t, "alloc"),
            !.dalloc.fast = FastThreshold(t, "dalloc")]

te_next_event_compute(t, side) ==
  TeLeast({TE_MAX_START_WAIT}
        \cup {t[side].wait[e] : e \in {f \in Events : /\ Enabled(side, f)
                                                     /\ t[side].wait[f] > 0}})

te_adjust_thresholds_impl(t, side, wait) ==
  te_recompute_fast_threshold(
    [t EXCEPT ![side].next =
       Plus(t[side].last, IF wait <= TE_MAX_INTERVAL THEN wait
                          ELSE TE_MAX_INTERVAL)])

(* Operators named X_<bug> are X with a bug that the properties must detect. *)
te_init_last_kept(t, side) ==
  LET waits == [e \in Events |-> IF Enabled(side, e) THEN new_event_wait(e)
                                 ELSE t[side].wait[e]]
      new == [t EXCEPT ![side].wait = waits,
                       ![side].since = [e \in Events |-> 0]]
  IN  te_adjust_thresholds_impl(new, side,
        TeLeast({TE_MAX_START_WAIT}
              \cup {waits[e] : e \in {f \in Events : Enabled(side, f)}}))

te_init(t, side) ==
  LET waits == [e \in Events |-> IF Enabled(side, e) THEN new_event_wait(e)
                                 ELSE t[side].wait[e]]
      new == [t EXCEPT ![side].last = t[side].cur, ![side].wait = waits,
                       ![side].since = [e \in Events |-> 0]]
      wait == TeLeast({TE_MAX_START_WAIT}
                    \cup {waits[e] : e \in {f \in Events : Enabled(side, f)}})
  IN  te_adjust_thresholds_impl(new, side, wait)

tsd_te_init(t) == te_init(te_init(t, "alloc"), "dalloc")

-----------------------------------------------------------------------------
(* States. *)

tsd_nominal(t) == t.state \in {"nominal", "nominal_slow"}

tsd_slow_update(t) ==
  te_recompute_fast_threshold(
    IF ~tsd_nominal(t) THEN t
    ELSE [t EXCEPT !.state =
            IF tsopt.slow \/ ~t.tcache \/ t.reentrancy > 0
            THEN "nominal_slow" ELSE "nominal"])

tsd_state_set(t, state) ==
  IF tsd_nominal(t) /\ state \in {"nominal", "nominal_slow"}
  THEN tsd_slow_update(t)
  ELSE te_recompute_fast_threshold([t EXCEPT !.state = state])

(* tsd_data_init, with tsd_tcache_enabled_data_init. *)
tsd_data_init(t) ==
  tsd_slow_update([tsd_te_init(t) EXCEPT !.tcache = tsopt.tcache,
                                         !.arena = t.arena \/ tsopt.tcache])

tsd_data_init_nocleanup_not_reentrant(t) ==
  tsd_te_init([t EXCEPT !.tcache = FALSE])

tsd_data_init_nocleanup(t) ==
  tsd_te_init([t EXCEPT !.tcache = FALSE, !.reentrancy = 1])

tsd_fetch_slow(t, minimal) ==
  CASE t.state = "uninitialized" /\ ~minimal ->
         tsd_data_init(tsd_slow_update(tsd_state_set(t, "nominal")))
    [] t.state = "uninitialized" /\ minimal ->
         [tsd_data_init_nocleanup(tsd_state_set(t, "minimal_initialized"))
            EXCEPT !.nfetched = 1]
    [] t.state = "minimal_initialized" ->
         IF ~minimal \/ t.nfetched + 1 = TSD_MIN_INIT_STATE_MAX_FETCHED
         THEN LET n == tsd_state_set([t EXCEPT !.nfetched = @ + 1], "nominal")
              IN  tsd_data_init(tsd_slow_update(
                                  [n EXCEPT !.reentrancy = @ - 1]))
         ELSE [t EXCEPT !.nfetched = @ + 1]
    [] t.state = "purgatory" ->
         tsd_data_init_nocleanup(tsd_state_set(t, "reincarnated"))
    [] OTHER -> t

\* tsd_fetch_slow calls tsd_set in the states that it leaves for another.
Arms(t, minimal) ==
  t.state \in {"uninitialized", "purgatory"}
tsd_fetch_impl(t, minimal) ==
  IF t.state = "nominal" THEN t ELSE tsd_fetch_slow(t, minimal)

tsd_pre_reentrancy_raw(t) ==
  LET up == [t EXCEPT !.reentrancy = @ + 1]
  IN  IF t.state = "nominal" THEN tsd_slow_update(up) ELSE up

tsd_post_reentrancy_raw(t) ==
  LET down == [t EXCEPT !.reentrancy = @ - 1]
  IN  IF down.reentrancy = 0 THEN tsd_slow_update(down) ELSE down

tsd_do_data_cleanup(t) ==
  [t EXCEPT !.arena = FALSE, !.tcache = FALSE, !.reentrancy = 1]

-----------------------------------------------------------------------------
(* Events. *)

Counted(t, side, n) ==
  [t EXCEPT ![side].cur = Plus(@, n),
            ![side].since = [e \in Events |-> IF Enabled(side, e)
               THEN TeLeast({@[e] + n, new_event_wait(e)}) ELSE 0]]

(* te_update_wait of every enabled event, which gives the new wait. *)
te_update_wait_skips(t, side, e, accum, allow) ==
  IF t[side].wait[e] > accum THEN t[side].wait[e] - accum
  ELSE new_event_wait(e)

te_update_wait(t, side, e, accum, allow) ==
  LET w == t[side].wait[e]
  IN  IF w > accum THEN w - accum
      ELSE IF ~allow THEN TE_MIN_START_WAIT
      ELSE new_event_wait(e)

te_event_trigger(t, side) ==
  LET accum == Minus(t[side].cur, t[side].last)
      allow == tsd_nominal(t) /\ t.reentrancy = 0
      on == {e \in Events : Enabled(side, e)}
      fired == {e \in on : allow /\ t[side].wait[e] <= accum}
      waits == [e \in Events |-> IF e \in on
                  THEN te_update_wait(t, side, e, accum, allow)
                  ELSE t[side].wait[e]]
      new == [t EXCEPT ![side].last = t[side].cur, ![side].wait = waits,
                ![side].since = [e \in Events |->
                                   IF e \in fired THEN 0 ELSE @[e]],
                !.todo = SetToSortSeq(fired, LAMBDA x, y : x < y)]
  IN  te_adjust_thresholds_impl(
        new, side, TeLeast({TE_MAX_START_WAIT} \cup {waits[e] : e \in on}))

te_event_advance(t, usize, side) ==
  LET new == Counted(t, side, usize)
  IN  IF usize < Minus(t[side].next, t[side].cur) THEN new
      ELSE te_event_trigger(new, side)

-----------------------------------------------------------------------------
(* Calls of the thread.  A call is made outside of a handler, or by the    *)
(* handler that runs (life.pc = "handler"); after a call the handlers of   *)
(* the events that fired run.                                              *)

Callable == life.pc \in {"runs", "handler", "exits"} /\ tsd.todo = <<>>
Calls(op) == Callable /\ op \in tsopt.calls

FastOk(side, usize) ==
  usize <= TE_LOOKUP_MAXCLASS /\ Plus(tsd[side].cur, usize) < tsd[side].fast

Fast(side, usize) ==
  /\ FastOk(side, usize)
  /\ tsd' = Counted(tsd, side, usize)
  /\ UNCHANGED life

(* The slow paths of malloc and free: fetch the tsd, bind an arena, count. *)
Slow(side, usize) ==
  /\ ~FastOk(side, usize)
  /\ LET minimal == side = "dalloc"
         t == tsd_fetch_impl(tsd, minimal)
         bound == IF side = "alloc" /\ t.reentrancy = 0
                  THEN [t EXCEPT !.arena = TRUE] ELSE t
     IN  /\ tsd' = te_event_advance(bound, usize, side)
         /\ life' = [life EXCEPT !.armed = @ \/ Arms(tsd, minimal)]

Malloc(usize) ==
  /\ Callable /\ (Fast("alloc", usize) \/ Slow("alloc", usize))
  /\ UNCHANGED <<tsopt, uevents>>
FreeCall(usize) ==
  /\ Callable /\ (Fast("dalloc", usize) \/ Slow("dalloc", usize))
  /\ UNCHANGED <<tsopt, uevents>>

(* handler_wrapper: a user handler runs between pre_reentrancy and         *)
(* post_reentrancy; the built-in ones do not call out.                     *)
HandlerBegin ==
  /\ tsd.todo # <<>>
  /\ IF Head(tsd.todo) <= Len(BuiltinWaits)
     THEN tsd' = [tsd EXCEPT !.todo = Tail(@)] /\ UNCHANGED life
     ELSE /\ tsd' = [tsd_pre_reentrancy_raw(tsd) EXCEPT !.todo = <<>>]
          /\ life' = [life EXCEPT !.pc = "handler"]
  /\ UNCHANGED <<tsopt, uevents>>
HandlerEnd ==
  /\ life.pc = "handler"
  /\ tsd' = tsd_post_reentrancy_raw(tsd)
  /\ life' = [life EXCEPT !.pc = "runs"]
  /\ UNCHANGED <<tsopt, uevents>>

(* tcache_enabled_set, by thread.tcache.enabled. *)
tcache_enabled_set(b) ==
  /\ Calls("tcache") /\ life.pc = "runs" /\ tsd_nominal(tsd)
  /\ tsd' = tsd_slow_update([tsd EXCEPT !.tcache = b])
  /\ UNCHANGED <<tsopt, uevents, life>>

(* te_register_user_handler by this thread, which then starts the event,   *)
(* or by another.                                                          *)
te_update_tsd(t, side, e, wait) ==
  LET new == [t EXCEPT ![side].wait[e] = wait, ![side].since[e] = 0]
  IN  IF wait < Minus(t[side].next, t[side].cur)
      THEN te_adjust_thresholds_impl([new EXCEPT ![side].last = t[side].cur],
                                     side, wait)
      ELSE new

te_register_user_handler(obj, self) ==
  /\ Callable /\ life.pc = "runs" /\ obj \in tsopt.users
  /\ obj \notin Range(uevents) /\ Len(uevents) < TE_MAX_USER_EVENTS
  /\ uevents' = Append(uevents, obj)
  /\ IF self
     THEN /\ tsd_nominal(tsd)
          /\ tsopt.anytime \/ (/\ tsd.alloc.cur = tsd.alloc.last
                               /\ tsd.dalloc.cur = tsd.dalloc.last)
          /\ LET e == Len(BuiltinWaits) + Len(uevents) + 1
                 a == te_update_tsd(tsd, "alloc", e, obj.interval)
             IN  tsd' = te_recompute_fast_threshold(
                          IF obj.alloc_only THEN a
                          ELSE te_update_tsd(a, "dalloc", e, obj.interval))
     ELSE UNCHANGED tsd
  /\ UNCHANGED <<tsopt, life>>

-----------------------------------------------------------------------------
(* The end of the thread: rounds of destructors, the one of tsd among them *)
(* while it is registered.  Others may call malloc and free in between.    *)

ThreadExits ==
  /\ Calls("exit") /\ life.pc = "runs"
  /\ life' = [life EXCEPT !.pc = "exits"]
  /\ UNCHANGED <<tsopt, tsd, uevents>>

tsd_cleanup(t) ==
  IF t.state \in {"uninitialized", "purgatory"} THEN t
  ELSE tsd_state_set(tsd_do_data_cleanup(t), "purgatory")

Destructor ==
  /\ life.pc = "exits" /\ tsd.todo = <<>>
  /\ life.round < PTHREAD_DESTRUCTOR_ITERATIONS
  /\ tsd' = IF life.armed THEN tsd_cleanup(tsd) ELSE tsd
  /\ life' = [life EXCEPT !.round = @ + 1,
                          !.armed = /\ life.armed
                                    /\ tsd.state \notin {"uninitialized",
                                                        "purgatory"}]
  /\ UNCHANGED <<tsopt, uevents>>

ThreadEnds ==
  /\ life.pc = "exits" /\ tsd.todo = <<>>
  /\ ~life.armed \/ life.round = PTHREAD_DESTRUCTOR_ITERATIONS
  /\ life' = [life EXCEPT !.pc = "dead"]
  /\ UNCHANGED <<tsopt, tsd, uevents>>

TsdNext ==
  \/ \E usize \in tsopt.mallocs : Malloc(usize)
  \/ \E usize \in tsopt.frees : FreeCall(usize)
  \/ HandlerBegin \/ HandlerEnd
  \/ \E b \in BOOLEAN : tcache_enabled_set(b)
  \/ \E obj \in tsopt.users, self \in BOOLEAN :
       te_register_user_handler(obj, self)
  \/ ThreadExits \/ Destructor \/ ThreadEnds

-----------------------------------------------------------------------------
(* te_assert_invariants_impl (thread_event.c:55) and the thresholds of the *)
(* fast paths: a fast path is open only in the nominal state, and then no  *)
(* event is due within it.                                                 *)
TeAsserts ==
  \A side \in Sides :
    LET c == tsd[side]
        interval == Minus(c.next, c.last)
        min_wait == te_next_event_compute(tsd, side)
    IN  /\ c.fast = FastThreshold(tsd, side)
        /\ tsd.state \notin {"uninitialized", "purgatory"} =>
             /\ c.last # c.next
             /\ Minus(c.cur, c.last) < interval
             /\ interval = min_wait
                \/ (interval < min_wait /\ interval = TE_MAX_INTERVAL)

(* An event that is due, by the bytes allocated since it fired, and was    *)
(* postponed because the thread could not run it, is what the next call of *)
(* any size triggers (thread_event.h:79); no other event is ever due.      *)
EventsTimely ==
  tsd.state \notin {"uninitialized", "purgatory"} =>
    \A side \in Sides, e \in Events :
      (Enabled(side, e) /\ tsd[side].wait[e] # 0
         /\ tsd[side].since[e] >= new_event_wait(e)) =>
        Minus(tsd[side].next, tsd[side].cur) = TE_MIN_START_WAIT

(* Only nominal data holds an arena or a thread cache, the others keep the *)
(* thread reentrant so that it gets neither (assert_tsd_data_cleanup_done, *)
(* tsd.c:148), minimal data becomes nominal after at most                  *)
(* TSD_MIN_INIT_STATE_MAX_FETCHED frees, a destructor is registered for    *)
(* nominal data, and a thread leaves nothing behind.                       *)
TsdCleaned ==
  /\ ~tsd_nominal(tsd) => ~tsd.arena /\ ~tsd.tcache
  /\ tsd.state = "uninitialized" \/ tsd_nominal(tsd) \/ tsd.reentrancy = 1
  /\ tsd.state = "nominal" => tsd.tcache /\ tsd.reentrancy = 0 /\ ~tsopt.slow
  /\ tsd_nominal(tsd) => life.armed
  /\ tsd.state = "minimal_initialized" =>
       tsd.nfetched < TSD_MIN_INIT_STATE_MAX_FETCHED
  /\ (life.pc = "dead" /\ ~life.armed) => ~tsd.arena /\ ~tsd.tcache
=============================================================================
