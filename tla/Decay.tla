------------------------------- MODULE Decay -------------------------------
(***************************************************************************)
(* The decay curve of src/decay.c with the times of src/nstime.c: how many *)
(* unused pages may stay, epoch by epoch, and how long a background thread *)
(* may sleep.  A time is a number of nanoseconds; NsPerMs of them make a   *)
(* millisecond, NsMax is the largest.  The smoothstep table h_steps rises  *)
(* to 2 ^ SMOOTHSTEP_BFP.  clock is what nstime_update last read; it goes  *)
(* back only on a system whose clock is not monotonic.                     *)
(***************************************************************************)
EXTENDS Integers, Sequences, Folds

CONSTANTS SMOOTHSTEP_NSTEPS, SMOOTHSTEP_BFP, h_steps, NsPerMs, NsMax,
          DecayMs, TimerScales, MaxClock, MaxPages

VARIABLES decay, clock, timer_scale, monotonic

decayvars == <<decay, clock, timer_scale, monotonic>>

Steps == 1 .. SMOOTHSTEP_NSTEPS
Unbounded == NsMax
SumOver(f(_), S) == MapThenFoldSet(+, 0, f, LAMBDA T : CHOOSE x \in T : TRUE, S)
Whole(sum) == sum \div 2 ^ SMOOTHSTEP_BFP

decay_ms_valid(ms) == ms >= -1 /\ ms <= NsMax \div NsPerMs

(* Scale, saturating. *)
timer_scale_apply(t) ==
  IF t > NsMax \div timer_scale THEN NsMax ELSE t * timer_scale

(* A setting that is not gradual leaves the old interval in place. *)
decay_interval_init(d, ms) ==
  IF ms > 0
  THEN timer_scale_apply(ms * NsPerMs) \div SMOOTHSTEP_NSTEPS
  ELSE d.interval

(* The deadlines that the jitter can give. *)
decay_deadline_init(epoch, interval, ms) ==
  {epoch + interval + jitter :
     jitter \in IF ms > 0 THEN 0 .. interval - 1 ELSE {0}}

decay_reinit(d, time, ms) ==
  LET interval == decay_interval_init(d, ms)
  IN  {[d EXCEPT !.time_ms = ms, !.interval = interval, !.epoch = time,
                 !.deadline = deadline, !.nunpurged = 0,
                 !.backlog = [i \in Steps |-> 0]] :
         deadline \in decay_deadline_init(time, interval, ms)}

DecayNew ==
  [time_ms |-> 0, interval |-> 0, epoch |-> 0, deadline |-> 0,
   npages_limit |-> 0, nunpurged |-> 0, backlog |-> [i \in Steps |-> 0],
   ceil_npages |-> 0]

decay_backlog_npages_limit(backlog) ==
  Whole(SumOver(LAMBDA i : backlog[i] * h_steps[i], Steps))

(* Operators named X_<bug> are X with a bug that the properties must       *)
(* detect.  Here the pages that stay from before are counted as new ones.  *)
decay_backlog_update_all_new(d, nadvance, npages) ==
  [i \in Steps |->
     IF i = SMOOTHSTEP_NSTEPS THEN npages
     ELSE IF i + nadvance <= SMOOTHSTEP_NSTEPS THEN d.backlog[i + nadvance]
     ELSE 0]

(* Age the records and put the growth since the last epoch in the newest. *)
decay_backlog_update(d, nadvance, npages) ==
  [i \in Steps |->
     IF i = SMOOTHSTEP_NSTEPS
     THEN IF npages > d.nunpurged THEN npages - d.nunpurged ELSE 0
     ELSE IF i + nadvance <= SMOOTHSTEP_NSTEPS THEN d.backlog[i + nadvance]
     ELSE 0]

(* Time went back: so does the epoch. *)
decay_maybe_update_time(d, time) ==
  IF ~monotonic /\ d.epoch > time
  THEN {[d EXCEPT !.epoch = time, !.deadline = deadline] :
          deadline \in decay_deadline_init(time, d.interval, d.time_ms)}
  ELSE {d}

(* ceil_npages is the debug peak that the new limit may not exceed. *)
decay_advance(d, time, npages) ==
  LET nadvance == (time - d.epoch) \div d.interval
      epoch == d.epoch + nadvance * d.interval
      interval == decay_interval_init(d, d.time_ms)
      backlog == decay_backlog_update(d, nadvance, npages)
      limit == decay_backlog_npages_limit(backlog)
      ceil == IF npages > d.ceil_npages THEN npages ELSE d.ceil_npages
  IN  {[d EXCEPT !.epoch = epoch, !.interval = interval,
                 !.deadline = deadline, !.backlog = backlog,
                 !.npages_limit = limit,
                 !.nunpurged = IF limit > npages THEN limit ELSE npages,
                 !.ceil_npages = IF ceil > limit THEN limit ELSE ceil] :
         deadline \in decay_deadline_init(epoch, interval, d.time_ms)}

decay_deadline_reached(d, time) == d.deadline <= time

decay_maybe_advance_epoch(d, time, npages) ==
  UNION {IF decay_deadline_reached(e, time)
         THEN decay_advance(e, time, npages) ELSE {e} :
         e \in decay_maybe_update_time(d, time)}

-----------------------------------------------------------------------------
(* The questions a background thread asks. *)

decay_gradually(d) == d.time_ms > 0

decay_npages_purge_in(d, time, npages_new) ==
  LET n_epoch == time \div d.interval
  IN  IF n_epoch >= SMOOTHSTEP_NSTEPS THEN npages_new
      ELSE Whole(npages_new * (h_steps[SMOOTHSTEP_NSTEPS]
                                 - h_steps[SMOOTHSTEP_NSTEPS - n_epoch]))

decay_npurge_after_interval(d, interval) ==
  Whole(SumOver(LAMBDA i : d.backlog[i] * h_steps[i], 1 .. interval)
        + SumOver(LAMBDA i : d.backlog[i]
                               * (h_steps[i] - h_steps[i - interval]),
                  interval + 1 .. SMOOTHSTEP_NSTEPS))

(* The interval found by bisection between lb and ub. *)
RECURSIVE Bisect(_, _, _, _)
Bisect(d, lb, ub, threshold) ==
  LET target == (lb + ub) \div 2
      purge_lb == decay_npurge_after_interval(d, lb)
      purge_ub == decay_npurge_after_interval(d, ub)
      purge == decay_npurge_after_interval(d, target)
  IN  IF ~(purge_lb + threshold < purge_ub /\ lb + 2 < ub)
      THEN [lb |-> lb, ub |-> ub]
      ELSE IF purge > threshold THEN Bisect(d, lb, target, threshold)
      ELSE Bisect(d, target, ub, threshold)

decay_ns_until_purge(d, npages, threshold) ==
  LET last == SMOOTHSTEP_NSTEPS
      found == Bisect(d, 2, last, threshold)
  IN  IF \/ ~decay_gradually(d)
         \/ npages = 0 /\ \A i \in Steps : d.backlog[i] = 0
      THEN Unbounded
      ELSE IF npages <= threshold THEN d.interval * last
      ELSE IF decay_npurge_after_interval(d, 2) > threshold
      THEN d.interval * 2
      ELSE IF decay_npurge_after_interval(d, last) < threshold
      THEN d.interval * last
      ELSE (d.interval * (found.ub + found.lb)) \div 2

-----------------------------------------------------------------------------

DecayInit ==
  /\ clock = 0
  /\ timer_scale = 1
  /\ monotonic \in BOOLEAN
  /\ \E ms \in DecayMs :
       /\ decay_ms_valid(ms)
       /\ decay \in decay_reinit(DecayNew, 0, ms)

(* nstime_update keeps the later of two readings; a caller that starts     *)
(* from zero sees what the system's clock says.                            *)
ClockMoves ==
  /\ clock' \in 0 .. MaxClock
  /\ monotonic => clock' > clock
  /\ clock' # clock
  /\ UNCHANGED <<decay, timer_scale, monotonic>>

SetTimerScale ==
  /\ timer_scale' \in TimerScales
  /\ UNCHANGED <<decay, clock, monotonic>>

DecayMsSet ==
  /\ \E ms \in DecayMs :
       decay_ms_valid(ms) /\ decay' \in decay_reinit(decay, clock, ms)
  /\ UNCHANGED <<clock, timer_scale, monotonic>>

(* Only a gradual setting asks for epochs. *)
DecayEpoch ==
  /\ decay_gradually(decay)
  /\ \E npages \in 0 .. MaxPages :
       decay' \in decay_maybe_advance_epoch(decay, clock, npages)
  /\ UNCHANGED <<clock, timer_scale, monotonic>>

DecayNext == ClockMoves \/ SetTimerScale \/ DecayMsSet \/ DecayEpoch

-----------------------------------------------------------------------------

(* The limit of an epoch never exceeds the pages there were (decay.c       *)
(* asserts it of its debug peak), the deadline leaves at least one whole   *)
(* interval and less than two, a sleep is between two intervals and the    *)
(* whole curve, and the purge predicted for it is what the limit falls by  *)
(* (the two sums are rounded apart), however the clock, the scale and the  *)
(* setting change.                                                         *)
DecayHolds ==
  /\ decay.npages_limit <= decay.ceil_npages
  /\ decay_gradually(decay) =>
       /\ decay.deadline - decay.epoch \in
            decay.interval .. 2 * decay.interval - 1
       /\ \A n \in 0 .. SMOOTHSTEP_NSTEPS :
            LET aged == [i \in Steps |-> IF i + n \in Steps
                                         THEN decay.backlog[i + n] ELSE 0]
                fall == decay_backlog_npages_limit(decay.backlog)
                          - decay_backlog_npages_limit(aged)
            IN  decay_npurge_after_interval(decay, n) \in {fall - 1, fall}
       /\ \A npages, threshold \in 0 .. MaxPages :
            LET ns == decay_ns_until_purge(decay, npages, threshold)
            IN  \/ ns = Unbounded
                \/ ns \in 2 * decay.interval ..
                            SMOOTHSTEP_NSTEPS * decay.interval
       /\ \A n \in 0 .. MaxPages, t \in 0 .. MaxClock :
            /\ decay_npages_purge_in(decay, t, n) <= n
            /\ decay_npages_purge_in(decay, t, n) <=
                 decay_npages_purge_in(decay, t + 1, n)
=============================================================================
