------------------------------- MODULE MCProf -------------------------------
(***************************************************************************)
(* Instances of Prof for model checking: two threads that make a few calls *)
(* with one or two backtraces and up to two sampled objects.               *)
(***************************************************************************)
EXTENDS Prof

Small == [threads |-> {1, 2}, bts |-> {1}, objs |-> {1, 2}, calls |-> 4, ops |-> {},
          oom |-> {}, accum |-> FALSE, sys_thread_name |-> FALSE, max |-> 0,
          maxes |-> {}]

ProfOptions == {
    \* Dumps, and tdatas that expire and are replaced.
    [Small EXCEPT !.ops = {"dump", "reset"}],
    \* Dumps, and threads that exit before their objects are freed.
    [Small EXCEPT !.ops = {"dump", "exit"}, !.oom = {"gctx", "user"}],
    \* Two backtraces, and so two gctxs.
    [Small EXCEPT !.ops = {"dump"}, !.bts = {1, 2}],
    \* Contexts that cannot be allocated.
    [Small EXCEPT !.ops = {"exit"}, !.oom = {"tdata", "tctx"}],
    \* Contexts that are never destroyed.
    [Small EXCEPT !.ops = {"dump"}, !.accum = TRUE, !.oom = {"tdata"}],
    \* Reallocations; a thread may replace its tdata between two uses of a tctx.
    [Small EXCEPT !.ops = {"realloc", "reset"}, !.objs = {1}, !.max = 1,
                  !.sys_thread_name = TRUE, !.oom = {"tdata"}],
    \* Records of recent allocations.
    [Small EXCEPT !.ops = {"max", "recent_dump"}, !.calls = 5, !.max = 1,
                  !.maxes = {0, 2, Unlimited}, !.oom = {"node"}] }

\* Threads that exit while tdatas are made to expire.
ResetOptions == { [Small EXCEPT !.ops = {"reset", "exit"}, !.objs = {1}] }

(***************************************************************************)
(* Every counter is the number of sampled objects it stands for, live or   *)
(* captured: those of contexts, and those of a profile while it is written *)
(* (prof_tctx_merge_tdata, prof_tctx_merge_gctx, prof_tctx_dump_iter).     *)
(***************************************************************************)
CountsSound == CountsExact /\ ProfileAddsUp

(***************************************************************************)
(* The list of recent allocations holds exactly the records of which       *)
(* someone may ask, and the trees it and the dumps walk over have no two   *)
(* elements with one key (prof_recent.c, prof_tctx_comp).                  *)
(***************************************************************************)
RecordsSound == RecentExact /\ TreeKeysDistinct
=============================================================================
