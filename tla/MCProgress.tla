---------------------------- MODULE MCProgress ------------------------------
(***************************************************************************)
(* The components whose calls wait for each other, spin or loop until      *)
(* something happens, for TLC: the small extent cache, the background      *)
(* threads with the arenas they serve, the cuckoo hash table, the dss and  *)
(* the initialisation.  One component per behaviour, chosen by kind; the   *)
(* others stay as they are initially.                                      *)
(***************************************************************************)
EXTENDS Sec, Background, CuckooHash, Dss, Boot, TLC

CONSTANTS t1, t2, ProgKinds

VARIABLE kind

OneSize == [e \in Extents |-> 1]

\* What two application threads call, how often, the largest number of background
\* threads, the arenas that are reset, and what fails.
BgOption(p, q, np, nq, max, rs, fails) ==
  [calls |-> [t \in BgApps |-> IF t = "p" THEN p ELSE q], max |-> max, resets |-> rs,
   fails |-> fails, revive |-> FALSE,
   left |-> [t \in BgApps |-> IF t = "p" THEN np ELSE nq]]
IdleBg == BgOption({"create"}, {"destroy", "choose", "thread.arena", "enable", "hooks"},
                   1, 3, 2, {2}, {"arena"})
SomeBgs ==
  {BgOption({"enable", "disable", "choose"}, {"choose", "free", "exit"}, 3, 3, 2, {},
            {"thread"}),
   BgOption({"enable", "disable", "choose"}, {"fork", "choose"}, 3, 2, 2, {}, {}),
   BgOption({"setmax", "enable"}, {"choose", "thread.arena", "create"}, 2, 2, 2, {}, {}),
   BgOption({"reset", "enable"}, {"destroy", "create"}, 2, 4, 2, {3}, {}),
   BgOption({"reset", "enable", "disable"}, {"destroy", "create"}, 3, 2, 1, {2}, {}),
   IdleBg}
\* Resets of arenas of two background threads.
PauseBgs == {BgOption({"create", "reset", "enable"}, {"create", "destroy"},
                      4, 2, 2, {2, 3}, {})}

\* Two keys share both buckets of a small table.
SomeHashes == {(1 :> <<0, 1>>) @@ (2 :> <<1, 2>>) @@ (3 :> <<2, 1>>)
                 @@ (4 :> <<3, 1>>) @@ (5 :> <<1, 1>>)}

SomeSpans == {<<2, 2>>, <<2, 4>>}

\* Calls of three threads before, during and after the initialisation; numbers of
\* CPUs, gaps in their numbering, and narenas options around the largest.
Calls(p, q, r) == ("p" :> p) @@ ("q" :> q) @@ ("r" :> r)
BootOption(calls, a0, fails, n, cpus, det, get, mode, nar, huge, bg) ==
  [calls |-> calls, a0 |-> a0, fails |-> fails, ncpus |-> n, cpus |-> cpus,
   deterministic |-> det, getcpu |-> get, mode |-> mode, narenas |-> nar, ratio |-> 3,
   huge |-> huge, bg |-> bg]
Once == Calls(1, 0, 0)
IdleBoot == BootOption(Calls(2, 2, 2), Calls(0, 0, 0), {}, 2, <<>>, TRUE, TRUE, "disabled", 0,
                       FALSE, FALSE)
SomeBoots ==
  {IdleBoot,
   BootOption(Calls(2, 0, 0), Once, {"background"}, 1, <<>>, TRUE, FALSE, "percpu", 0, TRUE, TRUE),
   BootOption(Calls(3, 0, 0), Calls(0, 0, 0), {"a0"}, 2, <<>>, FALSE, TRUE, "percpu", 0, TRUE, FALSE),
   BootOption(Calls(2, 0, 0), Calls(0, 0, 0), {"late"}, 2, <<>>, TRUE, TRUE, "phycpu", 9, TRUE, FALSE),
   BootOption(Once, Calls(0, 0, 0), {"locked"}, 2, <<>>, TRUE, TRUE, "phycpu", 0, TRUE, FALSE),
   BootOption(Once, Calls(0, 0, 0), {}, 6, <<>>, TRUE, TRUE, "phycpu", 0, TRUE, FALSE)}
  \cup {BootOption(Once, Calls(0, 0, 0), {}, n, cpus, det, TRUE, mode, nar, TRUE, FALSE) :
          n \in 1 .. 5, cpus \in {<<>>, <<1, 4, 7>>, <<0, 2, 3, 5, 1>>}, det \in BOOLEAN,
          mode \in {"percpu", "phycpu"}, nar \in {0, 1, 2, 6}}

progvars == <<kind, vars, bgvars, ckhvars, dssvars, bootvars>>

\* What is chosen at the start matters to one kind only.
ProgInit ==
  /\ kind \in ProgKinds
  /\ Init /\ CkhInit /\ DssInit
  /\ BgInit /\ (kind # "bg" => bgopt = CHOOSE o \in BgOptions : TRUE)
  /\ BootInit /\ (kind # "boot" => bopt = IdleBoot)

Only(k) ==
  /\ kind = k /\ UNCHANGED kind
  /\ k # "sec" => UNCHANGED vars
  /\ k # "bg" => UNCHANGED bgvars
  /\ k # "ckh" => UNCHANGED ckhvars
  /\ k # "dss" => UNCHANGED dssvars
  /\ k # "boot" => UNCHANGED bootvars

ProgNext == \/ kind = "sec" /\ Next /\ Only("sec")
            \/ kind = "bg" /\ BgNext /\ Only("bg")
            \/ kind = "ckh" /\ CkhNext /\ Only("ckh")
            \/ kind = "dss" /\ DssNext /\ Only("dss")
            \/ kind = "boot" /\ BootNext /\ Only("boot")

\* The steps of a component that are fair each by itself: a thread's next step in
\* the call it is in, a background thread's next step, the eviction of one cell.
FairStep(slot) ==
  \/ /\ kind = "sec" /\ slot \in 1 .. 2
     /\ Step(<<t1, t2>>[slot]) /\ Only("sec")
  \/ /\ kind = "bg" /\ slot \in 1 .. 2
     /\ AppStep(<<"p", "q">>[slot]) /\ Only("bg")
  \/ /\ kind = "bg" /\ slot \in 3 .. 4
     /\ WorkerStep(slot - 3) /\ Only("bg")
  \/ kind = "ckh" /\ slot = 1 /\ CkhStep /\ Only("ckh")
  \/ /\ kind = "ckh" /\ slot \in 2 .. 3
     /\ CkhEvict(slot - 2) /\ Only("ckh")
  \/ /\ kind = "dss" /\ slot \in 1 .. 2
     /\ DssStep(<<"p", "q">>[slot]) /\ Only("dss")
  \/ /\ kind = "boot" /\ slot \in 1 .. 3
     /\ BootStep(<<"p", "q", "r">>[slot]) /\ Only("boot")

ProgSpec == ProgInit /\ [][ProgNext]_progvars
            /\ \A slot \in 1 .. 4 : SF_progvars(FairStep(slot))
-----------------------------------------------------------------------------

(* A background thread keeps away from an arena that is being reset        *)
(* (background_thread_arena_reset_begin).                                  *)
WorkersApart == kind = "bg" => BgApart

(* The counts and states of background threads and arenas.                 *)
WorkersSound == kind = "bg" => BgSound

(* The call of a slot's thread has not returned. *)
Waiting(slot) ==
  \/ kind = "sec" /\ slot \in 1 .. 2 /\ th[<<t1, t2>>[slot]].pc # "idle"
  \/ kind = "bg" /\ slot \in 1 .. 2 /\ Pc(<<"p", "q">>[slot]) \notin {"idle", "gone"}
  \/ kind = "ckh" /\ slot = 1 /\ job.pc # "idle"
  \/ kind = "dss" /\ slot \in 1 .. 2 /\ dsc[<<"p", "q">>[slot]].pc # "idle"
  \/ kind = "boot" /\ slot \in 1 .. 3 /\ bcall[<<"p", "q", "r">>[slot]].pc \notin BootResting

(* Every call returns: of the small extent cache, of the control interface *)
(* while background threads start and stop, of the hash table whatever it  *)
(* evicts, of the dss while two threads extend it, and the first calls of  *)
(* a program while one of them initialises the allocator.                  *)
AllReturn == \A slot \in 1 .. 3 : Waiting(slot) ~> ~Waiting(slot)
=============================================================================
