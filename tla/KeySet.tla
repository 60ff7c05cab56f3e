------------------------------- MODULE KeySet -------------------------------
(***************************************************************************)
(* What the cuckoo hash table (ckh.c) promises its callers: a set of keys. *)
(* op is the last call that returned, and whether it returned true, which  *)
(* means failure.  CuckooHash is shown to implement it.                    *)
(***************************************************************************)
CONSTANT Keys
VARIABLES set, op

Init == set = {} /\ op = [name |-> "new", ret |-> FALSE]

Returned(name, ret) == op' = [name |-> name, ret |-> ret]

Insert(k) ==
  Returned("insert", FALSE) /\ k \notin set /\ set' = set \cup {k}

(* An insertion that fails keeps all keys but one, which is not always the *)
(* new one.                                                                *)
InsertFails(k) ==
  /\ Returned("insert", TRUE)
  /\ k \notin set
  /\ \E lost \in set \cup {k} : set' = (set \cup {k}) \ {lost}

Remove(k) ==
  op'.name = "remove" /\ op'.ret = (k \notin set) /\ set' = set \ {k}

Next == \E k \in Keys : Insert(k) \/ InsertFails(k) \/ Remove(k)

Spec == Init /\ [][Next]_<<set, op>>
=============================================================================
